------------------------------ MODULE Machine -------------------------------
(***************************************************************************)
(* A session with the simulated machine from its start: a program file is  *)
(* loaded (module Loader), the core runs and counts (Pipeline,             *)
(* Statistics), is reset in mid-flight (PipelineReset), saved and restored *)
(* (Snapshot).                                                             *)
(***************************************************************************)
EXTENDS Snapshot, Loader

MachineInit == SnapInit /\ file \in Files /\ phase = "start"

Load == (LoadElf \/ LoadText) /\ UNCHANGED <<resets, counters, session>>

Proceed == phase = "loaded" /\ SnapNext /\ UNCHANGED <<file, phase>>

MachineNext == Load \/ Proceed

mvars == <<vars, resets, counters, session, file, phase>>

MachineSpec == MachineInit /\ [][MachineNext]_mvars

-----------------------------------------------------------------------------
(* A program finds its variables: the address that relocated code builds   *)
(* is the symbol's, and a load from there brings the symbol's word.  The   *)
(* loader's bases, bytes and patches, the pipeline's forwarding and the    *)
(* snapshot's list of cells take part.  (A reset clears the variables.)    *)
VariableIsRead == AddressIsBuilt /\ (resets = 0 => WordIsRead)
=============================================================================
