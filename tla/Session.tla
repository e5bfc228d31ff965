------------------------------ MODULE Session -------------------------------
(***************************************************************************)
(* What the remote debug server promises its client about a run of the     *)
(* machine (README, section Remote Debug Server): the machine is stopped   *)
(* until `continue`; it executes until the run is reported as stopped, and *)
(* not one clock further; only then do the requests that need a stopped    *)
(* machine work again.                                                     *)
(***************************************************************************)
EXTENDS Naturals

VARIABLES
  running,    (* has the machine been set going?                           *)
  run,        (* number of times it has been                               *)
  reported,   (* the runs whose end has been reported                      *)
  cycle       (* the machine; only whether it moves matters                *)

svars == <<running, run, reported, cycle>>

SInit == running = FALSE /\ run = 0 /\ reported = {} /\ cycle = 0

Continue ==
  /\ ~running /\ running' = TRUE
  /\ run' = run + 1
  /\ UNCHANGED <<reported, cycle>>

Execute ==
  /\ running /\ run \notin reported
  /\ cycle' # cycle
  /\ UNCHANGED <<running, run, reported>>

ReportStop ==
  /\ running /\ run \notin reported
  /\ reported' = reported \cup {run}
  /\ UNCHANGED <<running, run, cycle>>

Stop ==
  /\ running /\ run \in reported
  /\ running' = FALSE
  /\ UNCHANGED <<run, reported, cycle>>

(* A step, a reset, a write or a restored snapshot. *)
Operate ==
  /\ ~running
  /\ cycle' # cycle
  /\ UNCHANGED <<running, run, reported>>

SNext == Continue \/ Execute \/ ReportStop \/ Stop \/ Operate

Spec == SInit /\ [][SNext]_svars
=============================================================================
