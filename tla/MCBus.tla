------------------------------- MODULE MCBus -------------------------------
(***************************************************************************)
(* The board of main.cpp, and the addresses around its borders.            *)
(***************************************************************************)
EXTENDS Bus

BoardLength ==
  [p \in Peripherals |-> IF p = "mac" THEN 3 ELSE 4]

Board == {<<65492, "mac">>, <<65488, "gpio">>, <<65495, "timer">>, <<65499, "uart">>}

(* Calls that meet the array or one another's addresses. *)
Crowded == Board \cup {<<65487, "gpio">>, <<65489, "gpio">>, <<65490, "mac">>, <<65496, "uart">>}

(* README, Memory: "MAC peripheral: Memory-mapped multiply-accumulate unit *)
(* at address 0xFFD0".                                                     *)
MacWhereDocumented == Attached("mac") => home["mac"] = 65488
=============================================================================
