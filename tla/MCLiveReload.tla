---------------------------- MODULE MCLiveReload ----------------------------
(* A file that shrinks with the first edit and grows with the second.      *)
EXTENDS LiveReload

SomeChunks == [v \in Version |-> CASE v = 0 -> 2 [] v = 1 -> 1 [] OTHER -> 3]
=============================================================================
