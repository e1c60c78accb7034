---------------------------- MODULE MCStateLock ----------------------------
(* Instance of StateLock for TLC. *)
EXTENDS StateLock, TLC

Symmetry == Permutations(Process)
=============================================================================
