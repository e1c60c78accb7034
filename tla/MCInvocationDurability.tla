----------------------- MODULE MCInvocationDurability -----------------------
(* Instances of InvocationDurability for TLC. *)
EXTENDS InvocationDurability, TLC

SharedDir == [i \in Invocation |-> "dir"]

Symmetry == Permutations(Session)
=============================================================================
