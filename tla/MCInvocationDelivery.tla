------------------------ MODULE MCInvocationDelivery ------------------------
(* Instances of InvocationDelivery for TLC. *)
EXTENDS InvocationDelivery, TLC

\* Every invocation works in the one directory of the instance.
SharedDir == [i \in Invocation |-> "dir"]

\* Every invocation has a directory of its own.
OwnDir == [i \in Invocation |-> i]

\* The processes are alike; so are the invocations when DirOf does not
\* distinguish them.
Symmetry == Permutations(Session) \cup Permutations(Invocation)
=============================================================================
