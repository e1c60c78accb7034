---------------------------- MODULE MCDirectHttp ----------------------------
(* Instances of DirectHttp for TLC. *)
EXTENDS DirectHttp, TLC

CONSTANTS i1, i2, i3, a, b

\* Two invocations of one agent, one of another.
TwoAndOne == (i1 :> a) @@ (i2 :> a) @@ (i3 :> b)

\* One invocation.
One == i1 :> a
=============================================================================
