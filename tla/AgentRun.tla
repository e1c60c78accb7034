------------------------------ MODULE AgentRun ------------------------------
(***************************************************************************)
(* What the delivery of invocations relies on in the run of one agent by a *)
(* bridge (InvocationDelivery: DeliverCancel, ExecutorEnds, SendComplete), *)
(* whatever timers, watchers and signals the bridge uses for it: a request *)
(* to stop reaches the run or comes too late; the run is over only when    *)
(* its agent is gone; and what is reported, once at most, is the end of    *)
(* the kind of run it was.                                                 *)
(***************************************************************************)
CONSTANTS
    ExitVerdict,    \* what a run may report that was left to its end
    KillVerdict,    \* what a run may report that was told to stop
    Unreported      \* nothing: a value that is no verdict

VARIABLES
    phase,      \* as in a delivery: "executing", "killing", "exited", "killed", "ended"
    agent,      \* "alive" or "gone"
    verdict     \* Unreported, or what was reported

vars == <<phase, agent, verdict>>

Init == phase = "executing" /\ agent = "alive" /\ verdict = Unreported

\* By itself, or because it was made to.
AgentEnds ==
    /\ agent = "alive" /\ agent' = "gone"
    /\ UNCHANGED <<phase, verdict>>

Stop ==
    /\ phase = "executing" /\ phase' = "killing"
    /\ UNCHANGED <<agent, verdict>>

Over ==
    /\ agent = "gone"
    /\ \/ phase = "executing" /\ phase' = "exited"
       \/ phase = "killing" /\ phase' = "killed"
    /\ UNCHANGED <<agent, verdict>>

\* The report is sent, or the bridge gives it up.
End ==
    /\ \/ phase = "exited" /\ verdict' \in ExitVerdict \cup {Unreported}
       \/ phase = "killed" /\ verdict' \in KillVerdict \cup {Unreported}
    /\ phase' = "ended"
    /\ UNCHANGED agent

Next == AgentEnds \/ Stop \/ Over \/ End

Spec == Init /\ [][Next]_vars
=============================================================================
