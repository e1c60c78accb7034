------------------------------- MODULE Outbox -------------------------------
(***************************************************************************)
(* What an outbox promises of each message, whatever claims, backoffs,     *)
(* sweeps and restarts it uses for it: a request is made only while the    *)
(* message is open and no answer to another one is awaited; the reader is  *)
(* shown it once at most, perhaps after its sender gave it up; a receipt   *)
(* is written only when the awaited request arrived, and is not taken back *)
(* but by a human, who asks again.                                         *)
(***************************************************************************)
EXTENDS Naturals

CONSTANTS
    Message,
    None        \* no answer is awaited

VARIABLES
    asked,      \* how often a human asked for each message to be sent
    awaited,    \* the request whose answer is awaited
    out,        \* the requests that may still arrive
    shown,      \* the requests whose message the reader was shown
    doubted,    \* the requests that were given up without an answer
    receipt     \* "none", "open", "delivered", "unconfirmed", "failed"

vars == <<asked, awaited, out, shown, doubted, receipt>>

Init ==
    /\ asked = [m \in Message |-> 0]
    /\ awaited = [m \in Message |-> None]
    /\ out = {} /\ shown = {} /\ doubted = {}
    /\ receipt = [m \in Message |-> "none"]

Ask(m) ==
    /\ receipt[m] \in {"none", "failed", "unconfirmed"}
    /\ asked' = [asked EXCEPT ![m] = @ + 1]
    /\ receipt' = [receipt EXCEPT ![m] = "open"]
    /\ UNCHANGED <<awaited, out, shown, doubted>>

\* A request of its own, not one that went out before.
Send(m) ==
    /\ receipt[m] = "open" /\ awaited[m] = None
    /\ LET r == awaited'[m]
       IN  /\ r # None /\ r \notin out \cup shown \cup doubted
           /\ awaited' = [awaited EXCEPT ![m] = r]
           /\ out' = out \cup {r}
    /\ UNCHANGED <<asked, shown, doubted, receipt>>

\* A reader who knows the message already may be spared it.
Show(r) ==
    /\ r \in out
    /\ out' = out \ {r}
    /\ shown' \in {shown, shown \cup {r}}
    /\ UNCHANGED <<asked, awaited, doubted, receipt>>

Stop(m, r) ==
    /\ receipt[m] = "open" /\ awaited[m] # None
    /\ awaited' = [awaited EXCEPT ![m] = None]
    /\ receipt' = [receipt EXCEPT ![m] = r]
    /\ UNCHANGED <<asked, shown>>

\* The request did not arrive and will not.
Refuse(m) ==
    /\ \E r \in {"open", "failed"} : Stop(m, r)
    /\ awaited[m] \in out /\ out' = out \ {awaited[m]}
    /\ UNCHANGED doubted

\* Whoever gives up does not know whether it arrived, or will.
GiveUp(m) ==
    /\ \E r \in {"open", "failed"} : Stop(m, r)
    /\ doubted' = doubted \cup {awaited[m]}
    /\ UNCHANGED out

Close(m) ==
    /\ \E r \in {"delivered", "unconfirmed"} : Stop(m, r)
    /\ awaited[m] \notin out
    /\ UNCHANGED <<out, doubted>>

Confirm(m) ==
    /\ receipt[m] = "unconfirmed"
    /\ receipt' = [receipt EXCEPT ![m] = "delivered"]
    /\ UNCHANGED <<asked, awaited, out, shown, doubted>>

Next ==
    \/ \E m \in Message : Ask(m) \/ Send(m) \/ Refuse(m) \/ GiveUp(m) \/ Close(m) \/ Confirm(m)
    \/ \E r \in out : Show(r)

Spec == Init /\ [][Next]_vars
=============================================================================
