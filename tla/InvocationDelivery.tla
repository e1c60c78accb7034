------------------------- MODULE InvocationDelivery -------------------------
(***************************************************************************)
(* Delivery of invocations from the control-plane server to the Desktop    *)
(* Bridge of one device, and their execution there.                        *)
(*                                                                         *)
(* The server keeps an in-memory record per invocation; every synchronous  *)
(* handler is one atomic step.  A bridge is an operating-system process    *)
(* with a session id of its own: a restarted bridge is a new session, and  *)
(* the process it replaces may still be alive.  It polls for work, asks    *)
(* permission to start what it was handed (ack), spawns the agent, and     *)
(* reports the result once (complete).                                     *)
(*                                                                         *)
(* A request is authenticated when its headers arrive and handled after    *)
(* its body was read (routes/bridge.mjs: requireBridgeCredential runs      *)
(* before `await readJson`), so other handlers run in between.  Requests   *)
(* and responses can be lost.                                              *)
(*                                                                         *)
(* Time is abstracted: a poll or a sweep chooses which leases, graces and  *)
(* deadlines have run out.  The server measures them by its own clock and  *)
(* knows nothing of the agents: any may run out while the agent lives.     *)
(***************************************************************************)
EXTENDS Integers, Sequences, FiniteSets

CONSTANTS
    Invocation,             \* the invocations of bridge-executed agents
    Session,                \* the bridge processes there will ever be
    NoSession,              \* no bridge has registered yet
    DirOf,                  \* the directory each invocation works in
    MaxConcurrency,         \* device.maxConcurrency
    MAX_DISPATCH_ATTEMPTS,  \* leased-and-lapsed deliveries before giving up
    ExitStatus              \* what a run that was not cancelled reports

ASSUME DeliveryAssumption ==
    /\ NoSession \notin Session
    /\ MaxConcurrency \in Nat \ {0}
    /\ MAX_DISPATCH_ATTEMPTS \in Nat \ {0}
    /\ ExitStatus \subseteq {"succeeded", "failed", "timed_out"}

VARIABLES
    inv,        \* state.invocations: the server's record of each invocation
    current,    \* device.bridgeSessionId
    online,     \* device.status is "online"
    linked,     \* device.unlinkState is "linked"
    paired,     \* device.bridgeCredential holds a token
    proc,       \* the state of each bridge process
    task        \* per invocation, what became of each delivery of it

server == <<inv, current, online, linked, paired>>
bridge == <<proc, task>>
vars == <<inv, current, online, linked, paired, proc, task>>

-----------------------------------------------------------------------------
(* The server's record of an invocation.                                   *)

TerminalStatus == {"succeeded", "failed", "cancelled", "timed_out", "rejected"}
INFLIGHT_STATUSES == {"dispatching", "running", "cancelling"}
WaitingStatus == {"queued", "waiting_for_local_approval"}
Status == {"none"} \cup WaitingStatus \cup INFLIGHT_STATUSES \cup TerminalStatus

DeliveryState == {"not_required", "queued", "dispatching", "redelivering",
                  "acknowledged", "exhausted", "refused"}

InvocationRecord ==
    [status     : Status,
     delivery   : DeliveryState,
     attempts   : Nat,          \* delivery.dispatchAttempts
     approval   : {"none", "pending", "approved", "denied"},
     cancel     : {"none", "requested", "applied", "queued_cancelled"},
     superseded : BOOLEAN,      \* delivery.sessionSupersession is set
     deadline   : BOOLEAN,      \* deadlineEnforcement is interrupt_requested
     charges    : Nat]          \* ledger entries recorded for the run

NotCreated ==
    [status |-> "none", delivery |-> "not_required", attempts |-> 0,
     approval |-> "none", cancel |-> "none", superseded |-> FALSE,
     deadline |-> FALSE, charges |-> 0]

IsTerminal(v) == v.status \in TerminalStatus
InFlight(v) == v.status \in INFLIGHT_STATUSES

-----------------------------------------------------------------------------
(* A delivery on the bridge's side, by the session that was handed it.     *)
(*   claimed         handed out, nothing sent yet                          *)
(*   acking          its ack request was authenticated, body awaited       *)
(*   refusing        likewise for a refuse request                         *)
(*   granted         the server said 200 to the ack, the answer travels    *)
(*   executing       the agent's process runs                              *)
(*   killing         it was told to terminate                              *)
(*   exited, killed  the process is gone, no report sent yet               *)
(*   reporting, reporting_killed   the report was authenticated            *)
(*   ended           over, after the agent was started                     *)
(*   void            over, the ack was granted but nobody started an agent *)
(*   dropped         over, the ack was never granted                       *)

Alive == {"granted", "executing", "killing"}
Granted == Alive \cup {"exited", "killed", "reporting", "reporting_killed", "ended", "void"}
TaskPc == Granted \cup {"claimed", "acking", "refusing", "dropped"}
Task == [pc : TaskPc, session : Session]

ProcState == {"starting", "up", "dead"}

TypeOK ==
    /\ inv \in [Invocation -> InvocationRecord]
    /\ current \in Session \cup {NoSession}
    /\ online \in BOOLEAN /\ linked \in BOOLEAN /\ paired \in BOOLEAN
    /\ proc \in [Session -> ProcState]
    /\ task \in [Invocation -> Seq(Task)]

Init ==
    /\ inv = [i \in Invocation |-> NotCreated]
    /\ current = NoSession
    /\ online = FALSE /\ linked = TRUE /\ paired = FALSE
    /\ proc = [s \in Session |-> "starting"]
    /\ task = [i \in Invocation |-> <<>>]

-----------------------------------------------------------------------------
(* What the services do to one record.                                     *)

\* Variants of an operator, named Operator_Change, are mistakes that a change of
\* the code could make; the specification does not use them.

Completed_AsReported(v, status) ==
    IF IsTerminal(v) THEN v
    ELSE [v EXCEPT !.status = status,
                   !.cancel = IF status = "cancelled" THEN "applied" ELSE @]

\* completeInvocation: a no-op on a terminal record; an interrupt requested by
\* the runtime deadline decides the cause whatever the caller reports.
Completed(v, status) ==
    IF IsTerminal(v) THEN v
    ELSE LET final == IF v.deadline THEN "timed_out" ELSE status
         IN  [v EXCEPT !.status = final,
                       !.cancel = IF final = "cancelled" THEN "applied" ELSE @]

\* completeInvocation for a report that carries the run's cost.
Charged(v, status) ==
    IF IsTerminal(v) THEN v ELSE [Completed(v, status) EXCEPT !.charges = @ + 1]

\* cancelQueuedInvocation
QueuedCancelled(v) ==
    [v EXCEPT !.status = "cancelled", !.cancel = "queued_cancelled",
              !.approval = IF @ = "pending" THEN "denied" ELSE @]

\* The other branch of cancelInvocation, and requestRunningDeviceCancellation.
CancelRequested(v) == [v EXCEPT !.status = "cancelling", !.cancel = "requested"]

\* cancelInvocation
Cancelled(v) ==
    IF v.status \in WaitingStatus THEN QueuedCancelled(v) ELSE CancelRequested(v)

Requeued_StatusOnly(v) == [v EXCEPT !.status = "queued"]

Requeued(v) == [v EXCEPT !.status = "queued", !.delivery = "redelivering"]

LeaseLapsed_OneMore(v) ==
    IF v.attempts > MAX_DISPATCH_ATTEMPTS
    THEN Completed([v EXCEPT !.delivery = "exhausted"], "failed")
    ELSE Requeued(v)

\* One lapsed lease in redeliverExpiredDispatches.
LeaseLapsed(v) ==
    IF v.attempts >= MAX_DISPATCH_ATTEMPTS
    THEN Completed([v EXCEPT !.delivery = "exhausted"], "failed")
    ELSE Requeued(v)

SupersededReclaimed_Requeued(v) ==
    IF v.status = "cancelling" THEN Completed([v EXCEPT !.superseded = FALSE], "cancelled")
    ELSE Requeued([v EXCEPT !.superseded = FALSE])

\* One drained hand-over in reclaimSupersededBridgeSessions.
SupersededReclaimed(v) ==
    Completed([v EXCEPT !.superseded = FALSE],
              IF v.status = "cancelling" THEN "cancelled" ELSE "failed")

\* One record in supersedeBridgeSession.  Every leased or acknowledged delivery
\* was handed to an earlier session than the one that registers.
Fenced(v) ==
    IF v.status = "dispatching" THEN Requeued(v)
    ELSE [v EXCEPT !.superseded = @ \/ v.status \in {"running", "cancelling"}]

\* markDispatched
Dispatched(v) ==
    [v EXCEPT !.status = "dispatching", !.delivery = "dispatching", !.attempts = @ + 1]

\* acknowledgeInvocation
Acknowledged(v) == [v EXCEPT !.status = "running", !.delivery = "acknowledged"]

-----------------------------------------------------------------------------
(* Timers.                                                                 *)

\* The leases a poll may find lapsed: any.
MayLapse == {i \in Invocation : inv[i].status = "dispatching"
                                  /\ inv[i].delivery = "dispatching"}

\* The hand-overs it may find drained and the cancellations out of grace.
MayDrain == {i \in Invocation : inv[i].superseded /\ InFlight(inv[i])}
MayExpire == {i \in Invocation : inv[i].status = "cancelling"}

Redelivered_DrainedOnly(v, i, lapsed, drained) ==
    IF i \in drained THEN SupersededReclaimed(v) ELSE v

\* redeliverExpiredDispatches, with the reclaim it starts with.
Redelivered(v, i, lapsed, drained) ==
    IF i \in drained THEN SupersededReclaimed(v)
    ELSE IF i \in lapsed THEN LeaseLapsed(v)
    ELSE v

StuckReclaimed_Never(v, i, expired) == v

\* reclaimStuckCancellations: what is still cancelling after its grace.
StuckReclaimed(v, i, expired) ==
    IF i \in expired /\ v.status = "cancelling" THEN Completed(v, "cancelled") ELSE v

-----------------------------------------------------------------------------
(* nextDispatchableInvocation, on the records f.                           *)

InFlightSet(f) == {i \in Invocation : InFlight(f[i])}

DirBusy_RunningOnly(f, i) ==
    \E j \in Invocation : f[j].status = "running" /\ DirOf[j] = DirOf[i]

DirBusy(f, i) == \E j \in InFlightSet(f) : DirOf[j] = DirOf[i]

Eligible(f, i) ==
    /\ f[i].status = "queued"
    /\ f[i].delivery \in {"queued", "redelivering"}
    /\ ~DirBusy(f, i)

Dispatchable_OneTooMany(f) ==
    IF Cardinality(InFlightSet(f)) > MaxConcurrency THEN {}
    ELSE {i \in Invocation : Eligible(f, i)}

\* The fair selector picks one of these; which one is left open.
Dispatchable(f) ==
    IF Cardinality(InFlightSet(f)) >= MaxConcurrency THEN {}
    ELSE {i \in Invocation : Eligible(f, i)}

-----------------------------------------------------------------------------
(* The user and the operator.                                              *)

\* createInvocation: a gate rejects it, the policy asks for local approval, or
\* it is queued.
Create(i) ==
    /\ inv[i].status = "none"
    /\ inv' = [inv EXCEPT ![i] =
            [@ EXCEPT !.status = "rejected"]]
       \/ inv' = [inv EXCEPT ![i] =
            [@ EXCEPT !.status = "waiting_for_local_approval", !.approval = "pending"]]
       \/ inv' = [inv EXCEPT ![i] =
            [@ EXCEPT !.status = "queued", !.delivery = "queued"]]
    /\ UNCHANGED <<current, online, linked, paired, bridge>>

\* approveInvocation and denyInvocation both ask for a pending request of a
\* waiting invocation.
AwaitsDecision(v) == v.approval = "pending" /\ v.status = "waiting_for_local_approval"

Approve(i) ==
    /\ AwaitsDecision(inv[i])
    /\ inv' = [inv EXCEPT ![i] =
            [@ EXCEPT !.approval = "approved", !.status = "queued",
                      !.delivery = "queued", !.attempts = 0]]
    /\ UNCHANGED <<current, online, linked, paired, bridge>>

Deny(i) ==
    /\ AwaitsDecision(inv[i])
    /\ inv' = [inv EXCEPT ![i] = [@ EXCEPT !.approval = "denied", !.status = "rejected"]]
    /\ UNCHANGED <<current, online, linked, paired, bridge>>

Cancel(i) ==
    /\ inv[i].status # "none"
    /\ ~IsTerminal(inv[i])
    /\ inv' = [inv EXCEPT ![i] = Cancelled(@)]
    /\ UNCHANGED <<current, online, linked, paired, bridge>>

Unlinked_RunningOnly(v) ==
    IF v.status \in WaitingStatus THEN QueuedCancelled(v)
    ELSE IF v.status = "running" THEN CancelRequested(v)
    ELSE v

\* unlinkDevice and cancelInvocationsForDeviceUnlink: the credential is revoked
\* first, then the queue is cancelled and running work asked to stop.
Unlinked(v) ==
    IF v.status \in WaitingStatus THEN QueuedCancelled(v)
    ELSE IF v.status \in {"dispatching", "running"} THEN CancelRequested(v)
    ELSE v

Unlink ==
    /\ linked
    /\ linked' = FALSE /\ online' = FALSE
    /\ inv' = [i \in Invocation |-> Unlinked(inv[i])]
    /\ UNCHANGED <<current, paired, bridge>>

\* relinkDevice clears the credential: a token issued before is worth nothing.
Relink ==
    /\ ~linked \/ paired
    /\ linked' = TRUE /\ paired' = FALSE /\ online' = FALSE
    /\ UNCHANGED <<inv, current, bridge>>
-----------------------------------------------------------------------------
(* The bridge process.                                                     *)

\* requireBridgeCredential: the token is valid and names this process's session.
Authentic(s) == linked /\ paired /\ current = s

\* /api/bridge/register by a process that starts: a new session fences the one
\* before it, and the queue is redelivered.  The answer may be lost; the process
\* then registers again with the same session id.
Register(s) ==
    /\ proc[s] = "starting"
    /\ linked
    /\ LET fenced == [i \in Invocation |-> IF current = s THEN inv[i] ELSE Fenced(inv[i])]
       IN  \E drained \in SUBSET {i \in Invocation : fenced[i].superseded
                                     /\ InFlight(fenced[i])} :
           \E lapsed \in SUBSET {i \in MayLapse : fenced[i].status = "dispatching"} :
              inv' = [i \in Invocation |-> Redelivered(fenced[i], i, lapsed, drained)]
    /\ current' = s
    /\ online' = TRUE /\ paired' = TRUE
    /\ proc' \in {proc, [proc EXCEPT ![s] = "up"]}
    /\ UNCHANGED <<linked, task>>

\* The records after /api/bridge/next has redelivered and reclaimed.
Swept(lapsed, drained, expired) ==
    [i \in Invocation |->
        StuckReclaimed(Redelivered(inv[i], i, lapsed, drained), i, expired)]

\* GET /api/bridge/next.  The answer that carries a delivery may be lost.
PollWith(s, f) ==
    /\ \/ /\ Dispatchable(f) = {}
          /\ inv' = f
          /\ UNCHANGED task
       \/ \E i \in Dispatchable(f), pc \in {"claimed", "dropped"} :
             /\ inv' = [f EXCEPT ![i] = Dispatched(@)]
             /\ task' = [task EXCEPT ![i] = Append(@, [pc |-> pc, session |-> s])]
    /\ online' = TRUE
    /\ UNCHANGED <<current, linked, paired, proc>>

Poll(s) ==
    /\ proc[s] = "up"
    /\ Authentic(s)
    /\ \E lapsed \in SUBSET MayLapse, drained \in SUBSET MayDrain, expired \in SUBSET MayExpire :
          PollWith(s, Swept(lapsed, drained, expired))

At(i, n, pc) == n \in DOMAIN task[i] /\ task[i][n].pc = pc

Goto(i, n, pc) == task' = [task EXCEPT ![i][n].pc = pc]

Up(i, n) == proc[task[i][n].session] = "up"

\* The headers of a request for this delivery reach the server and are accepted.
Authenticated(i, n) ==
    /\ Up(i, n)
    /\ Authentic(task[i][n].session)
    /\ online' = TRUE
    /\ UNCHANGED <<inv, current, linked, paired, proc>>

\* runInvocation asks for the ack, or refuses what it cannot run.
SendAck(i, n) == At(i, n, "claimed") /\ Authenticated(i, n) /\ Goto(i, n, "acking")
SendRefuse(i, n) == At(i, n, "claimed") /\ Authenticated(i, n) /\ Goto(i, n, "refusing")

AckGate_AlsoRunning(v) == v.status \in {"dispatching", "running"}

AckGate_DeliveryOnly(v) == v.delivery \in {"dispatching", "redelivering"}

\* bridgeInvocationGate of the ack and refuse routes.
AckGate(v) == v.status = "dispatching" /\ v.delivery = "dispatching"

HandleAck(i, n) ==
    /\ At(i, n, "acking")
    /\ IF AckGate(inv[i])
       THEN /\ inv' = [inv EXCEPT ![i] = Acknowledged(@)]
            /\ Goto(i, n, IF Up(i, n) THEN "granted" ELSE "void")
       ELSE /\ Goto(i, n, "dropped")
            /\ UNCHANGED inv
    /\ UNCHANGED <<current, online, linked, paired, proc>>

HandleRefuse(i, n) ==
    /\ At(i, n, "refusing")
    /\ IF AckGate(inv[i])
       THEN inv' = [inv EXCEPT ![i] = Completed([@ EXCEPT !.delivery = "refused"], "failed")]
       ELSE UNCHANGED inv
    /\ Goto(i, n, "dropped")
    /\ UNCHANGED <<current, online, linked, paired, proc>>

\* The 200 arrives and the agent is spawned.
Begin(i, n) ==
    /\ At(i, n, "granted")
    /\ Up(i, n)
    /\ Goto(i, n, "executing")
    /\ UNCHANGED <<server, proc>>

\* The watcher of /api/bridge/cancellations finds the run in its answer.
DeliverCancel(i, n) ==
    /\ At(i, n, "executing")
    /\ inv[i].delivery = "acknowledged" /\ inv[i].status = "cancelling"
    /\ Authenticated(i, n)
    /\ Goto(i, n, "killing")

\* The agent's process ends while its bridge is there to notice.
ExecutorEnds(i, n) ==
    /\ Up(i, n)
    /\ \/ At(i, n, "executing") /\ Goto(i, n, "exited")
       \/ At(i, n, "killing") /\ Goto(i, n, "killed")
    /\ UNCHANGED <<server, proc>>

\* An agent whose bridge is gone is ended by its process-tree guardian.
OrphanEnds(i, n) ==
    /\ At(i, n, "executing") \/ At(i, n, "killing")
    /\ ~Up(i, n)
    /\ Goto(i, n, "ended")
    /\ UNCHANGED <<server, proc>>

\* POST /api/bridge/complete is sent once; there is no retry.
SendComplete(i, n) ==
    /\ \/ At(i, n, "exited") /\ Goto(i, n, "reporting")
       \/ At(i, n, "killed") /\ Goto(i, n, "reporting_killed")
    /\ Authenticated(i, n)

CompleteGate(v) == v.status \in {"running", "cancelling"} /\ v.delivery = "acknowledged"

\* A killed run reports "failed" when it could not be killed and ended itself.
ReportedStatus(pc) == IF pc = "reporting" THEN ExitStatus ELSE {"cancelled", "failed"}

\* The report may carry a cost.
HandleComplete(i, n) ==
    /\ At(i, n, "reporting") \/ At(i, n, "reporting_killed")
    /\ \E status \in ReportedStatus(task[i][n].pc) :
          \E w \in {Completed(inv[i], status), Charged(inv[i], status)} :
             inv' = [inv EXCEPT ![i] = IF CompleteGate(@) THEN w ELSE @]
    /\ Goto(i, n, "ended")
    /\ UNCHANGED <<current, online, linked, paired, proc>>

\* A request or an answer is lost, or refused at authentication: the bridge
\* gives the delivery up.
Lost(pc) ==
    IF pc \notin Granted THEN "dropped" ELSE IF pc = "granted" THEN "void" ELSE "ended"

Lose(i, n) ==
    /\ n \in DOMAIN task[i]
    /\ task[i][n].pc \notin {"executing", "killing", "ended", "void", "dropped"}
    /\ Goto(i, n, Lost(task[i][n].pc))
    /\ UNCHANGED <<server, proc>>

\* The bridge crashes, or stops after it was told that it is superseded.  What
\* it held is gone, except its agents and the requests the server already has.
ExitBridge(s) ==
    /\ proc[s] = "up"
    /\ proc' = [proc EXCEPT ![s] = "dead"]
    /\ task' = [i \in Invocation |-> [n \in DOMAIN task[i] |->
                  IF task[i][n].session = s
                     /\ task[i][n].pc \in {"claimed", "granted", "exited", "killed"}
                  THEN [task[i][n] EXCEPT !.pc = Lost(@)]
                  ELSE task[i][n]]]
    /\ UNCHANGED server

-----------------------------------------------------------------------------
(* bridgeLivenessSweep, one of its decisions at a time.                    *)

SweepOffline ==
    /\ online /\ linked
    /\ online' = FALSE
    /\ UNCHANGED <<inv, current, linked, paired, bridge>>

\* The runtime deadline first asks for an interruption ...
SweepDeadline(i) ==
    /\ online
    /\ inv[i].status = "running" /\ ~inv[i].deadline
    /\ inv' = [inv EXCEPT ![i] = Cancelled([@ EXCEPT !.deadline = TRUE])]
    /\ UNCHANGED <<current, online, linked, paired, bridge>>

\* ... and reclaims the run when the executor does not answer.
SweepInterrupted(i) ==
    /\ online
    /\ inv[i].status \in {"running", "cancelling"} /\ inv[i].deadline
    /\ inv' = [inv EXCEPT ![i] = Completed(@, "timed_out")]
    /\ UNCHANGED <<current, online, linked, paired, bridge>>

\* A run whose bridge stayed away longer than the run's own grace.
SweepOfflineRun(i) ==
    /\ ~online
    /\ inv[i].status = "running"
    /\ inv' = [inv EXCEPT ![i] = Completed(@, "timed_out")]
    /\ UNCHANGED <<current, online, linked, paired, bridge>>

-----------------------------------------------------------------------------

UserStep(i) == Create(i) \/ Approve(i) \/ Deny(i) \/ Cancel(i)

DeviceStep == Unlink \/ Relink

ProcessStep(s) == Register(s) \/ Poll(s) \/ ExitBridge(s)

DeliveryStep(i, n) ==
    \/ SendAck(i, n) \/ HandleAck(i, n) \/ SendRefuse(i, n) \/ HandleRefuse(i, n)
    \/ Begin(i, n) \/ DeliverCancel(i, n) \/ ExecutorEnds(i, n) \/ OrphanEnds(i, n)
    \/ SendComplete(i, n) \/ HandleComplete(i, n) \/ Lose(i, n)

SweepStep(i) == SweepDeadline(i) \/ SweepInterrupted(i) \/ SweepOfflineRun(i)

Next ==
    \/ DeviceStep \/ SweepOffline
    \/ \E s \in Session : ProcessStep(s)
    \/ \E i \in Invocation : UserStep(i) \/ SweepStep(i)
                               \/ \E n \in DOMAIN task[i] : DeliveryStep(i, n)

Spec == Init /\ [][Next]_vars

-----------------------------------------------------------------------------
(* Liveness.  A bridge that can authenticate keeps polling, and what has    *)
(* run out is found run out by some later poll; the sweep runs on a timer.  *)
(* Nothing is asked of the agents: they may run for ever.                   *)

PollAll(s) ==
    /\ proc[s] = "up"
    /\ Authentic(s)
    /\ PollWith(s, Swept(MayLapse, MayDrain, MayExpire))

Fairness ==
    /\ \A s \in Session : WF_vars(PollAll(s))
    /\ \A i \in Invocation : WF_vars(SweepStep(i))

FairSpec == Spec /\ Fairness

\* The watcher delivers what it can; whether an agent ends is its own affair.
CancelSpec ==
    /\ Spec
    /\ \A s \in Session : WF_vars(PollAll(s))
    /\ \A i \in Invocation :
          WF_vars(SweepStep(i)) /\ WF_vars(\E n \in DOMAIN task[i] : DeliverCancel(i, n))

-----------------------------------------------------------------------------
(* Properties.                                                             *)

\* "Duplicate delivery of the same invocation id must not create a second local
\* execution" (docs/vision/STATE_MACHINE.md:339): however often an invocation
\* was handed out, and to whichever processes, at most one of the deliveries was
\* ever allowed to start.
AtMostOneExecution ==
    \A i \in Invocation : \A n, m \in DOMAIN task[i] :
        task[i][n].pc \in Granted /\ task[i][m].pc \in Granted => n = m

Executing(i, n) == task[i][n].pc \in {"executing", "killing"}

\* Who handed a run to a bridge and hears nothing ends its record by the clock: as
\* timed out (offline.mjs, bridge-liveness-sweep), as cancelled when it was asked to
\* stop (dispatch.mjs:50-80), as failed when another bridge process has taken over
\* (service-composer.mjs:1928-1975).  Nothing is charged for it, and the server has
\* no way to know whether the agent still lives.
WrittenOff(i, n) ==
    /\ inv[i].charges = 0
    /\ \/ inv[i].status = "timed_out"
       \/ inv[i].status = "cancelled" /\ inv[i].cancel = "applied"
       \/ inv[i].status = "failed" /\ task[i][n].session # current

\* "Two runs in the same worktree must not execute concurrently"
\* (dispatch-eligibility.mjs:26-28), said of the processes on the device rather
\* than of the server's records, over all bridge processes, hand-overs and
\* reclaims.  No timing is assumed: a reclaim that comes before the agent's end
\* breaks the claim, and is the only thing that does.
OneWriterPerDirectory ==
    \A i, j \in Invocation : \A n \in DOMAIN task[i], m \in DOMAIN task[j] :
        Executing(i, n) /\ Executing(j, m) /\ DirOf[i] = DirOf[j]
            => (i = j /\ n = m) \/ WrittenOff(i, n) \/ WrittenOff(j, m)

\* The claim as dispatch-eligibility.mjs:26-27 makes it.
NoTwoWriters ==
    \A i, j \in Invocation : \A n \in DOMAIN task[i], m \in DOMAIN task[j] :
        Executing(i, n) /\ Executing(j, m) /\ DirOf[i] = DirOf[j] => i = j /\ n = m

\* The "authoritative cross-worktree concurrency cap" (dispatch.mjs:103-106)
\* bounds the agents that run on the device, those aside whose record a reclaim
\* ended while they lived: no lost answer, late report, cancellation or hand-over
\* frees the slot of an agent by any other way.
ExecutorsWithinCap ==
    Cardinality({i \in Invocation : \E n \in DOMAIN task[i] :
                    Executing(i, n) /\ ~WrittenOff(i, n)}) <= MaxConcurrency

\* The user withheld or withdrew the permission before any ack.
NotPermitted(v) ==
    v.status = "rejected" \/ v.cancel = "queued_cancelled" \/ v.approval \in {"pending", "denied"}

\* What was rejected, denied, or cancelled while it waited never starts, also
\* when an earlier delivery of it was lapsed and its ack is still on its way
\* (cancellation.mjs:78-110, approval.mjs:164-223, routes/bridge.mjs:692-699).
NeverStartsUnpermitted ==
    \A i \in Invocation : NotPermitted(inv[i]) =>
        \A n \in DOMAIN task[i] : task[i][n].pc \notin Granted

\* "Device unlinking blocks new dispatch immediately" (STATE_MACHINE.md:341):
\* an unlinked device holds no lease and no run that was not asked to stop, so
\* an ack that was authenticated before the unlink is not granted after it.
UnlinkedHoldsNoWork ==
    ~linked => \A i \in Invocation :
        /\ inv[i].status \notin {"dispatching", "running"}
        /\ inv[i].status = "queued" => inv[i].delivery = "queued"   \* created since

\* Leases that lapse without an ack end after MAX_DISPATCH_ATTEMPTS
\* (dispatch.mjs:223-227); only a new bridge process adds one more attempt.
AttemptsBounded ==
    \A i \in Invocation :
        inv[i].attempts < MAX_DISPATCH_ATTEMPTS
            + Cardinality({s \in Session : proc[s] # "starting"} \cup {current})

\* A run that was interrupted by the runtime deadline ends as timed out, never
\* as a human cancellation or a transport failure, whoever ends it and however
\* late its report is (completion.mjs:44-64).
DeadlineEndsTimedOut ==
    \A i \in Invocation :
        inv[i].deadline /\ IsTerminal(inv[i]) => inv[i].status = "timed_out"

\* "Terminal invocations must not run again" (STATE_MACHINE.md:338): a terminal
\* record keeps its outcome and its charges, nothing is granted after the end, and
\* no agent is started after it, but for a start that was granted before and whose
\* answer a reclaim, which looks at the clock alone, did not wait for.
TerminalStaysOver ==
    [][\A i \in Invocation : IsTerminal(inv[i]) =>
          /\ inv'[i].status = inv[i].status
          /\ inv'[i].charges = inv[i].charges
          /\ \A n \in DOMAIN task[i] :
                /\ At(i, n, "acking") => task'[i][n].pc \notin Granted
                /\ Begin(i, n) => WrittenOff(i, n)]_vars

\* An ack is granted only to the bridge process that has the device's session:
\* "requests from the superseded process must not be able to ack or complete
\* work that the replacement has reclaimed" (bridge-auth.mjs:95-98).
GrantedToCurrentSession ==
    [][\A i \in Invocation : \A n \in DOMAIN task[i] :
          At(i, n, "acking") /\ task'[i][n].pc \in Granted
            => task[i][n].session = current]_vars

\* While a bridge of the current session keeps polling, every invocation that
\* was queued or is in flight ends.
Serving == \E s \in Session : proc[s] = "up" /\ Authentic(s)

EverythingEnds ==
    <>[]Serving =>
        \A i \in Invocation :
            (inv[i].status = "queued" \/ InFlight(inv[i])) ~> IsTerminal(inv[i])

\* What has not ended is where somebody looks for it.
OnItsWay(v) ==
    /\ v.status = "waiting_for_local_approval" => AwaitsDecision(v)
    /\ v.status = "queued" => v.delivery \in {"queued", "redelivering"}
    /\ v.status = "dispatching" => v.delivery = "dispatching"
    /\ v.status = "running" => v.delivery = "acknowledged"

\* What EverythingEnds rests on: status and delivery are written by different services,
\* and no order of leases, acks, reclaims, hand-overs and withdrawals leaves a pair of
\* them that the selector, the reclaim of leases and the gates of ack and completion
\* all pass over (dispatch.mjs:169-178, 223-277, dispatch-eligibility.mjs,
\* routes/bridge.mjs:692-720).
NothingStrands == \A i \in Invocation : OnItsWay(inv[i])

\* "Force a terminal status on runs stuck in cancelling past a grace (e.g. the
\* bridge died mid-cancel)" (dispatch.mjs:50-53), with no bridge assumed.
CancellingEnds ==
    \A i \in Invocation : inv[i].status = "cancelling" ~> IsTerminal(inv[i])

\* "If the bridge is reachable, running invocations should receive cancellation"
\* when the device is unlinked (docs/vision/INVOCATION_DELIVERY.md:121).
UnlinkReachesExecutor ==
    \A s \in Session, i \in Invocation :
        (~linked /\ current = s /\ proc[s] = "up"
           /\ \E n \in DOMAIN task[i] : At(i, n, "executing"))
          ~> (linked \/ proc[s] # "up" \/ \A n \in DOMAIN task[i] : ~At(i, n, "executing"))

-----------------------------------------------------------------------------
(* The promise of RunOnce.                                                 *)

PermitOf(i) ==
    LET granted == {task[i][n].pc : n \in DOMAIN task[i]} \cap Granted
    IN  IF granted = {} THEN "none"
        ELSE IF granted = {"granted"} THEN "issued"
        ELSE IF granted = {"void"} THEN "void"
        ELSE "used"

Promise == INSTANCE RunOnce WITH
    Outcome <- TerminalStatus,
    GivenUp <- {"cancelled", "failed", "timed_out"},
    Open <- "open",
    outcome <- [i \in Invocation |-> IF IsTerminal(inv[i]) THEN inv[i].status ELSE "open"],
    permit <- [i \in Invocation |-> PermitOf(i)],
    charges <- [i \in Invocation |-> inv[i].charges]

\* Leases, sessions, polls, refusals and timers together keep the promise: one start,
\* one outcome and one charge.  A start that was granted may still be used after the
\* server gave the run up as cancelled, failed or timed out, and is never charged then
\* (dispatch.mjs:50-80, 169-198; completion.mjs:32-117; service-composer.mjs:1920-1960).
KeepsPromise == Promise!Spec
=============================================================================
