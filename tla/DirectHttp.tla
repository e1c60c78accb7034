---------------------------- MODULE DirectHttp ----------------------------
(***************************************************************************)
(* Invocations of remote HTTP agents, which the server calls itself: their *)
(* acceptance with a hold on the budget, the request with its timeout and  *)
(* its two concurrency limits, the queue of those that found no slot,      *)
(* cancellation, and the charge that replaces the hold.                    *)
(*                                                                         *)
(* Everything about a request in flight is in the memory of one process:   *)
(* its slot, its timer, its abort controller and the queue are gone after  *)
(* a restart, while the record, the holds and the ledger come back from    *)
(* the store.  Creation and approval commit before they start the request, *)
(* and the process may die in between.                                     *)
(***************************************************************************)
EXTENDS BudgetReservations

CONSTANTS
    Agent,                  \* the remote HTTP agents
    AgentOf,                \* the agent each invocation calls
    MaxConcurrency,         \* requests in flight
    PerAgentMaxConcurrency, \* requests in flight at one agent
    Cost,                   \* what an agent may report a run has cost
    MaxCrashes,             \* bound: restarts of the server
    NoHandler               \* no handler is between its commit and its start

ASSUME HttpAssumption ==
    /\ AgentOf \in [Invocation -> Agent]
    /\ MaxConcurrency \in Nat \ {0}
    /\ PerAgentMaxConcurrency \in Nat \ {0}
    /\ Cost \subseteq Nat \ {0}
    /\ MaxCrashes \in Nat
    /\ NoHandler \notin Invocation

VARIABLES
    inv,            \* state.invocations
    hold,           \* state.budgetReservations, by their invocation
    spent,          \* the ledger's total
    unforeseen,     \* the part of it that exceeded the holds
    store,          \* what the durable store holds of the four above
    call,           \* directHttpRuns: the request of each invocation
    place,          \* pending: the place in the queue, 0 outside it
    scheduled,      \* scheduledInvocationIds
    activeCount, activeByAgent,
    handler,        \* the invocation that is committed and about to start
    requests,       \* observer: the requests ever sent for each invocation
    crashes

ledger == <<hold, spent, unforeseen>>
runtime == <<call, place, scheduled, activeCount, activeByAgent>>
vars == <<inv, hold, spent, unforeseen, store, call, place, scheduled,
          activeCount, activeByAgent, handler, requests, crashes>>

-----------------------------------------------------------------------------

TerminalStatus == {"succeeded", "failed", "cancelled", "timed_out", "rejected"}
OpenStatus == {"queued", "waiting_for_local_approval", "running", "cancelling"}

InvocationRecord ==
    [status   : {"none"} \cup OpenStatus \cup TerminalStatus,
     approval : {"none", "pending", "approved", "denied"},
     charges  : Nat]

Record == [inv        : [Invocation -> InvocationRecord],
           hold       : [Invocation -> HoldState],
           spent      : Nat,
           unforeseen : Nat]

\*   live       the request is sent, the answer awaited
\*   aborted    the controller was aborted by a cancellation
\*   expired    the controller was aborted by the timeout
CallState == {"none", "live", "aborted", "expired"}

IsTerminal(v) == v.status \in TerminalStatus

Snapshot == [inv |-> inv, hold |-> hold, spent |-> spent, unforeseen |-> unforeseen]

TypeOK ==
    /\ Snapshot \in Record /\ store \in Record
    /\ call \in [Invocation -> CallState]
    /\ place \in [Invocation -> Nat]
    /\ scheduled \subseteq Invocation
    /\ activeCount \in Nat /\ activeByAgent \in [Agent -> Nat]
    /\ handler \in Invocation \cup {NoHandler}
    /\ requests \in [Invocation -> Nat]
    /\ crashes \in 0..MaxCrashes

NotCreated == [status |-> "none", approval |-> "none", charges |-> 0]

Decided(v, status, approval) == [v EXCEPT !.status = status, !.approval = approval]

Init ==
    /\ inv = [i \in Invocation |-> NotCreated]
    /\ hold = [i \in Invocation |-> "none"]
    /\ spent = 0 /\ unforeseen = 0
    /\ store = Snapshot
    /\ call = [i \in Invocation |-> "none"]
    /\ place = [i \in Invocation |-> 0]
    /\ scheduled = {}
    /\ activeCount = 0 /\ activeByAgent = [a \in Agent |-> 0]
    /\ handler = NoHandler
    /\ requests = [i \in Invocation |-> 0]
    /\ crashes = 0

\* The state is written as a whole: a commit makes every change before it durable.
Commit == store' = Snapshot'

-----------------------------------------------------------------------------
(* Acceptance and approval.                                                *)

\* createInvocation: the gates reject, or a hold is placed and the record is
\* committed; the route starts it next unless it waits for an approval.
Create(i) ==
    /\ handler = NoHandler
    /\ inv[i].status = "none" /\ hold[i] = "none"
    /\ \/ /\ inv' = [inv EXCEPT ![i].status = "rejected"]
          /\ UNCHANGED <<hold, handler>>
       \/ /\ Admits(spent, hold)
          /\ hold' = Reserved(hold, i)
          /\ \/ /\ inv' = [inv EXCEPT ![i] =
                              Decided(@, "waiting_for_local_approval", "pending")]
                /\ UNCHANGED handler
             \/ /\ inv' = [inv EXCEPT ![i].status = "running"]
                /\ handler' = i
    /\ UNCHANGED <<spent, unforeseen, runtime, requests, crashes>>
    /\ Commit

AwaitsDecision(i) ==
    /\ handler = NoHandler
    /\ inv[i].status = "waiting_for_local_approval" /\ inv[i].approval = "pending"

Approve(i) ==
    /\ AwaitsDecision(i)
    /\ inv' = [inv EXCEPT ![i] = Decided(@, "running", "approved")]
    /\ handler' = i
    /\ UNCHANGED <<ledger, runtime, requests, crashes>>
    /\ Commit

Deny(i) ==
    /\ AwaitsDecision(i)
    /\ inv' = [inv EXCEPT ![i] = Decided(@, "rejected", "denied")]
    /\ UNCHANGED <<ledger, runtime, handler, requests, crashes>>
    /\ Commit

-----------------------------------------------------------------------------
(* Slots and the queue.                                                    *)

SameAgent(i) == {j \in Invocation : AgentOf[j] = AgentOf[i]}

HasCapacity_Total(i, count, byAgent) == count < MaxConcurrency

\* hasCapacity, of counts that may be those after other steps of the handler.
HasCapacity(i, count, byAgent) ==
    count < MaxConcurrency /\ byAgent[AgentOf[i]] < PerAgentMaxConcurrency

IsLast(j) == \A k \in Invocation : place[k] <= place[j]

\* startInvocationIfAllowed, for an agent with a free slot.
Launch(i) ==
    /\ HasCapacity(i, activeCount, activeByAgent)
    /\ inv' = [inv EXCEPT ![i].status = "running"]
    /\ call' = [call EXCEPT ![i] = "live"]
    /\ requests' = [requests EXCEPT ![i] = @ + 1]
    /\ activeCount' = activeCount + 1
    /\ activeByAgent' = [activeByAgent EXCEPT ![AgentOf[i]] = @ + 1]
    /\ UNCHANGED place

\* startInvocationIfAllowed, for one without.
Park(i) ==
    /\ ~HasCapacity(i, activeCount, activeByAgent)
    /\ inv' = [inv EXCEPT ![i].status = "queued"]
    /\ \E j \in Invocation : IsLast(j) /\ place' = [place EXCEPT ![i] = place[j] + 1]
    /\ UNCHANGED <<call, requests, activeCount, activeByAgent>>

Start(i) ==
    /\ handler = i
    /\ ~IsTerminal(inv[i]) /\ i \notin scheduled
    /\ handler' = NoHandler
    /\ scheduled' = scheduled \cup {i}
    /\ Launch(i) \/ Park(i)
    /\ UNCHANGED <<ledger, store, crashes>>

Waiting(records) == {j \in Invocation : place[j] # 0 /\ ~IsTerminal(records[j])}

Drained_Never(L, records, count, byAgent) == L = {}

\* drainPending goes through the queue in order with what is free and launches
\* whatever finds a slot: L is what it launches.
Drained(L, records, count, byAgent) ==
    \A j \in Invocation :
        LET before == {k \in L : place[k] < place[j]}
        IN  j \in L <=>
            /\ j \in Waiting(records)
            /\ count + Cardinality(before) < MaxConcurrency
            /\ byAgent[AgentOf[j]] + Cardinality(before \cap SameAgent(j))
                 < PerAgentMaxConcurrency

-----------------------------------------------------------------------------
(* How a request ends.                                                     *)

\* The statuses with which runHttpInvocation completes it, by the branch of its
\* try and catch: an answer or a network error, the timeout, the cancellation.
Ending(c) ==
    CASE c = "live" -> {"succeeded", "failed"}
      [] c = "expired" -> {"timed_out"}
      [] c = "aborted" -> {"cancelled"}

Completed_Again(v, status, cost) ==
    [v EXCEPT !.status = status, !.charges = IF cost > 0 THEN @ + 1 ELSE @]

\* completeInvocation, of the record.
Completed(v, status, cost) ==
    IF IsTerminal(v) THEN v
    ELSE [v EXCEPT !.status = status, !.charges = IF cost > 0 THEN @ + 1 ELSE @]

\* completeInvocation releases the hold after it recorded the cost, and commits.
Settled(i, records, cost) ==
    IF IsTerminal(inv[i])
    THEN UNCHANGED <<ledger, store>>
    ELSE /\ hold' = Released(hold, {i})
         /\ spent' = spent + cost
         /\ unforeseen' = unforeseen + Unforeseen(cost)
         /\ store' = [inv |-> records, hold |-> hold', spent |-> spent',
                      unforeseen |-> unforeseen']

\* The slot of i is given back and the queue is drained: L is launched, and those
\* that are over leave the queue.
GiveBack(i, records, L) ==
    LET count == activeCount - 1
        byAgent == [activeByAgent EXCEPT ![AgentOf[i]] = @ - 1]
        dropped == {j \in Invocation : place[j] # 0 /\ IsTerminal(records[j])}
    IN  /\ Drained(L, records, count, byAgent)
        /\ inv' = [j \in Invocation |->
                     IF j \in L THEN [records[j] EXCEPT !.status = "running"]
                     ELSE records[j]]
        /\ call' = [j \in Invocation |-> IF j \in L THEN "live"
                                         ELSE IF j = i THEN "none" ELSE call[j]]
        /\ requests' = [j \in Invocation |->
                          IF j \in L THEN requests[j] + 1 ELSE requests[j]]
        /\ place' = [j \in Invocation |->
                       IF j \in L \cup dropped THEN 0 ELSE place[j]]
        /\ scheduled' = scheduled \ ({i} \cup dropped)
        /\ activeCount' = count + Cardinality(L)
        /\ activeByAgent' = [a \in Agent |->
              byAgent[a] + Cardinality({j \in L : AgentOf[j] = a})]

\* The request settles: the invocation is completed, then its slot is free.
Settle(i) ==
    /\ handler = NoHandler
    /\ call[i] # "none"
    /\ \E status \in Ending(call[i]), cost \in {0} \cup Cost, L \in SUBSET Invocation :
          LET records == [inv EXCEPT ![i] = Completed(@, status, cost)]
          IN  /\ cost > 0 => call[i] = "live"
              /\ Settled(i, records, cost)
              /\ GiveBack(i, records, L)
    /\ UNCHANGED <<handler, crashes>>

\* The timer of the request: timedOut is set and the controller aborted.
Timeout(i) ==
    /\ handler = NoHandler
    /\ call[i] \in {"live", "aborted"}
    /\ call' = [call EXCEPT ![i] = "expired"]
    /\ UNCHANGED <<inv, ledger, store, place, scheduled, activeCount, activeByAgent,
                   handler, requests, crashes>>

-----------------------------------------------------------------------------
(* Cancellation, the unlink of a device, the sweeps.                       *)

QueuedCancelled(v) ==
    [v EXCEPT !.status = "cancelled",
              !.approval = IF @ = "pending" THEN "denied" ELSE @]

IsQueued(v) == v.status \in {"queued", "waiting_for_local_approval"}

\* cancelInvocation: what waits is over, what runs is aborted.
Cancel(i) ==
    /\ handler = NoHandler
    /\ inv[i].status \in OpenStatus
    /\ \/ /\ IsQueued(inv[i])
          /\ inv' = [inv EXCEPT ![i] = QueuedCancelled(@)]
          /\ UNCHANGED call
       \/ /\ ~IsQueued(inv[i])
          /\ inv' = [inv EXCEPT ![i].status = "cancelling"]
          /\ call' = [call EXCEPT ![i] = IF @ = "live" THEN "aborted" ELSE @]
    /\ UNCHANGED <<ledger, store, place, scheduled, activeCount, activeByAgent,
                   handler, requests, crashes>>

\* cancelInvocationsForDeviceUnlink takes every invocation, those that run off
\* the device too, and aborts no request.
Unlink ==
    /\ handler = NoHandler
    /\ inv' = [i \in Invocation |->
                 IF IsQueued(inv[i]) THEN QueuedCancelled(inv[i])
                 ELSE IF inv[i].status = "running"
                      THEN [inv[i] EXCEPT !.status = "cancelling"]
                 ELSE inv[i]]
    /\ inv' # inv
    /\ UNCHANGED <<ledger, store, runtime, handler, requests, crashes>>

\* reclaimStuckCancellations, in the poll of some bridge: the grace of the
\* cancellation is over, and its request may still be in flight.
Reclaim(i) ==
    /\ handler = NoHandler
    /\ inv[i].status = "cancelling"
    /\ inv' = [inv EXCEPT ![i] = Completed(@, "cancelled", 0)]
    /\ Settled(i, inv', 0)
    /\ UNCHANGED <<runtime, handler, requests, crashes>>

\* A hold whose run is over or was never recorded.
Orphaned == {i \in Active(hold) : IsTerminal(inv[i]) \/ inv[i].status = "none"}

\* reconcileBudgetReservations, at start-up and every minute.
Reconcile ==
    /\ handler = NoHandler
    /\ Orphaned # {}
    /\ hold' = Released(hold, Orphaned)
    /\ UNCHANGED <<inv, spent, unforeseen, runtime, handler, requests, crashes>>
    /\ Commit

-----------------------------------------------------------------------------
(* The store and the crash.                                                *)

\* The timer of persistStateSoon.
Flush ==
    /\ handler = NoHandler
    /\ store # Snapshot
    /\ UNCHANGED <<inv, ledger, runtime, handler, requests, crashes>>
    /\ Commit

\* The server dies and is started again from what was stored.
RestartFrom(stored) ==
    /\ crashes < MaxCrashes
    /\ crashes' = crashes + 1
    /\ store' = stored
    /\ inv' = stored.inv /\ hold' = stored.hold
    /\ spent' = stored.spent /\ unforeseen' = stored.unforeseen
    /\ call' = [i \in Invocation |-> "none"]
    /\ place' = [i \in Invocation |-> 0]
    /\ scheduled' = {}
    /\ activeCount' = 0 /\ activeByAgent' = [a \in Agent |-> 0]
    /\ handler' = NoHandler
    /\ UNCHANGED requests

Crash == RestartFrom(store)

\* It dies inside createInvocation: reserveBudget commits the hold in its own
\* transaction before the invocation is recorded.
CrashAfterHold(i) ==
    /\ handler = NoHandler
    /\ inv[i].status = "none" /\ hold[i] = "none"
    /\ Admits(spent, hold)
    /\ RestartFrom([Snapshot EXCEPT !.hold = Reserved(hold, i)])

UserStep(i) == Create(i) \/ Approve(i) \/ Deny(i) \/ Cancel(i)

CallStep(i) == Start(i) \/ Settle(i) \/ Timeout(i)

Next ==
    \/ Unlink \/ Reconcile \/ Flush \/ Crash
    \/ \E i \in Invocation : UserStep(i) \/ CallStep(i) \/ Reclaim(i) \/ CrashAfterHold(i)

Spec == Init /\ [][Next]_vars

\* The server goes on, timers fire, and an aborted request settles; an agent
\* may leave its request unanswered for ever.
Fairness ==
    /\ WF_vars(Reconcile)
    /\ WF_vars(\E i \in Invocation : Start(i))
    /\ WF_vars(\E i \in Invocation : Timeout(i))
    /\ WF_vars(\E i \in Invocation : call[i] \in {"aborted", "expired"} /\ Settle(i))

FairSpec == Spec /\ Fairness

-----------------------------------------------------------------------------
(* Properties.                                                             *)

InFlight == {i \in Invocation : call[i] # "none"}

\* launch and its finally count what is in flight, in all and by agent
\* (direct-http.mjs:48-54, 77-84), and keep it within the two limits;
\* drainPending leaves nobody waiting for a slot that is free (:87-102).
CapacityKept ==
    /\ activeCount = Cardinality(InFlight) /\ activeCount <= MaxConcurrency
    /\ \A a \in Agent :
          /\ activeByAgent[a] = Cardinality({i \in InFlight : AgentOf[i] = a})
          /\ activeByAgent[a] <= PerAgentMaxConcurrency
    /\ \A i \in Waiting(inv) : ~HasCapacity(i, activeCount, activeByAgent)

\* In memory and in the store, spend and holds stay within the limit but for what
\* agents charged beyond their hold; and the hold of a request in flight is there
\* until its invocation is over, whatever else releases holds (m3.mjs:1594-1600,
\* 1729-1763).
BudgetKept ==
    /\ \A i \in InFlight : ~IsTerminal(inv[i]) => hold[i] = "active"
    /\ WithinLimit(spent, hold, unforeseen)
    /\ WithinLimit(store.spent, store.hold, store.unforeseen)

\* "The hold is released when the run settles (its real ledger spend then
\* carries the cost)" (m3.mjs:1597-1598): no request is in flight without a hold.
HeldWhileInFlight == \A i \in InFlight : hold[i] = "active"

\* It has a request, which is answered, aborted or timed out and gives its slot back,
\* or a place in the queue behind some that have.
TakenUp(i) ==
    \/ call[i] # "none"
    \/ /\ place[i] # 0
       /\ IsTerminal(inv[i]) \/ (inv[i].status = "queued" /\ InFlight # {})

\* What RunsSettle rests on: over all orders of answers, aborts, time-outs, unlinks and
\* reclaims nothing is marked as scheduled that has neither a request nor a place in a
\* queue that moves; the commit that says "running" is followed by a start that is not
\* refused; and a run is on record as going on without either only after a restart
\* (direct-http.mjs:25-102, creation.mjs:465-469).
NobodyWaitsInVain ==
    /\ \A i \in scheduled : TakenUp(i)
    /\ \A i \in Invocation : handler = i => ~IsTerminal(inv[i]) /\ i \notin scheduled
    /\ crashes = 0 =>
          \A i \in Invocation : inv[i].status \in {"queued", "running", "cancelling"} =>
              handler = i \/ i \in scheduled

\* A run that a process which goes on (the last one, over all restarts) accepted
\* ends, whether or not its agent answers, and its hold does not block the budget
\* for ever (m3.mjs:1740-1742).
RunsSettle ==
    \A i \in Invocation :
        (crashes = MaxCrashes /\ (i \in scheduled \/ handler = i))
          ~> (IsTerminal(inv[i]) /\ hold[i] # "active")

\* The same of every run that is on record as running or queued, over restarts
\* too (creation.mjs:465-469).
AcceptedEnds ==
    \A i \in Invocation :
        inv[i].status \in {"running", "queued"} ~> inv[i].status \notin {"running", "queued"}

-----------------------------------------------------------------------------
(* What is stored keeps the promise of RunOnce, over restarts as well: an   *)
(* invocation may be called once it is stored as accepted and approved.     *)

PermitOf(i) ==
    IF requests[i] > 0 THEN "used"
    ELSE IF /\ store.inv[i].status \notin {"none", "rejected"}
            /\ store.inv[i].approval \in {"none", "approved"}
         THEN "issued" ELSE "none"

OutcomeOf(i) == IF IsTerminal(store.inv[i]) THEN store.inv[i].status ELSE "open"

Promise == INSTANCE RunOnce WITH
    Outcome <- TerminalStatus,
    GivenUp <- {},
    Open <- "open",
    outcome <- [i \in Invocation |-> OutcomeOf(i)],
    permit <- [i \in Invocation |-> PermitOf(i)],
    charges <- [i \in Invocation |-> store.inv[i].charges]

\* One request for an invocation, only while its stored outcome is open and it
\* was allowed to run; one outcome; one charge, with the outcome of a request.
KeepsPromise == Promise!Spec
=============================================================================
