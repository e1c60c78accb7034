------------------------ MODULE DirectHttp_proofs ------------------------
(***************************************************************************)
(* Theorems about DirectHttp for any invocations, agents, limits, costs    *)
(* and numbers of crashes.                                                 *)
(*                                                                         *)
(* The argument for the slots: a request in flight is scheduled and holds  *)
(* no place in the queue, and no two waiters share a place, so that the    *)
(* last one that a drain launches has seen all the others it launched.     *)
(* For the budget: whatever is open is covered by an active hold, in       *)
(* memory and in the store.  That nobody waits in vain follows, with the   *)
(* statuses that go with a request and with a place.  The refinement of    *)
(* RunOnce is at the end.                                                  *)
(***************************************************************************)
EXTENDS DirectHttp, FiniteSetTheorems, WellFoundedInduction, TLAPS

At(a) == {i \in InFlight : AgentOf[i] = a}

Counted ==
    /\ activeCount = Cardinality(InFlight) /\ activeCount <= MaxConcurrency
    /\ \A a \in Agent : /\ activeByAgent[a] = Cardinality(At(a))
                        /\ activeByAgent[a] <= PerAgentMaxConcurrency

NobodyForgotten == \A i \in Waiting(inv) : ~HasCapacity(i, activeCount, activeByAgent)

Placed ==
    /\ \A i \in InFlight : i \in scheduled /\ place[i] = 0 /\ inv[i].status # "none"
    /\ \A i \in Invocation : place[i] # 0 => i \in scheduled /\ inv[i].status # "none"
    /\ \A i, j \in Invocation : place[i] = place[j] /\ place[i] # 0 => i = j
    /\ \E n \in Nat : \A i \in Invocation : place[i] <= n

\* Whatever is open is covered by a hold.
Covered(records, holds) ==
    \A i \in Invocation : records[i].status \in OpenStatus => holds[i] = "active"

Sound(s) == Covered(s.inv, s.hold) /\ WithinLimit(s.spent, s.hold, s.unforeseen)

HandlerOK == \A i \in Invocation : handler = i => inv[i].status # "none"

IInv ==
    /\ TypeOK /\ Counted /\ NobodyForgotten /\ Placed /\ HandlerOK
    /\ Sound(Snapshot) /\ Sound(store)

-----------------------------------------------------------------------------
(* The queue.                                                              *)

LEMMA LeastOf ==
  ASSUME NEW S \in SUBSET Nat, S # {}
  PROVE  \E x \in S : \A y \in S : x <= y
<1>1. IsWellFoundedOn(OpToRel(<, Nat), Nat)
  BY NatLessThanWellFounded, Zenon
<1>2. PICK x \in S : \A y \in S : ~(<<y, x>> \in OpToRel(<, Nat))
  BY <1>1, WFMin, Zenon
<1>3. \A y \in S : ~(y < x)
  BY <1>2, Zenon DEF OpToRel
<1> QED BY <1>3

\* Of some that hold places of their own one is the last.
LEMMA LastOf ==
  ASSUME place \in [Invocation -> Nat], Placed,
         NEW S \in SUBSET Invocation, S # {}, \A k \in S : place[k] # 0
  PROVE  \E j \in S : {k \in S : place[k] < place[j]} = S \ {j}
<1> DEFINE Bound == {n \in Nat : \A k \in S : place[k] <= n}
<1>1. Bound # {}
  BY DEF Placed
<1>2. PICK m \in Bound : \A n \in Bound : m <= n
  BY <1>1, LeastOf
<1>3. PICK j \in S : place[j] = m
  <2>1. SUFFICES ASSUME \A j \in S : place[j] # m PROVE FALSE
    OBVIOUS
  <2>2. \A k \in S : place[k] \in Nat /\ place[k] <= m /\ place[k] # m /\ place[k] # 0
    BY <2>1, <1>2
  <2>3. m \in Nat /\ m # 0
    BY <2>2, <1>2
  <2>4. m - 1 \in Nat /\ \A k \in S : place[k] <= m - 1
    BY <2>2, <2>3
  <2>5. m - 1 \in Bound
    BY <2>4
  <2> QED BY <2>5, <2>3, <1>2
<1>4. \A k \in S : place[k] \in Nat /\ place[k] <= place[j]
  BY <1>2, <1>3
<1>5. \A k \in S : place[k] = place[j] => k = j
  BY DEF Placed
<1>6. \A k \in S : place[k] < place[j] <=> k # j
  BY <1>4, <1>5
<1> QED BY <1>6

-----------------------------------------------------------------------------
(* Records.                                                                *)

LEMMA RecordOps ==
  ASSUME NEW v \in InvocationRecord
  PROVE  /\ QueuedCancelled(v) \in InvocationRecord
         /\ QueuedCancelled(v).status = "cancelled"
         /\ \A status \in TerminalStatus, cost \in Nat :
               /\ Completed(v, status, cost) \in InvocationRecord
               /\ IsTerminal(Completed(v, status, cost))
         /\ \A status \in OpenStatus \cup TerminalStatus,
               approval \in {"none", "pending", "approved", "denied"} :
               /\ Decided(v, status, approval) \in InvocationRecord
               /\ Decided(v, status, approval).status = status
<1>1. /\ QueuedCancelled(v) \in InvocationRecord
      /\ QueuedCancelled(v).status = "cancelled"
  BY DEF QueuedCancelled, InvocationRecord, TerminalStatus
<1>2. ASSUME NEW status \in TerminalStatus, NEW cost \in Nat
      PROVE  /\ Completed(v, status, cost) \in InvocationRecord
             /\ IsTerminal(Completed(v, status, cost))
  <2> DEFINE charged == IF cost > 0 THEN v.charges + 1 ELSE v.charges
  <2>1. charged \in Nat
    BY DEF InvocationRecord
  <2> HIDE DEF charged
  <2>2. CASE IsTerminal(v)
    BY <2>2 DEF Completed
  <2>3. CASE ~IsTerminal(v)
    <3>1. Completed(v, status, cost) = [v EXCEPT !.status = status, !.charges = charged]
      BY <2>3 DEF Completed, charged
    <3> QED BY <3>1, <2>1 DEF InvocationRecord, IsTerminal
  <2> QED BY <2>2, <2>3
<1>3. ASSUME NEW status \in OpenStatus \cup TerminalStatus,
             NEW approval \in {"none", "pending", "approved", "denied"}
      PROVE  /\ Decided(v, status, approval) \in InvocationRecord
             /\ Decided(v, status, approval).status = status
  BY DEF Decided, InvocationRecord
<1> QED BY <1>1, <1>2, <1>3

\* What a step that is no restart may do to the records.
Onward ==
    \A i \in Invocation :
        /\ IsTerminal(inv[i]) => IsTerminal(inv'[i])
        /\ inv[i].status # "none" => inv'[i].status # "none"

LEMMA Typed ==
  ASSUME TypeOK
  PROVE  /\ inv \in [Invocation -> InvocationRecord] /\ hold \in [Invocation -> HoldState]
         /\ spent \in Nat /\ unforeseen \in Nat
         /\ store.inv \in [Invocation -> InvocationRecord]
         /\ store.hold \in [Invocation -> HoldState]
         /\ store.spent \in Nat /\ store.unforeseen \in Nat
BY DEF TypeOK, Snapshot, Record

\* One record moves on, and no hold but perhaps its own is given up.
LEMMA OneMoved ==
  ASSUME inv \in [Invocation -> InvocationRecord], Covered(inv, hold),
         NEW i \in Invocation, NEW v \in InvocationRecord,
         inv' = [inv EXCEPT ![i] = v],
         v.status # "none", IsTerminal(inv[i]) => IsTerminal(v),
         v.status \in OpenStatus => hold'[i] = "active",
         \A j \in Invocation \ {i} : hold[j] = "active" => hold'[j] = "active"
  PROVE  inv' \in [Invocation -> InvocationRecord] /\ Onward /\ Covered(inv', hold')
BY DEF Onward, Covered

-----------------------------------------------------------------------------
(* The budget.                                                             *)

LEMMA Finite == \A S \in SUBSET Invocation : IsFiniteSet(S) /\ Cardinality(S) \in Nat
BY BudgetAssumption, FS_Subset, FS_CardinalityType

LEMMA OneMoreHold == \A n \in Nat : Estimate * (n + 1) = Estimate * n + Estimate
BY BudgetAssumption

LEMMA NoLessHeld == \A m, n \in Nat : m <= n => Estimate * m <= Estimate * n /\ Estimate * m \in Nat
BY BudgetAssumption

LEMMA ReleasedWithin ==
  ASSUME NEW holds \in [Invocation -> HoldState], NEW S \in SUBSET Invocation,
         NEW s \in Nat, NEW u \in Nat, WithinLimit(s, holds, u)
  PROVE  /\ Released(holds, S) \in [Invocation -> HoldState]
         /\ WithinLimit(s, Released(holds, S), u)
<1>1. Released(holds, S) \in [Invocation -> HoldState]
  BY DEF Released, HoldState
<1>2. Active(Released(holds, S)) \in SUBSET Active(holds)
  BY DEF Active, Released
<1>3. Active(holds) \in SUBSET Invocation
  BY DEF Active
<1>4. /\ Cardinality(Active(Released(holds, S))) <= Cardinality(Active(holds))
      /\ Cardinality(Active(Released(holds, S))) \in Nat /\ Cardinality(Active(holds)) \in Nat
  BY <1>2, <1>3, Finite, FS_Subset
<1>5. ReservedUsd(Released(holds, S)) <= ReservedUsd(holds)
  BY <1>4, NoLessHeld DEF ReservedUsd
<1>6. ReservedUsd(Released(holds, S)) \in Nat /\ ReservedUsd(holds) \in Nat
  BY <1>4, NoLessHeld DEF ReservedUsd
<1> QED BY <1>1, <1>5, <1>6, BudgetAssumption DEF WithinLimit

LEMMA ReservedWithin ==
  ASSUME NEW holds \in [Invocation -> HoldState], NEW i \in Invocation,
         holds[i] = "none", NEW s \in Nat, NEW u \in Nat, Admits(s, holds)
  PROVE  /\ Reserved(holds, i) \in [Invocation -> HoldState]
         /\ WithinLimit(s, Reserved(holds, i), u)
<1>1. Reserved(holds, i) \in [Invocation -> HoldState]
  BY DEF Reserved, HoldState
<1>2. Active(Reserved(holds, i)) = Active(holds) \cup {i} /\ i \notin Active(holds)
  BY DEF Active, Reserved
<1>3. IsFiniteSet(Active(holds)) /\ Cardinality(Active(holds)) \in Nat
  BY Finite DEF Active
<1>4. Cardinality(Active(Reserved(holds, i))) = Cardinality(Active(holds)) + 1
  BY <1>2, <1>3, FS_AddElement
<1>5. ReservedUsd(Reserved(holds, i)) = ReservedUsd(holds) + Estimate
  BY <1>3, <1>4, OneMoreHold DEF ReservedUsd
<1>6. ReservedUsd(holds) \in Nat
  BY <1>3, NoLessHeld DEF ReservedUsd
<1> QED BY <1>1, <1>5, <1>6, BudgetAssumption DEF WithinLimit, Admits

LEMMA ChargedWithin ==
  ASSUME NEW holds \in [Invocation -> HoldState], NEW i \in Invocation,
         holds[i] = "active", NEW s \in Nat, NEW u \in Nat, NEW cost \in Nat,
         WithinLimit(s, holds, u)
  PROVE  /\ Released(holds, {i}) \in [Invocation -> HoldState]
         /\ u + Unforeseen(cost) \in Nat
         /\ WithinLimit(s + cost, Released(holds, {i}), u + Unforeseen(cost))
<1>1. Released(holds, {i}) \in [Invocation -> HoldState]
  BY DEF Released, HoldState
<1>2. Active(Released(holds, {i})) = Active(holds) \ {i} /\ i \in Active(holds)
  BY DEF Active, Released
<1>3. IsFiniteSet(Active(holds)) /\ Cardinality(Active(holds)) \in Nat
  BY Finite DEF Active
<1>4. /\ Cardinality(Active(Released(holds, {i}))) = Cardinality(Active(holds)) - 1
      /\ Cardinality(Active(Released(holds, {i}))) \in Nat
  BY <1>2, <1>3, FS_RemoveElement, FS_CardinalityType
<1>5. ReservedUsd(Released(holds, {i})) = ReservedUsd(holds) - Estimate
  <2>1. Cardinality(Active(holds)) = Cardinality(Active(Released(holds, {i}))) + 1
    BY <1>3, <1>4
  <2>2. ReservedUsd(holds) = ReservedUsd(Released(holds, {i})) + Estimate
    BY <2>1, <1>4, OneMoreHold DEF ReservedUsd
  <2>3. ReservedUsd(Released(holds, {i})) \in Nat
    BY <1>4, NoLessHeld DEF ReservedUsd
  <2> QED BY <2>2, <2>3, BudgetAssumption
<1>6. ReservedUsd(holds) \in Nat
  BY <1>3, NoLessHeld DEF ReservedUsd
<1>7. Unforeseen(cost) \in Nat /\ cost <= Estimate + Unforeseen(cost)
  BY BudgetAssumption DEF Unforeseen
<1>8. s + ReservedUsd(holds) <= Limit + u
  BY DEF WithinLimit
<1>9. /\ (s + cost) + ReservedUsd(Released(holds, {i})) <= Limit + (u + Unforeseen(cost))
      /\ u + Unforeseen(cost) \in Nat
  BY <1>5, <1>6, <1>7, <1>8, BudgetAssumption
<1> QED BY <1>1, <1>9 DEF WithinLimit

-----------------------------------------------------------------------------
(* Steps that leave the slots and the queue alone.                         *)

Quiet ==
    /\ Onward /\ InFlight' = InFlight
    /\ UNCHANGED <<place, scheduled, activeCount, activeByAgent>>

LEMMA QuietKeeps ==
  ASSUME IInv, Quiet,
         inv' \in [Invocation -> InvocationRecord],
         hold' \in [Invocation -> HoldState],
         spent' \in Nat, unforeseen' \in Nat,
         Covered(inv', hold'), WithinLimit(spent', hold', unforeseen'),
         store' = store \/ store' = Snapshot',
         call' \in [Invocation -> CallState], UNCHANGED <<requests, crashes>>,
         handler' = NoHandler \/ (handler' \in Invocation /\ inv'[handler'].status # "none")
  PROVE  IInv'
<1>1. Snapshot' \in Record
  BY DEF Snapshot, Record
<1>2. Sound(Snapshot')
  BY DEF Sound, Snapshot
<1>3. TypeOK'
  BY <1>1 DEF IInv, TypeOK, Quiet
<1>4. Sound(store')
  BY <1>2 DEF IInv
<1>5. HandlerOK'
  BY HttpAssumption DEF HandlerOK
<1>6. Counted'
  BY DEF IInv, Counted, Quiet, At
<1>7. Placed'
  BY DEF IInv, Placed, Quiet, Onward, InFlight
<1>8. NobodyForgotten'
  BY DEF IInv, NobodyForgotten, Waiting, HasCapacity, Quiet, Onward
<1> QED BY <1>2, <1>3, <1>4, <1>5, <1>6, <1>7, <1>8 DEF IInv

LEMMA IInvTyped ==
  ASSUME IInv
  PROVE  /\ inv \in [Invocation -> InvocationRecord] /\ hold \in [Invocation -> HoldState]
         /\ spent \in Nat /\ unforeseen \in Nat
         /\ Covered(inv, hold) /\ WithinLimit(spent, hold, unforeseen)
         /\ call \in [Invocation -> CallState]
<1>1. TypeOK /\ Sound(Snapshot)
  BY DEF IInv
<1> QED BY <1>1, Typed DEF Sound, Snapshot, TypeOK

LEMMA HandlerKept ==
  ASSUME IInv, Onward, UNCHANGED handler
  PROVE  handler' = NoHandler \/ (handler' \in Invocation /\ inv'[handler'].status # "none")
BY DEF IInv, TypeOK, HandlerOK, Onward

\* One record moves on, with nothing else but what is durable and who handles it.
LEMMA RecordKeeps ==
  ASSUME IInv, NEW i \in Invocation, NEW v \in InvocationRecord,
         inv' = [inv EXCEPT ![i] = v], v.status # "none",
         IsTerminal(inv[i]) => IsTerminal(v),
         v.status \in OpenStatus => hold[i] = "active",
         call' \in [Invocation -> CallState], InFlight' = InFlight,
         UNCHANGED <<ledger, place, scheduled, activeCount, activeByAgent, requests, crashes>>,
         store' = store \/ store' = Snapshot',
         handler' \in {handler, i}
  PROVE  IInv'
<1>1. UNCHANGED <<hold, spent, unforeseen>>
  BY DEF ledger
<1>2. inv' \in [Invocation -> InvocationRecord] /\ Onward /\ Covered(inv', hold')
  BY <1>1, IInvTyped, OneMoved
<1>3. Quiet
  BY <1>2 DEF Quiet
<1>4. handler' = NoHandler \/ (handler' \in Invocation /\ inv'[handler'].status # "none")
  <2>1. CASE handler' = handler
    BY <2>1, <1>2, HandlerKept
  <2>2. CASE handler' = i
    BY <2>2, IInvTyped
  <2> QED BY <2>1, <2>2
<1> QED BY <1>1, <1>2, <1>3, <1>4, IInvTyped, QuietKeeps

LEMMA SameRuntime ==
  ASSUME UNCHANGED runtime
  PROVE  /\ UNCHANGED <<place, scheduled, activeCount, activeByAgent>>
         /\ call' = call /\ InFlight' = InFlight
BY DEF runtime, InFlight

LEMMA CreateKeeps ==
  ASSUME IInv, NEW i \in Invocation, Create(i) PROVE IInv'
<1> USE DEF Create, Commit
<1>1. /\ inv[i] \in InvocationRecord /\ inv[i].status = "none" /\ ~IsTerminal(inv[i])
  BY IInvTyped DEF IsTerminal, TerminalStatus
<1>2. CASE inv' = [inv EXCEPT ![i].status = "rejected"] /\ UNCHANGED <<hold, handler>>
  <2> DEFINE v == [inv[i] EXCEPT !.status = "rejected"]
  <2>1. inv' = [inv EXCEPT ![i] = v]
    BY <1>2
  <2>2. v \in InvocationRecord /\ v.status = "rejected"
    BY <1>1 DEF InvocationRecord, TerminalStatus
  <2>3. v.status # "none" /\ v.status \notin OpenStatus
    BY <2>2 DEF OpenStatus
  <2>4. UNCHANGED ledger
    BY <1>2 DEF ledger
  <2> HIDE DEF v
  <2> QED BY <1>1, <1>2, <2>1, <2>2, <2>3, <2>4, SameRuntime, IInvTyped, RecordKeeps
<1>3. ASSUME NEW v \in InvocationRecord, inv' = [inv EXCEPT ![i] = v], v.status # "none",
             hold[i] = "none", Admits(spent, hold), hold' = Reserved(hold, i),
             handler' \in {handler, i}
      PROVE  IInv'
  <2>1. hold' \in [Invocation -> HoldState] /\ WithinLimit(spent, hold', unforeseen)
    BY <1>3, IInvTyped, ReservedWithin
  <2>2. hold'[i] = "active" /\ \A j \in Invocation \ {i} : hold'[j] = hold[j]
    BY <1>3, IInvTyped DEF Reserved
  <2>3. inv' \in [Invocation -> InvocationRecord] /\ Onward /\ Covered(inv', hold')
    BY <1>1, <1>3, <2>2, IInvTyped, OneMoved
  <2>4. Quiet
    BY <2>3, SameRuntime DEF Quiet
  <2>5. handler' = NoHandler \/ (handler' \in Invocation /\ inv'[handler'].status # "none")
    <3>1. CASE handler' = handler
      BY <3>1, <2>3, HandlerKept
    <3>2. CASE handler' = i
      BY <3>2, <1>3, IInvTyped
    <3> QED BY <3>1, <3>2, <1>3
  <2> QED BY <2>1, <2>3, <2>4, <2>5, IInvTyped, SameRuntime, QuietKeeps
<1>4. CASE /\ Admits(spent, hold) /\ hold' = Reserved(hold, i)
           /\ inv' = [inv EXCEPT ![i] = Decided(@, "waiting_for_local_approval", "pending")]
           /\ UNCHANGED handler
  <2> DEFINE v == Decided(inv[i], "waiting_for_local_approval", "pending")
  <2>1. v \in InvocationRecord /\ v.status = "waiting_for_local_approval"
    BY <1>1, RecordOps DEF OpenStatus
  <2>2. inv' = [inv EXCEPT ![i] = v]
    BY <1>4
  <2> HIDE DEF v
  <2> QED BY <2>1, <2>2, <1>3, <1>4
<1>5. CASE /\ Admits(spent, hold) /\ hold' = Reserved(hold, i)
           /\ inv' = [inv EXCEPT ![i].status = "running"] /\ handler' = i
  <2> DEFINE v == [inv[i] EXCEPT !.status = "running"]
  <2>1. v \in InvocationRecord /\ v.status = "running"
    BY <1>1 DEF InvocationRecord, OpenStatus
  <2>2. inv' = [inv EXCEPT ![i] = v]
    BY <1>5
  <2> HIDE DEF v
  <2> QED BY <2>1, <2>2, <1>3, <1>5
<1> QED BY <1>2, <1>4, <1>5

LEMMA DecisionKeeps ==
  ASSUME IInv, NEW i \in Invocation, Approve(i) \/ Deny(i) PROVE IInv'
<1>1. /\ inv[i] \in InvocationRecord /\ inv[i].status = "waiting_for_local_approval"
      /\ ~IsTerminal(inv[i]) /\ hold[i] = "active"
  BY IInvTyped DEF Approve, Deny, AwaitsDecision, IsTerminal, TerminalStatus, Covered, OpenStatus
<1>2. CASE Approve(i)
  <2> DEFINE v == Decided(inv[i], "running", "approved")
  <2>1. v \in InvocationRecord /\ v.status = "running"
    BY <1>1, RecordOps DEF OpenStatus
  <2>2. inv' = [inv EXCEPT ![i] = v]
    BY <1>2 DEF Approve
  <2> HIDE DEF v
  <2> QED BY <1>1, <1>2, <2>1, <2>2, SameRuntime, IInvTyped, RecordKeeps DEF Approve, Commit
<1>3. CASE Deny(i)
  <2> DEFINE v == Decided(inv[i], "rejected", "denied")
  <2>1. v \in InvocationRecord /\ v.status = "rejected"
    BY <1>1, RecordOps DEF TerminalStatus
  <2>2. inv' = [inv EXCEPT ![i] = v]
    BY <1>3 DEF Deny
  <2>3. v.status \notin OpenStatus
    BY <2>1 DEF OpenStatus
  <2> HIDE DEF v
  <2> QED BY <1>1, <1>3, <2>1, <2>2, <2>3, SameRuntime, IInvTyped, RecordKeeps DEF Deny, Commit
<1> QED BY <1>2, <1>3

LEMMA CancelKeeps ==
  ASSUME IInv, NEW i \in Invocation, Cancel(i) PROVE IInv'
<1>1. /\ inv[i] \in InvocationRecord /\ ~IsTerminal(inv[i]) /\ hold[i] = "active"
  BY IInvTyped DEF Cancel, IsTerminal, TerminalStatus, Covered, OpenStatus
<1>2. CASE inv' = [inv EXCEPT ![i] = QueuedCancelled(@)] /\ UNCHANGED call
  <2> DEFINE v == QueuedCancelled(inv[i])
  <2>1. v \in InvocationRecord /\ v.status = "cancelled"
    BY <1>1, RecordOps
  <2>2. v.status \notin OpenStatus
    BY <2>1 DEF OpenStatus
  <2>3. inv' = [inv EXCEPT ![i] = v]
    BY <1>2
  <2>4. InFlight' = InFlight
    BY <1>2 DEF InFlight
  <2> HIDE DEF v
  <2> QED BY <1>1, <1>2, <2>1, <2>2, <2>3, <2>4, IInvTyped, RecordKeeps DEF Cancel
<1>3. CASE /\ inv' = [inv EXCEPT ![i].status = "cancelling"]
           /\ call' = [call EXCEPT ![i] = IF @ = "live" THEN "aborted" ELSE @]
  <2> DEFINE v == [inv[i] EXCEPT !.status = "cancelling"]
  <2>1. v \in InvocationRecord /\ v.status = "cancelling"
    BY <1>1 DEF InvocationRecord, OpenStatus
  <2>2. inv' = [inv EXCEPT ![i] = v]
    BY <1>3
  <2>3. call' \in [Invocation -> CallState] /\ InFlight' = InFlight
    BY <1>3, IInvTyped DEF CallState, InFlight
  <2> HIDE DEF v
  <2> QED BY <1>1, <2>1, <2>2, <2>3, RecordKeeps DEF Cancel
<1> QED BY <1>2, <1>3 DEF Cancel

LEMMA UnlinkKeeps ==
  ASSUME IInv, Unlink PROVE IInv'
<1> DEFINE v(i) == [inv[i] EXCEPT !.status = "cancelling"]
<1>1. ASSUME NEW i \in Invocation
      PROVE  /\ inv'[i] \in InvocationRecord
             /\ IsTerminal(inv[i]) => IsTerminal(inv'[i])
             /\ inv[i].status # "none" => inv'[i].status # "none"
             /\ inv'[i].status \in OpenStatus => inv[i].status \in OpenStatus
  <2>1. inv[i] \in InvocationRecord
    BY IInvTyped
  <2>2. CASE IsQueued(inv[i])
    <3>1. inv'[i] = QueuedCancelled(inv[i])
      BY <2>2 DEF Unlink
    <3> QED BY <2>1, <3>1, RecordOps DEF OpenStatus, IsTerminal, TerminalStatus
  <2>3. CASE ~IsQueued(inv[i]) /\ inv[i].status = "running"
    <3>1. inv'[i] = v(i)
      BY <2>3 DEF Unlink
    <3>2. v(i) \in InvocationRecord /\ v(i).status = "cancelling"
      BY <2>1 DEF InvocationRecord, OpenStatus
    <3> QED BY <2>3, <3>1, <3>2 DEF OpenStatus, IsTerminal, TerminalStatus
  <2>4. CASE ~IsQueued(inv[i]) /\ inv[i].status # "running"
    BY <2>1, <2>4 DEF Unlink
  <2> QED BY <2>2, <2>3, <2>4
<1>2. inv' \in [Invocation -> InvocationRecord]
  <2>1. inv' = [i \in Invocation |-> inv'[i]]
    BY DEF Unlink
  <2> QED BY <1>1, <2>1
<1>3. Onward
  BY <1>1 DEF Onward
<1>4. Covered(inv', hold') /\ UNCHANGED <<hold, spent, unforeseen, handler>>
  BY <1>1, IInvTyped DEF Covered, Unlink, ledger
<1>5. Quiet
  BY <1>3, SameRuntime DEF Quiet, Unlink
<1>6. handler' = NoHandler \/ (handler' \in Invocation /\ inv'[handler'].status # "none")
  BY <1>3, <1>4, HandlerKept
<1> QED BY <1>2, <1>4, <1>5, <1>6, IInvTyped, SameRuntime, QuietKeeps DEF Unlink

\* What completes a run settles its hold.
LEMMA SettledOK ==
  ASSUME IInv, NEW i \in Invocation, inv[i].status # "none",
         NEW records \in [Invocation -> InvocationRecord], NEW cost \in Nat,
         Settled(i, records, cost), IsTerminal(records[i]),
         \A j \in Invocation \ {i} : records[j] = inv[j]
  PROVE  /\ hold' \in [Invocation -> HoldState] /\ spent' \in Nat /\ unforeseen' \in Nat
         /\ Covered(records, hold')
         /\ \A j \in Invocation \ {i} : hold'[j] = hold[j]
         /\ WithinLimit(spent', hold', unforeseen')
         /\ \/ store' = store
            \/ store' = [inv |-> records, hold |-> hold', spent |-> spent',
                         unforeseen |-> unforeseen']
<1>1. CASE IsTerminal(inv[i])
  <2>1. UNCHANGED <<hold, spent, unforeseen, store>>
    BY <1>1 DEF Settled, ledger
  <2> QED BY <2>1, IInvTyped DEF Covered, IsTerminal, OpenStatus, TerminalStatus
<1>2. CASE ~IsTerminal(inv[i])
  <2>1. hold[i] = "active"
    BY <1>2, IInvTyped DEF Covered, IsTerminal, InvocationRecord
  <2>2. /\ hold' = Released(hold, {i}) /\ spent' = spent + cost
        /\ unforeseen' = unforeseen + Unforeseen(cost)
        /\ store' = [inv |-> records, hold |-> hold', spent |-> spent',
                     unforeseen |-> unforeseen']
    BY <1>2 DEF Settled
  <2>3. \A j \in Invocation \ {i} : hold'[j] = hold[j]
    BY <2>2, IInvTyped DEF Released
  <2>4. Covered(records, hold')
    BY <2>3, IInvTyped DEF Covered, IsTerminal, OpenStatus, TerminalStatus
  <2>5. /\ hold' \in [Invocation -> HoldState]
        /\ unforeseen + Unforeseen(cost) \in Nat
        /\ WithinLimit(spent + cost, hold', unforeseen + Unforeseen(cost))
    <3>1. hold' = Released(hold, {i})
      BY <2>2
    <3> QED BY <2>1, <3>1, IInvTyped, ChargedWithin
  <2>6. spent + cost \in Nat
    BY IInvTyped
  <2> QED BY <2>2, <2>3, <2>4, <2>5, <2>6
<1> QED BY <1>1, <1>2

LEMMA ReclaimKeeps ==
  ASSUME IInv, NEW i \in Invocation, Reclaim(i) PROVE IInv'
<1> DEFINE v == Completed(inv[i], "cancelled", 0)
<1>1. inv[i] \in InvocationRecord /\ inv[i].status = "cancelling"
  BY IInvTyped DEF Reclaim
<1>2. v \in InvocationRecord /\ IsTerminal(v)
  BY <1>1, RecordOps DEF TerminalStatus
<1>3. inv' = [inv EXCEPT ![i] = v]
  BY DEF Reclaim
<1> HIDE DEF v
<1>4. inv' \in [Invocation -> InvocationRecord]
  BY <1>2, <1>3, IInvTyped
<1>5. Onward
  BY <1>2, <1>3, IInvTyped DEF Onward, IsTerminal, TerminalStatus
<1>6. /\ hold' \in [Invocation -> HoldState] /\ spent' \in Nat /\ unforeseen' \in Nat
      /\ Covered(inv', hold') /\ WithinLimit(spent', hold', unforeseen')
      /\ store' = store \/ store' = Snapshot'
  <2>1. Settled(i, inv', 0) /\ inv[i].status # "none"
    BY <1>1 DEF Reclaim
  <2>2. IsTerminal(inv'[i]) /\ \A j \in Invocation \ {i} : inv'[j] = inv[j]
    BY <1>2, <1>3, IInvTyped
  <2> QED BY <1>4, <2>1, <2>2, SettledOK DEF Snapshot
<1>7. Quiet
  BY <1>5, SameRuntime DEF Quiet, Reclaim
<1>8. handler' = NoHandler \/ (handler' \in Invocation /\ inv'[handler'].status # "none")
  BY <1>5, HandlerKept DEF Reclaim
<1> QED BY <1>4, <1>6, <1>7, <1>8, IInvTyped, SameRuntime, QuietKeeps DEF Reclaim

LEMMA SameRecords ==
  ASSUME IInv, UNCHANGED inv
  PROVE  Onward
BY DEF Onward

LEMMA ReconcileKeeps ==
  ASSUME IInv, Reconcile PROVE IInv'
<1>1. Orphaned \in SUBSET Invocation /\ \A i \in Orphaned : inv[i].status \notin OpenStatus
  BY DEF Orphaned, Active, IsTerminal, OpenStatus, TerminalStatus
<1>2. hold' = Released(hold, Orphaned) /\ UNCHANGED <<inv, spent, unforeseen, handler>>
  BY DEF Reconcile
<1>3. hold' \in [Invocation -> HoldState] /\ WithinLimit(spent', hold', unforeseen')
  BY <1>1, <1>2, IInvTyped, ReleasedWithin
<1>4. Covered(inv', hold')
  BY <1>1, <1>2, IInvTyped DEF Covered, Released
<1>5. Quiet
  BY <1>2, SameRecords, SameRuntime DEF Quiet, Reconcile
<1>6. handler' = NoHandler \/ (handler' \in Invocation /\ inv'[handler'].status # "none")
  BY <1>2, SameRecords, HandlerKept
<1> QED BY <1>2, <1>3, <1>4, <1>5, <1>6, IInvTyped, SameRuntime, QuietKeeps
     DEF Reconcile, Commit

LEMMA FlushKeeps ==
  ASSUME IInv, Flush PROVE IInv'
<1>1. UNCHANGED <<inv, hold, spent, unforeseen, handler>>
  BY DEF Flush, ledger
<1>2. Quiet
  BY <1>1, SameRecords, SameRuntime DEF Quiet, Flush
<1>3. handler' = NoHandler \/ (handler' \in Invocation /\ inv'[handler'].status # "none")
  BY <1>1, SameRecords, HandlerKept
<1> QED BY <1>1, <1>2, <1>3, IInvTyped, SameRuntime, QuietKeeps DEF Flush, Commit

LEMMA TimeoutKeeps ==
  ASSUME IInv, NEW i \in Invocation, Timeout(i) PROVE IInv'
<1>1. UNCHANGED <<inv, hold, spent, unforeseen, handler>>
  BY DEF Timeout, ledger
<1>2. call' \in [Invocation -> CallState] /\ InFlight' = InFlight
  BY IInvTyped DEF Timeout, CallState, InFlight
<1>3. Quiet
  BY <1>1, <1>2, SameRecords DEF Quiet, Timeout
<1>4. handler' = NoHandler \/ (handler' \in Invocation /\ inv'[handler'].status # "none")
  BY <1>1, SameRecords, HandlerKept
<1> QED BY <1>1, <1>2, <1>3, <1>4, IInvTyped, QuietKeeps DEF Timeout

-----------------------------------------------------------------------------
(* The restart.                                                            *)

LEMMA RestartKeeps ==
  ASSUME IInv, NEW stored \in Record, Sound(stored), RestartFrom(stored)
  PROVE  IInv'
<1> USE DEF RestartFrom
<1>1. Snapshot' = stored
  BY DEF Snapshot, Record
<1>2. crashes' \in 0..MaxCrashes
  BY HttpAssumption DEF IInv, TypeOK
<1>3. TypeOK'
  BY <1>1, <1>2 DEF IInv, TypeOK, CallState
<1>4. InFlight' = {} /\ \A a \in Agent : At(a)' = {}
  BY DEF InFlight, At
<1>5. Counted'
  BY <1>4, FS_EmptySet, HttpAssumption DEF Counted
<1>6. Placed' /\ NobodyForgotten'
  BY <1>4 DEF Placed, NobodyForgotten, Waiting
<1>7. HandlerOK'
  BY HttpAssumption DEF HandlerOK
<1>8. Sound(Snapshot)' /\ Sound(store)'
  <2>1. Sound(Snapshot') /\ Sound(store')
    BY <1>1
  <2> QED BY <2>1 DEF Sound, Covered
<1> QED BY <1>3, <1>5, <1>6, <1>7, <1>8 DEF IInv

LEMMA CrashKeeps ==
  ASSUME IInv, Crash PROVE IInv'
BY RestartKeeps DEF Crash, IInv, TypeOK

LEMMA CrashAfterHoldKeeps ==
  ASSUME IInv, NEW i \in Invocation, CrashAfterHold(i) PROVE IInv'
<1> DEFINE stored == [Snapshot EXCEPT !.hold = Reserved(hold, i)]
<1>1. /\ Reserved(hold, i) \in [Invocation -> HoldState]
      /\ WithinLimit(spent, Reserved(hold, i), unforeseen)
  BY IInvTyped, ReservedWithin DEF CrashAfterHold
<1>2. stored = [inv |-> inv, hold |-> Reserved(hold, i), spent |-> spent,
                unforeseen |-> unforeseen]
  BY DEF Snapshot
<1>3. Covered(inv, Reserved(hold, i))
  BY IInvTyped DEF Covered, Reserved
<1>4. stored \in Record /\ Sound(stored)
  BY <1>1, <1>2, <1>3, IInvTyped DEF Record, Sound
<1>5. RestartFrom(stored)
  BY DEF CrashAfterHold
<1> HIDE DEF stored
<1> QED BY <1>4, <1>5, RestartKeeps

-----------------------------------------------------------------------------
(* The start of a request.                                                 *)

LEMMA StartKeeps ==
  ASSUME IInv, NEW i \in Invocation, Start(i) PROVE IInv'
<1>1. /\ inv[i] \in InvocationRecord /\ inv[i].status \in OpenStatus /\ hold[i] = "active"
      /\ ~IsTerminal(inv[i])
  BY IInvTyped DEF IInv, HandlerOK, Start, IsTerminal, InvocationRecord, Covered
<1>2. call[i] = "none" /\ place[i] = 0 /\ i \notin InFlight /\ i \in scheduled'
  BY DEF IInv, Placed, Start, InFlight
<1>3. PICK status \in {"running", "queued"} : inv' = [inv EXCEPT ![i].status = status]
  BY DEF Start, Launch, Park
<1> DEFINE v == [inv[i] EXCEPT !.status = status]
<1>4. inv' = [inv EXCEPT ![i] = v]
  BY <1>3
<1>5. v \in InvocationRecord /\ v.status \in OpenStatus /\ v.status # "none" /\ ~IsTerminal(v)
  <2>1. v.status = status
    BY <1>1 DEF InvocationRecord
  <2> QED BY <1>1, <2>1 DEF InvocationRecord, OpenStatus, IsTerminal, TerminalStatus
<1> HIDE DEF v
<1>6. UNCHANGED <<hold, spent, unforeseen, store, crashes>> /\ handler' = NoHandler
  BY DEF Start, ledger
<1>7. inv' \in [Invocation -> InvocationRecord] /\ Onward /\ Covered(inv', hold')
  BY <1>1, <1>4, <1>5, <1>6, IInvTyped, OneMoved
<1>8. Sound(Snapshot)' /\ Sound(store)' /\ HandlerOK'
  <2>1. Sound(store)'
    BY <1>6 DEF IInv, Sound, Covered
  <2>2. Sound(Snapshot)'
    BY <1>6, <1>7, IInvTyped DEF Sound, Snapshot, Covered
  <2> QED BY <2>1, <2>2, <1>6, HttpAssumption DEF HandlerOK
<1>9. Snapshot' \in Record /\ store' \in Record /\ scheduled' \subseteq Invocation
      /\ handler' \in Invocation \cup {NoHandler} /\ crashes' \in 0..MaxCrashes
  BY <1>6, <1>7, IInvTyped DEF Snapshot, Record, IInv, TypeOK, Start
<1>10. \A j \in Invocation : ~IsTerminal(inv'[j]) => ~IsTerminal(inv[j])
  BY <1>7 DEF Onward
<1>11. /\ activeCount \in Nat /\ activeByAgent \in [Agent -> Nat] /\ AgentOf[i] \in Agent
       /\ requests \in [Invocation -> Nat] /\ place \in [Invocation -> Nat]
       /\ MaxConcurrency \in Nat /\ PerAgentMaxConcurrency \in Nat
  BY HttpAssumption DEF IInv, TypeOK
<1>12. CASE Launch(i)
  <2>1. /\ call' = [call EXCEPT ![i] = "live"] /\ place' = place
        /\ requests' = [requests EXCEPT ![i] = @ + 1]
        /\ activeCount' = activeCount + 1
        /\ activeByAgent' = [activeByAgent EXCEPT ![AgentOf[i]] = @ + 1]
        /\ HasCapacity(i, activeCount, activeByAgent)
    BY <1>12 DEF Launch
  <2>2. InFlight' = InFlight \cup {i}
    BY <2>1, IInvTyped DEF InFlight
  <2>3. \A a \in Agent : At(a)' = IF a = AgentOf[i] THEN At(a) \cup {i} ELSE At(a)
    BY <2>2 DEF At
  <2>4. TypeOK'
    BY <1>9, <1>11, <2>1, IInvTyped DEF TypeOK, CallState
  <2>5. /\ activeCount' = Cardinality(InFlight') /\ activeCount' <= MaxConcurrency
    <3>1. InFlight \in SUBSET Invocation
      BY DEF InFlight
    <3>2. Cardinality(InFlight') = Cardinality(InFlight) + 1
      BY <1>2, <2>2, <3>1, Finite, FS_AddElement
    <3> QED BY <1>11, <2>1, <3>2 DEF IInv, Counted, HasCapacity
  <2>6. ASSUME NEW a \in Agent
        PROVE  /\ activeByAgent'[a] = Cardinality(At(a)')
               /\ activeByAgent'[a] <= PerAgentMaxConcurrency
    <3>1. At(a) \in SUBSET Invocation /\ i \notin At(a)
      BY <1>2 DEF At, InFlight
    <3>2. Cardinality(At(a) \cup {i}) = Cardinality(At(a)) + 1
      BY <3>1, Finite, FS_AddElement
    <3>3. activeByAgent[a] = Cardinality(At(a)) /\ activeByAgent[a] <= PerAgentMaxConcurrency
      BY DEF IInv, Counted
    <3>4. CASE a = AgentOf[i]
      <4>1. activeByAgent'[a] = activeByAgent[a] + 1 /\ activeByAgent[a] < PerAgentMaxConcurrency
        BY <1>11, <2>1, <3>4 DEF HasCapacity
      <4>2. At(a)' = At(a) \cup {i}
        BY <2>3, <3>4
      <4> QED BY <1>11, <3>2, <3>3, <4>1, <4>2
    <3>5. CASE a # AgentOf[i]
      BY <1>11, <2>1, <2>3, <3>3, <3>5
    <3> QED BY <3>4, <3>5
  <2>7. Counted'
    BY <2>5, <2>6 DEF Counted
  <2>8. Placed'
    BY <1>2, <1>5, <1>7, <2>1, <2>2, IInvTyped, <1>4 DEF IInv, Placed, Start, Onward, InFlight
  <2>9. ASSUME NEW j \in Waiting(inv)'
        PROVE  ~HasCapacity(j, activeCount, activeByAgent)'
    <3>1. j \in Waiting(inv) /\ AgentOf[j] \in Agent
      BY <1>10, <2>1, HttpAssumption DEF Waiting
    <3>2. ~HasCapacity(j, activeCount, activeByAgent)
      BY <3>1 DEF IInv, NobodyForgotten
    <3> QED BY <1>11, <2>1, <3>1, <3>2 DEF HasCapacity
  <2>10. NobodyForgotten'
    BY <2>9 DEF NobodyForgotten
  <2> QED BY <1>8, <2>4, <2>7, <2>8, <2>10 DEF IInv
<1>13. CASE Park(i)
  <2>1. PICK last \in Invocation : IsLast(last) /\ place' = [place EXCEPT ![i] = place[last] + 1]
    BY <1>13 DEF Park
  <2>2. /\ UNCHANGED <<call, requests, activeCount, activeByAgent>>
        /\ ~HasCapacity(i, activeCount, activeByAgent)
    BY <1>13 DEF Park
  <2>3. /\ place' \in [Invocation -> Nat]
        /\ place[last] \in Nat
        /\ place'[i] = place[last] + 1
        /\ place'[i] # 0
        /\ \A j \in Invocation \ {i} : place'[j] = place[j]
        /\ \A j \in Invocation : place[j] <= place[last]
    BY <1>11, <2>1 DEF IsLast
  <2>4. TypeOK'
    BY <1>9, <1>11, <2>2, <2>3, IInvTyped DEF TypeOK
  <2>5. Counted'
    BY <2>2 DEF IInv, Counted, At, InFlight
  <2>6. \A j \in InFlight' : j \in scheduled' /\ place'[j] = 0 /\ inv'[j].status # "none"
    BY <1>2, <1>7, <2>2, <2>3 DEF IInv, Placed, InFlight, Start, Onward
  <2>7. \A j \in Invocation : place'[j] # 0 => j \in scheduled' /\ inv'[j].status # "none"
    BY <1>1, <1>2, <1>7, <2>3 DEF IInv, Placed, Start, Onward, OpenStatus
  <2>8. \A j, k \in Invocation : place'[j] = place'[k] /\ place'[j] # 0 => j = k
    <3>1. \A j \in Invocation \ {i} : place'[j] \in Nat /\ place'[j] <= place[last]
      BY <1>11, <2>3
    <3>2. \A j \in Invocation \ {i} : place'[j] # place'[i]
      BY <2>3, <3>1
    <3>3. \A j, k \in Invocation \ {i} : place'[j] = place'[k] /\ place'[j] # 0 => j = k
      BY <2>3 DEF IInv, Placed
    <3> QED BY <3>2, <3>3
  <2>9. \E n \in Nat : \A j \in Invocation : place'[j] <= n
    <3>1. place[last] + 1 \in Nat /\ \A j \in Invocation : place'[j] <= place[last] + 1
      BY <1>11, <2>3
    <3> QED BY <3>1
  <2>10. Placed'
    BY <2>6, <2>7, <2>8, <2>9 DEF Placed
  <2>11. NobodyForgotten'
    BY <1>10, <2>2, <2>3 DEF IInv, NobodyForgotten, Waiting, HasCapacity
  <2> QED BY <1>8, <2>4, <2>5, <2>10, <2>11 DEF IInv
<1> QED BY <1>12, <1>13 DEF Start

-----------------------------------------------------------------------------
(* The end of a request and the drain of the queue.                        *)

LEMMA Replaced ==
  ASSUME NEW S \in SUBSET Invocation, NEW i \in S, NEW L \in SUBSET Invocation, S \cap L = {}
  PROVE  Cardinality((S \ {i}) \cup L) = Cardinality(S) - 1 + Cardinality(L)
<1>1. IsFiniteSet(S \ {i}) /\ Cardinality(S \ {i}) = Cardinality(S) - 1
  BY Finite, FS_RemoveElement
<1>2. (S \ {i}) \cap L = {}
  OBVIOUS
<1>3. Cardinality((S \ {i}) \cap L) = 0
  BY <1>2, FS_EmptySet
<1>4. IsFiniteSet(L) /\ Cardinality(L) \in Nat /\ Cardinality(S) \in Nat
  BY Finite
<1>5. Cardinality((S \ {i}) \cup L)
        = Cardinality(S \ {i}) + Cardinality(L) - Cardinality((S \ {i}) \cap L)
  BY <1>1, <1>4, FS_Union
<1> QED BY <1>1, <1>3, <1>4, <1>5

LEMMA Joined ==
  ASSUME NEW S \in SUBSET Invocation, NEW L \in SUBSET Invocation, S \cap L = {}
  PROVE  Cardinality(S \cup L) = Cardinality(S) + Cardinality(L)
<1>1. IsFiniteSet(S) /\ Cardinality(S) \in Nat /\ IsFiniteSet(L) /\ Cardinality(L) \in Nat
  BY Finite
<1>2. Cardinality(S \cup L) = Cardinality(S) + Cardinality(L) - Cardinality(S \cap L)
  BY <1>1, FS_Union
<1>3. Cardinality(S \cap L) = 0
  BY FS_EmptySet
<1> QED BY <1>1, <1>2, <1>3

\* What a drain launches fits, and what it leaves behind finds no slot afterwards.
Fits(L, records, count, byAgent) ==
    /\ L = {} \/ count + Cardinality(L) <= MaxConcurrency
    /\ \A a \in Agent :
          \/ {j \in L : AgentOf[j] = a} = {}
          \/ byAgent[a] + Cardinality({j \in L : AgentOf[j] = a})
               <= PerAgentMaxConcurrency
    /\ \A j \in Waiting(records) \ L :
          \/ count + Cardinality(L) >= MaxConcurrency
          \/ byAgent[AgentOf[j]] + Cardinality({k \in L : AgentOf[k] = AgentOf[j]})
               >= PerAgentMaxConcurrency

LEMMA DrainFits ==
  ASSUME place \in [Invocation -> Nat], Placed,
         NEW L \in SUBSET Invocation, NEW records, NEW count \in Nat,
         NEW byAgent \in [Agent -> Nat],
         Drained(L, records, count, byAgent)
  PROVE  Fits(L, records, count, byAgent)
<1> DEFINE before(j) == {k \in L : place[k] < place[j]}
           alike(a) == {j \in L : AgentOf[j] = a}
<1>1. ASSUME NEW j \in Invocation
      PROVE  j \in L <=> /\ j \in Waiting(records)
                        /\ count + Cardinality(before(j)) < MaxConcurrency
                        /\ byAgent[AgentOf[j]] + Cardinality(before(j) \cap SameAgent(j))
                             < PerAgentMaxConcurrency
  BY DEF Drained
<1>2. \A j \in L : place[j] # 0
  BY <1>1 DEF Waiting
<1>3. MaxConcurrency \in Nat /\ PerAgentMaxConcurrency \in Nat
      /\ \A j \in Invocation : AgentOf[j] \in Agent
  BY HttpAssumption
<1>4. L # {} => count + Cardinality(L) <= MaxConcurrency
  <2>1. SUFFICES ASSUME L # {} PROVE count + Cardinality(L) <= MaxConcurrency
    OBVIOUS
  <2>2. PICK j \in L : before(j) = L \ {j}
    BY <1>2, <2>1, LastOf
  <2>3. Cardinality(before(j)) = Cardinality(L) - 1 /\ Cardinality(L) \in Nat
    BY <2>2, Finite, FS_RemoveElement
  <2>4. count + Cardinality(before(j)) < MaxConcurrency
    BY <1>1
  <2> QED BY <1>3, <2>3, <2>4
<1>5. ASSUME NEW a \in Agent, alike(a) # {}
      PROVE  byAgent[a] + Cardinality(alike(a)) <= PerAgentMaxConcurrency
  <2>1. alike(a) \in SUBSET Invocation /\ \A k \in alike(a) : place[k] # 0
    BY <1>2
  <2>2. PICK j \in alike(a) : {k \in alike(a) : place[k] < place[j]} = alike(a) \ {j}
    BY <1>5, <2>1, LastOf
  <2>3. before(j) \cap SameAgent(j) = alike(a) \ {j}
    BY <2>2 DEF SameAgent
  <2>4. /\ Cardinality(alike(a) \ {j}) = Cardinality(alike(a)) - 1
        /\ Cardinality(alike(a)) \in Nat /\ byAgent[a] \in Nat
    BY <2>1, Finite, FS_RemoveElement
  <2>5. byAgent[a] + Cardinality(before(j) \cap SameAgent(j)) < PerAgentMaxConcurrency
    BY <1>1
  <2> DEFINE m == Cardinality(alike(a))
             n == Cardinality(before(j) \cap SameAgent(j))
  <2>6. n = m - 1 /\ m \in Nat /\ byAgent[a] \in Nat /\ byAgent[a] + n < PerAgentMaxConcurrency
    BY <2>3, <2>4, <2>5
  <2>7. byAgent[a] + m <= PerAgentMaxConcurrency
    <3> HIDE DEF m, n
    <3> QED BY <1>3, <2>6
  <2> QED BY <2>7
<1>6. ASSUME NEW j \in Waiting(records) \ L
      PROVE  \/ count + Cardinality(L) >= MaxConcurrency
             \/ byAgent[AgentOf[j]] + Cardinality(alike(AgentOf[j])) >= PerAgentMaxConcurrency
  <2>1. j \in Invocation /\ AgentOf[j] \in Agent
    BY <1>3 DEF Waiting
  <2>2. \/ ~(count + Cardinality(before(j)) < MaxConcurrency)
        \/ ~(byAgent[AgentOf[j]] + Cardinality(before(j) \cap SameAgent(j))
               < PerAgentMaxConcurrency)
    BY <1>1, <2>1
  <2>3. /\ Cardinality(before(j)) <= Cardinality(L)
        /\ Cardinality(before(j)) \in Nat /\ Cardinality(L) \in Nat
    BY Finite, FS_Subset
  <2>4. before(j) \cap SameAgent(j) \in SUBSET alike(AgentOf[j])
        /\ alike(AgentOf[j]) \in SUBSET Invocation
    BY DEF SameAgent
  <2>5. /\ Cardinality(before(j) \cap SameAgent(j)) <= Cardinality(alike(AgentOf[j]))
        /\ Cardinality(before(j) \cap SameAgent(j)) \in Nat
        /\ Cardinality(alike(AgentOf[j])) \in Nat /\ byAgent[AgentOf[j]] \in Nat
    BY <2>1, <2>4, Finite, FS_Subset
  <2> HIDE DEF before, alike
  <2> QED BY <1>3, <2>2, <2>3, <2>5
<1> QED BY <1>4, <1>5, <1>6 DEF Fits

LEMMA SettleKeeps ==
  ASSUME IInv, NEW i \in Invocation, Settle(i) PROVE IInv'
<1>1. /\ i \in InFlight /\ i \in scheduled /\ place[i] = 0
      /\ inv[i] \in InvocationRecord /\ inv[i].status # "none"
  BY IInvTyped DEF IInv, Placed, Settle, InFlight
<1>2. PICK status \in Ending(call[i]), cost \in {0} \cup Cost, L \in SUBSET Invocation :
          /\ Settled(i, [inv EXCEPT ![i] = Completed(@, status, cost)], cost)
          /\ GiveBack(i, [inv EXCEPT ![i] = Completed(@, status, cost)], L)
  BY DEF Settle
<1> DEFINE R == [inv EXCEPT ![i] = Completed(@, status, cost)]
           count == activeCount - 1
           byAgent == [activeByAgent EXCEPT ![AgentOf[i]] = @ - 1]
           D == {j \in Invocation : place[j] # 0 /\ IsTerminal(R[j])}
<1>3. status \in TerminalStatus /\ cost \in Nat
  <2>1. call[i] \in {"live", "aborted", "expired"}
    BY <1>1, IInvTyped DEF InFlight, CallState
  <2> QED BY <2>1, HttpAssumption DEF Ending, TerminalStatus
<1>4. R \in [Invocation -> InvocationRecord] /\ IsTerminal(R[i])
      /\ \A j \in Invocation \ {i} : R[j] = inv[j]
  BY <1>1, <1>3, RecordOps, IInvTyped
<1>5. /\ place \in [Invocation -> Nat] /\ Placed /\ activeCount \in Nat
      /\ activeByAgent \in [Agent -> Nat] /\ requests \in [Invocation -> Nat]
      /\ scheduled \subseteq Invocation /\ \A j \in Invocation : AgentOf[j] \in Agent
      /\ MaxConcurrency \in Nat /\ PerAgentMaxConcurrency \in Nat
  BY HttpAssumption DEF IInv, TypeOK
<1>6. /\ UNCHANGED <<handler, crashes>> /\ handler = NoHandler
  BY DEF Settle
<1>7. D = {j \in Invocation : place[j] # 0 /\ IsTerminal(R[j])}
  OBVIOUS
<1>8. /\ Settled(i, R, cost) /\ Drained(L, R, count, byAgent)
      /\ inv' = [j \in Invocation |->
                   IF j \in L THEN [R[j] EXCEPT !.status = "running"] ELSE R[j]]
      /\ call' = [j \in Invocation |-> IF j \in L THEN "live"
                                       ELSE IF j = i THEN "none" ELSE call[j]]
      /\ requests' = [j \in Invocation |-> IF j \in L THEN requests[j] + 1 ELSE requests[j]]
      /\ place' = [j \in Invocation |-> IF j \in L \cup D THEN 0 ELSE place[j]]
      /\ scheduled' = scheduled \ ({i} \cup D)
      /\ activeCount' = count + Cardinality(L)
      /\ activeByAgent' = [a \in Agent |->
            byAgent[a] + Cardinality({j \in L : AgentOf[j] = a})]
  BY <1>2 DEF GiveBack
<1> HIDE DEF R, D, count, byAgent
<1>9. ASSUME NEW j \in L
      PROVE  /\ j \in Waiting(R) /\ j # i /\ j \notin InFlight /\ j \notin D
             /\ place[j] # 0 /\ j \in scheduled /\ ~IsTerminal(R[j]) /\ R[j] = inv[j]
  <2>1. j \in Waiting(R)
    BY <1>8 DEF Drained
  <2>2. place[j] # 0 /\ ~IsTerminal(R[j])
    BY <2>1 DEF Waiting
  <2> QED BY <1>1, <1>4, <1>5, <1>7, <2>1, <2>2 DEF Placed
<1>10. ASSUME NEW j \in Invocation
       PROVE  /\ inv'[j] \in InvocationRecord
              /\ j \notin L => inv'[j] = R[j]
              /\ j \in L => inv'[j].status = "running"
  <2>1. R[j] \in InvocationRecord
    BY <1>4
  <2> QED BY <1>8, <2>1 DEF InvocationRecord, OpenStatus
<1>11. inv' \in [Invocation -> InvocationRecord]
  BY <1>8, <1>10
<1>12. /\ hold' \in [Invocation -> HoldState] /\ spent' \in Nat /\ unforeseen' \in Nat
       /\ Covered(R, hold') /\ \A j \in Invocation \ {i} : hold'[j] = hold[j]
       /\ WithinLimit(spent', hold', unforeseen')
       /\ \/ store' = store
          \/ store' = [inv |-> R, hold |-> hold', spent |-> spent', unforeseen |-> unforeseen']
  BY <1>1, <1>3, <1>4, <1>8, SettledOK
<1>13. ASSUME NEW j \in Invocation
       PROVE  /\ IsTerminal(inv'[j]) <=> IsTerminal(R[j])
              /\ inv[j].status # "none" => inv'[j].status # "none"
  <2>1. CASE j \in L
    BY <1>9, <1>10, <2>1 DEF IsTerminal, TerminalStatus
  <2>2. CASE j \notin L
    BY <1>4, <1>10, <2>2 DEF IsTerminal, TerminalStatus
  <2> QED BY <2>1, <2>2
<1>14. Covered(inv', hold')
  <2>1. ASSUME NEW j \in L PROVE hold'[j] = "active"
    <3>1. IsTerminal(inv[j]) \/ inv[j].status \in OpenStatus \/ inv[j].status = "none"
      BY IInvTyped DEF IsTerminal, InvocationRecord
    <3>2. place[j] # 0 /\ ~IsTerminal(inv[j])
      BY <1>9
    <3>3. CASE inv[j].status \in OpenStatus
      BY <1>9, <1>12, <3>3, IInvTyped DEF Covered
    <3>4. CASE inv[j].status = "none"
      BY <3>2, <3>4, <1>5 DEF Placed
    <3> QED BY <3>1, <3>2, <3>3, <3>4
  <2> QED BY <1>10, <1>12, <2>1 DEF Covered
<1>15. Sound(Snapshot)' /\ Sound(store)' /\ HandlerOK' /\ Snapshot' \in Record /\ store' \in Record
  <2>1. Sound(Snapshot') /\ Snapshot' \in Record
    BY <1>11, <1>12, <1>14 DEF Sound, Snapshot, Record
  <2>2. Sound(store') /\ store' \in Record
    BY <1>4, <1>12 DEF Sound, Record, IInv, TypeOK
  <2> QED BY <2>1, <2>2, <1>6, HttpAssumption DEF HandlerOK, Sound, Covered
<1>16. InFlight' = (InFlight \ {i}) \cup L /\ InFlight \cap L = {}
  BY <1>8, <1>9 DEF InFlight
<1>17. ASSUME NEW a \in Agent
       PROVE  /\ At(a)' = (At(a) \ {i}) \cup {j \in L : AgentOf[j] = a}
              /\ At(a) \cap {j \in L : AgentOf[j] = a} = {}
  BY <1>16 DEF At
<1>18. activeCount = Cardinality(InFlight) /\ InFlight \in SUBSET Invocation
       /\ activeCount <= MaxConcurrency /\ count \in Nat /\ count = activeCount - 1
  <2>1. InFlight \in SUBSET Invocation /\ activeCount = Cardinality(InFlight)
        /\ activeCount <= MaxConcurrency
    BY DEF IInv, Counted, InFlight
  <2>2. activeCount # 0
    BY <1>1, <2>1, Finite, FS_EmptySet
  <2> QED BY <1>5, <2>1, <2>2 DEF count
<1>19. ASSUME NEW a \in Agent
       PROVE  /\ activeByAgent[a] = Cardinality(At(a)) /\ At(a) \in SUBSET Invocation
              /\ activeByAgent[a] <= PerAgentMaxConcurrency /\ activeByAgent[a] \in Nat
              /\ a = AgentOf[i] => i \in At(a) /\ byAgent[a] = activeByAgent[a] - 1
              /\ a # AgentOf[i] => i \notin At(a) /\ byAgent[a] = activeByAgent[a]
              /\ byAgent[a] \in Nat
  <2>1. /\ activeByAgent[a] = Cardinality(At(a)) /\ At(a) \in SUBSET Invocation
        /\ activeByAgent[a] <= PerAgentMaxConcurrency /\ activeByAgent[a] \in Nat
    BY <1>5 DEF IInv, Counted, At, InFlight
  <2>2. a = AgentOf[i] => i \in At(a) /\ byAgent[a] = activeByAgent[a] - 1
    BY <1>1, <1>5 DEF At, byAgent
  <2>3. a # AgentOf[i] => i \notin At(a) /\ byAgent[a] = activeByAgent[a]
    BY <1>5 DEF At, byAgent
  <2>4. a = AgentOf[i] => activeByAgent[a] # 0
    BY <2>1, <2>2, Finite, FS_EmptySet
  <2> QED BY <2>1, <2>2, <2>3, <2>4
<1>20. byAgent \in [Agent -> Nat]
  BY <1>5, <1>19 DEF byAgent
<1>21. /\ L = {} \/ count + Cardinality(L) <= MaxConcurrency
       /\ \A a \in Agent :
             \/ {j \in L : AgentOf[j] = a} = {}
             \/ byAgent[a] + Cardinality({j \in L : AgentOf[j] = a}) <= PerAgentMaxConcurrency
       /\ \A j \in Waiting(R) \ L :
             \/ count + Cardinality(L) >= MaxConcurrency
             \/ byAgent[AgentOf[j]] + Cardinality({k \in L : AgentOf[k] = AgentOf[j]})
                  >= PerAgentMaxConcurrency
  <2>1. place \in [Invocation -> Nat] /\ Placed
    BY <1>5
  <2>2. count \in Nat /\ byAgent \in [Agent -> Nat] /\ Drained(L, R, count, byAgent)
    BY <1>8, <1>18, <1>20
  <2>3. Fits(L, R, count, byAgent)
    BY <2>1, <2>2, DrainFits
  <2> QED BY <2>3 DEF Fits
<1>22. activeCount' = Cardinality(InFlight') /\ activeCount' <= MaxConcurrency
       /\ activeCount' \in Nat
  <2>1. Cardinality(InFlight') = Cardinality(InFlight) - 1 + Cardinality(L)
    BY <1>1, <1>16, <1>18, Replaced
  <2>2. Cardinality(L) \in Nat /\ (L = {} => Cardinality(L) = 0)
    BY Finite, FS_EmptySet
  <2> QED BY <1>5, <1>8, <1>18, <1>21, <2>1, <2>2
<1>23. ASSUME NEW a \in Agent
       PROVE  /\ activeByAgent'[a] = Cardinality(At(a)') /\ activeByAgent'[a] \in Nat
              /\ activeByAgent'[a] <= PerAgentMaxConcurrency
  <2> DEFINE M == {j \in L : AgentOf[j] = a}
  <2>1. /\ activeByAgent'[a] = byAgent[a] + Cardinality(M)
        /\ At(a)' = (At(a) \ {i}) \cup M /\ At(a) \cap M = {}
        /\ M = {} \/ byAgent[a] + Cardinality(M) <= PerAgentMaxConcurrency
    BY <1>8, <1>17, <1>21
  <2>2. M \in SUBSET Invocation
    OBVIOUS
  <2> HIDE DEF M
  <2>3. Cardinality(M) \in Nat /\ (M = {} => Cardinality(M) = 0)
    BY <2>2, Finite, FS_EmptySet
  <2>4. Cardinality((At(a) \ {i}) \cup M) = byAgent[a] + Cardinality(M)
    <3>1. CASE a = AgentOf[i]
      BY <1>19, <2>1, <2>2, <3>1, Replaced
    <3>2. CASE a # AgentOf[i]
      <4>1. At(a) \ {i} = At(a)
        BY <1>19, <3>2
      <4> QED BY <1>19, <2>1, <2>2, <3>2, <4>1, Joined
    <3> QED BY <3>1, <3>2
  <2> QED BY <1>5, <1>19, <2>1, <2>3, <2>4
<1>24. Counted'
  BY <1>22, <1>23 DEF Counted
<1>25. TypeOK'
  <2>1. call' \in [Invocation -> CallState] /\ requests' \in [Invocation -> Nat]
        /\ place' \in [Invocation -> Nat] /\ scheduled' \subseteq Invocation
    BY <1>5, <1>8, IInvTyped DEF CallState
  <2>2. activeByAgent' \in [Agent -> Nat]
    BY <1>8, <1>23
  <2> QED BY <1>6, <1>15, <1>22, <2>1, <2>2 DEF IInv, TypeOK
<1>26. Placed'
  <2>1. ASSUME NEW j \in InFlight'
        PROVE  j \in scheduled' /\ place'[j] = 0 /\ inv'[j].status # "none"
    <3>1. CASE j \in L
      BY <1>8, <1>9, <1>10, <3>1
    <3>2. CASE j \notin L
      <4>1. j \in InFlight /\ j # i
        BY <1>16, <3>2
      <4> QED BY <1>5, <1>7, <1>8, <1>13, <3>2, <4>1 DEF Placed, InFlight
    <3> QED BY <3>1, <3>2
  <2>2. ASSUME NEW j \in Invocation, place'[j] # 0
        PROVE  j \in scheduled' /\ inv'[j].status # "none"
    BY <1>1, <1>5, <1>8, <1>13, <2>2 DEF Placed
  <2>3. \A j \in Invocation : place'[j] \in {0, place[j]}
    BY <1>8
  <2> QED BY <1>5, <2>1, <2>2, <2>3 DEF Placed
<1>27. NobodyForgotten'
  <2>1. SUFFICES ASSUME NEW j \in Waiting(inv)' PROVE ~HasCapacity(j, activeCount, activeByAgent)'
    BY DEF NobodyForgotten
  <2>2. j \in Waiting(R) \ L /\ AgentOf[j] \in Agent
    BY <1>5, <1>7, <1>8, <1>13 DEF Waiting
  <2>3. /\ activeCount' = count + Cardinality(L)
        /\ activeByAgent'[AgentOf[j]]
             = byAgent[AgentOf[j]] + Cardinality({k \in L : AgentOf[k] = AgentOf[j]})
    BY <1>8, <2>2
  <2> QED BY <1>5, <1>21, <1>22, <1>23, <2>2, <2>3 DEF HasCapacity
<1> QED BY <1>15, <1>24, <1>25, <1>26, <1>27 DEF IInv

-----------------------------------------------------------------------------
(* The theorems.                                                           *)

LEMMA InitInv ==
  ASSUME Init PROVE IInv
<1>1. InFlight = {} /\ \A a \in Agent : At(a) = {}
  BY DEF Init, InFlight, At
<1>2. Snapshot \in Record
  BY DEF Init, Snapshot, Record, InvocationRecord, NotCreated, HoldState
<1>3. TypeOK
  BY <1>2, HttpAssumption DEF Init, TypeOK, CallState
<1>4. Counted
  BY <1>1, FS_EmptySet, HttpAssumption DEF Init, Counted
<1>5. NobodyForgotten /\ Placed /\ HandlerOK
  BY <1>1, HttpAssumption DEF Init, NobodyForgotten, Waiting, Placed, HandlerOK
<1>6. Sound(Snapshot)
  <2>1. Covered(inv, hold)
    BY DEF Init, Covered, NotCreated, OpenStatus
  <2>2. Active(hold) = {}
    BY DEF Init, Active
  <2>3. spent + ReservedUsd(hold) <= Limit + unforeseen
    BY <2>2, FS_EmptySet, BudgetAssumption DEF Init, ReservedUsd
  <2> QED BY <2>1, <2>3 DEF Sound, Snapshot, WithinLimit
<1> QED BY <1>3, <1>4, <1>5, <1>6 DEF Init, IInv

LEMMA StutterKeeps ==
  ASSUME IInv, UNCHANGED vars PROVE IInv'
BY DEF vars, IInv, TypeOK, Snapshot, Counted, InFlight, At, NobodyForgotten, Waiting,
       HasCapacity, Placed, HandlerOK, Sound, Covered

LEMMA StepInv == IInv /\ [Next]_vars => IInv'
<1> SUFFICES ASSUME IInv, [Next]_vars PROVE IInv'
  OBVIOUS
<1>1. CASE UNCHANGED vars
  BY <1>1, StutterKeeps
<1>2. CASE Unlink \/ Reconcile \/ Flush \/ Crash
  BY <1>2, UnlinkKeeps, ReconcileKeeps, FlushKeeps, CrashKeeps
<1>3. ASSUME NEW i \in Invocation, UserStep(i) PROVE IInv'
  BY <1>3, CreateKeeps, DecisionKeeps, CancelKeeps DEF UserStep
<1>4. ASSUME NEW i \in Invocation, CallStep(i) PROVE IInv'
  BY <1>4, StartKeeps, SettleKeeps, TimeoutKeeps DEF CallStep
<1>5. ASSUME NEW i \in Invocation, Reclaim(i) \/ CrashAfterHold(i) PROVE IInv'
  BY <1>5, ReclaimKeeps, CrashAfterHoldKeeps
<1> QED BY <1>1, <1>2, <1>3, <1>4, <1>5 DEF Next

LEMMA IInvAlways == Spec => []IInv
<1>1. Init => IInv
  BY InitInv
<1> QED BY <1>1, StepInv, PTL DEF Spec

\* The records, the holds, the ledger, the slots and the queue of the server's own
\* HTTP requests keep their types.
THEOREM HttpTypeOK == Spec => []TypeOK
<1>1. IInv => TypeOK
  BY DEF IInv
<1> QED BY <1>1, IInvAlways, PTL

\* The counters of requests in flight are exact and within the two limits, and
\* nobody waits for a slot that is free (direct-http.mjs:48-102).
THEOREM HttpCapacityKept == Spec => []CapacityKept
<1>1. IInv => CapacityKept
  BY DEF IInv, CapacityKept, Counted, NobodyForgotten, At
<1> QED BY <1>1, IInvAlways, PTL

\* In memory and in the store, the spend and the holds exceed the limit by no more
\* than what agents charged beyond their holds, and an open run is covered by its
\* hold whatever else releases holds (m3.mjs:1594-1600, 1729-1763).
THEOREM HttpBudgetKept == Spec => []BudgetKept
<1>1. IInv => BudgetKept
  <2>1. SUFFICES ASSUME IInv PROVE BudgetKept
    OBVIOUS
  <2>2. ASSUME NEW i \in InFlight, ~IsTerminal(inv[i]) PROVE hold[i] = "active"
    <3>1. inv[i].status # "none"
      BY <2>1 DEF IInv, Placed
    <3>2. inv[i].status \in OpenStatus /\ i \in Invocation
      BY <2>1, <2>2, <3>1, IInvTyped DEF IsTerminal, InvocationRecord, InFlight
    <3> QED BY <2>1, <3>2, IInvTyped DEF Covered
  <2>3. WithinLimit(spent, hold, unforeseen) /\ WithinLimit(store.spent, store.hold, store.unforeseen)
    BY <2>1 DEF IInv, Sound, Snapshot
  <2> QED BY <2>2, <2>3 DEF BudgetKept
<1> QED BY <1>1, IInvAlways, PTL

-----------------------------------------------------------------------------
(* Nobody waits in vain.                                                    *)

Going == {"queued", "running", "cancelling"}

\* What marks an invocation as going on, and what keeps it going.
RunOK(i) ==
    /\ i \in scheduled => call[i] # "none" \/ place[i] # 0
    /\ place[i] # 0 => inv[i].status = "queued" \/ IsTerminal(inv[i])
    /\ call[i] # "none" => inv[i].status \in {"running", "cancelling"} \/ IsTerminal(inv[i])
    /\ handler = i => inv[i].status = "running" /\ i \notin scheduled
    /\ crashes = 0 /\ inv[i].status \in Going => handler = i \/ i \in scheduled

RunsOK == \A i \in Invocation : RunOK(i)

\* What a step that starts, settles and restarts nothing makes of a record.
MovesOn(i) ==
    \/ inv'[i].status = inv[i].status /\ (handler' = i <=> handler = i)
    \/ handler # i /\ handler' # i /\ IsTerminal(inv'[i])
    \/ handler # i /\ handler' # i /\ inv'[i].status = "waiting_for_local_approval"
       /\ place[i] = 0 /\ call[i] = "none"
    \/ handler # i /\ handler' # i /\ inv[i].status = "running" /\ inv'[i].status = "cancelling"
    \/ /\ inv[i].status \in {"none", "waiting_for_local_approval"}
       /\ inv'[i].status = "running" /\ handler' = i /\ i \notin scheduled

LEMMA MovesKeep ==
  ASSUME RunsOK, NEW i \in Invocation, MovesOn(i),
         UNCHANGED <<place, scheduled, crashes>>, (call'[i] = "none") <=> (call[i] = "none")
  PROVE  RunOK(i)'
<1>1. RunOK(i)
  BY DEF RunsOK
<1>2. CASE inv'[i].status = inv[i].status /\ (handler' = i <=> handler = i)
  BY <1>1, <1>2 DEF RunOK, IsTerminal
<1>3. CASE handler # i /\ handler' # i /\ IsTerminal(inv'[i])
  BY <1>1, <1>3 DEF RunOK, IsTerminal, TerminalStatus, Going
<1>4. CASE handler # i /\ handler' # i /\ inv'[i].status = "waiting_for_local_approval"
           /\ place[i] = 0 /\ call[i] = "none"
  BY <1>1, <1>4 DEF RunOK, Going
<1>5. CASE handler # i /\ handler' # i /\ inv[i].status = "running"
           /\ inv'[i].status = "cancelling"
  BY <1>1, <1>5 DEF RunOK, IsTerminal, TerminalStatus, Going
<1>6. CASE /\ inv[i].status \in {"none", "waiting_for_local_approval"}
           /\ inv'[i].status = "running" /\ handler' = i /\ i \notin scheduled
  BY <1>1, <1>6 DEF RunOK, IsTerminal, TerminalStatus, Going
<1> QED BY <1>2, <1>3, <1>4, <1>5, <1>6 DEF MovesOn

\* What was never accepted, or waits for its approval, is not scheduled.
LEMMA NotYetScheduled ==
  ASSUME RunsOK, IInv, NEW i \in Invocation,
         inv[i].status \in {"none", "waiting_for_local_approval"}
  PROVE  i \notin scheduled /\ place[i] = 0 /\ call[i] = "none"
<1>1. RunOK(i)
  BY DEF RunsOK
<1>2. ~IsTerminal(inv[i])
  BY DEF IsTerminal, TerminalStatus
<1> QED BY <1>1, <1>2 DEF RunOK

\* All records of a step but one stay.
LEMMA OneMovesOn ==
  ASSUME IInv, RunsOK, NEW i \in Invocation, NEW v \in InvocationRecord,
         inv' = [inv EXCEPT ![i] = v], MovesOn(i), handler = NoHandler,
         handler' \in {NoHandler, i}, UNCHANGED <<place, scheduled, crashes>>,
         \A j \in Invocation : (call'[j] = "none") <=> (call[j] = "none")
  PROVE  RunsOK'
<1>1. ASSUME NEW j \in Invocation, j # i PROVE MovesOn(j)
  <2>1. inv'[j] = inv[j]
    BY <1>1, IInvTyped
  <2> QED BY <1>1, <2>1, HttpAssumption DEF MovesOn
<1>2. \A j \in Invocation : RunOK(j)'
  BY <1>1, MovesKeep
<1> QED BY <1>2 DEF RunsOK

LEMMA RecordRuns ==
  ASSUME IInv, RunsOK, NEW i \in Invocation,
         Create(i) \/ Approve(i) \/ Deny(i) \/ Cancel(i) \/ Reclaim(i)
  PROVE  RunsOK'
<1>0. /\ inv \in [Invocation -> InvocationRecord] /\ inv[i] \in InvocationRecord
      /\ i # NoHandler
  BY IInvTyped, HttpAssumption
<1>1. CASE Create(i)
  <2>1. /\ handler = NoHandler /\ inv[i].status = "none" /\ UNCHANGED <<place, scheduled, crashes, call>>
    BY <1>1 DEF Create, runtime
  <2>2. i \notin scheduled /\ place[i] = 0 /\ call[i] = "none"
    BY <2>1, NotYetScheduled
  <2>3. PICK v : /\ inv' = [inv EXCEPT ![i] = v]
                 /\ \/ v = [inv[i] EXCEPT !.status = "rejected"] /\ handler' = handler
                    \/ v = Decided(inv[i], "waiting_for_local_approval", "pending") /\ handler' = handler
                    \/ v = [inv[i] EXCEPT !.status = "running"] /\ handler' = i
    BY <1>1 DEF Create
  <2>4. /\ v \in InvocationRecord
        /\ \/ v.status = "rejected" /\ handler' = handler
           \/ v.status = "waiting_for_local_approval" /\ handler' = handler
           \/ v.status = "running" /\ handler' = i
    BY <1>0, <2>3 DEF InvocationRecord, Decided, OpenStatus, TerminalStatus
  <2>5. inv'[i] = v
    BY <1>0, <2>3
  <2>6. MovesOn(i)
    BY <1>0, <2>1, <2>2, <2>4, <2>5 DEF MovesOn, IsTerminal, TerminalStatus
  <2> QED BY <2>1, <2>3, <2>4, <2>6, OneMovesOn
<1>2. CASE Approve(i)
  <2> DEFINE v == Decided(inv[i], "running", "approved")
  <2>1. /\ handler = NoHandler /\ inv[i].status = "waiting_for_local_approval" /\ handler' = i
        /\ UNCHANGED <<place, scheduled, crashes, call>> /\ inv' = [inv EXCEPT ![i] = v]
    BY <1>2 DEF Approve, AwaitsDecision, runtime
  <2>2. i \notin scheduled
    BY <2>1, NotYetScheduled
  <2>3. v \in InvocationRecord /\ v.status = "running"
    BY <1>0 DEF InvocationRecord, Decided, OpenStatus
  <2> HIDE DEF v
  <2>4. MovesOn(i)
    BY <1>0, <2>1, <2>2, <2>3 DEF MovesOn
  <2> QED BY <2>1, <2>3, <2>4, OneMovesOn
<1>3. CASE Deny(i)
  <2> DEFINE v == Decided(inv[i], "rejected", "denied")
  <2>1. /\ handler = NoHandler /\ handler' = handler
        /\ UNCHANGED <<place, scheduled, crashes, call>> /\ inv' = [inv EXCEPT ![i] = v]
    BY <1>3 DEF Deny, AwaitsDecision, runtime
  <2>2. v \in InvocationRecord /\ IsTerminal(v)
    BY <1>0 DEF InvocationRecord, Decided, IsTerminal, TerminalStatus
  <2> HIDE DEF v
  <2>3. MovesOn(i)
    BY <1>0, <2>1, <2>2 DEF MovesOn
  <2> QED BY <2>1, <2>2, <2>3, OneMovesOn
<1>4. CASE Cancel(i)
  <2>1. /\ handler = NoHandler /\ handler' = handler /\ inv[i].status \in OpenStatus
        /\ UNCHANGED <<place, scheduled, crashes>>
    BY <1>4 DEF Cancel
  <2>2. \A j \in Invocation : (call'[j] = "none") <=> (call[j] = "none")
    BY <1>4, IInvTyped DEF Cancel
  <2>3. PICK v : /\ inv' = [inv EXCEPT ![i] = v]
                 /\ \/ v = QueuedCancelled(inv[i])
                    \/ ~IsQueued(inv[i]) /\ v = [inv[i] EXCEPT !.status = "cancelling"]
    BY <1>4 DEF Cancel
  <2>4. /\ v \in InvocationRecord
        /\ \/ IsTerminal(v)
           \/ inv[i].status \in {"running", "cancelling"} /\ v.status = "cancelling"
    <3>1. CASE v = QueuedCancelled(inv[i])
      BY <1>0, <3>1, RecordOps DEF IsTerminal, TerminalStatus
    <3>2. CASE ~IsQueued(inv[i]) /\ v = [inv[i] EXCEPT !.status = "cancelling"]
      BY <1>0, <2>1, <3>2 DEF IsQueued, OpenStatus, InvocationRecord
    <3> QED BY <2>3, <3>1, <3>2
  <2>5. MovesOn(i)
    BY <1>0, <2>1, <2>3, <2>4 DEF MovesOn
  <2> QED BY <2>1, <2>2, <2>3, <2>4, <2>5, OneMovesOn
<1>5. CASE Reclaim(i)
  <2> DEFINE v == Completed(inv[i], "cancelled", 0)
  <2>1. /\ handler = NoHandler /\ handler' = handler
        /\ UNCHANGED <<place, scheduled, crashes, call>> /\ inv' = [inv EXCEPT ![i] = v]
    BY <1>5 DEF Reclaim, runtime
  <2>2. v \in InvocationRecord /\ IsTerminal(v)
    BY <1>0, RecordOps DEF TerminalStatus
  <2> HIDE DEF v
  <2>3. MovesOn(i)
    BY <1>0, <2>1, <2>2 DEF MovesOn
  <2> QED BY <2>1, <2>2, <2>3, OneMovesOn
<1> QED BY <1>1, <1>2, <1>3, <1>4, <1>5

LEMMA UnlinkRuns ==
  ASSUME IInv, RunsOK, Unlink PROVE RunsOK'
<1>1. /\ handler = NoHandler /\ handler' = handler
      /\ UNCHANGED <<place, scheduled, crashes, call>>
  BY DEF Unlink, runtime
<1>2. ASSUME NEW i \in Invocation PROVE MovesOn(i)
  <2>1. /\ inv[i] \in InvocationRecord /\ i # NoHandler
        /\ inv'[i] = IF IsQueued(inv[i]) THEN QueuedCancelled(inv[i])
                     ELSE IF inv[i].status = "running"
                          THEN [inv[i] EXCEPT !.status = "cancelling"]
                     ELSE inv[i]
    BY IInvTyped, HttpAssumption DEF Unlink
  <2>2. CASE IsQueued(inv[i])
    BY <1>1, <2>1, <2>2, RecordOps DEF MovesOn, IsTerminal, TerminalStatus
  <2>3. CASE ~IsQueued(inv[i]) /\ inv[i].status = "running"
    <3>1. inv'[i].status = "cancelling"
      BY <2>1, <2>3 DEF InvocationRecord
    <3> QED BY <1>1, <2>1, <2>3, <3>1 DEF MovesOn
  <2>4. CASE ~IsQueued(inv[i]) /\ inv[i].status # "running"
    BY <1>1, <2>1, <2>4 DEF MovesOn
  <2> QED BY <2>2, <2>3, <2>4
<1>3. \A i \in Invocation : RunOK(i)'
  BY <1>1, <1>2, MovesKeep
<1> QED BY <1>3 DEF RunsOK

LEMMA BackgroundRuns ==
  ASSUME IInv, RunsOK,
         Reconcile \/ Flush \/ UNCHANGED vars \/ \E i \in Invocation : Timeout(i)
  PROVE  RunsOK'
<1>1. /\ UNCHANGED <<inv, handler, place, scheduled, crashes>>
      /\ \A j \in Invocation : (call'[j] = "none") <=> (call[j] = "none")
  BY IInvTyped DEF Reconcile, Flush, vars, runtime, Timeout
<1>2. \A i \in Invocation : RunOK(i)'
  BY <1>1, MovesKeep DEF MovesOn
<1> QED BY <1>2 DEF RunsOK

LEMMA RestartRuns ==
  ASSUME IInv, NEW stored, RestartFrom(stored) PROVE RunsOK'
BY HttpAssumption DEF IInv, TypeOK, RestartFrom, RunsOK, RunOK

LEMMA StartRuns ==
  ASSUME IInv, RunsOK, NEW i \in Invocation, Start(i) PROVE RunsOK'
<1>1. /\ handler = i /\ handler' = NoHandler /\ scheduled' = scheduled \cup {i}
      /\ UNCHANGED crashes /\ i # NoHandler
      /\ inv \in [Invocation -> InvocationRecord] /\ inv[i] \in InvocationRecord
      /\ call \in [Invocation -> CallState] /\ place \in [Invocation -> Nat]
  BY IInvTyped, HttpAssumption DEF Start, IInv, TypeOK
<1>2. call[i] = "none" /\ place[i] = 0
  BY DEF IInv, Placed, Start, InFlight
<1>3. ASSUME NEW j \in Invocation, j # i PROVE RunOK(j)'
  <2>1. inv'[j] = inv[j] /\ call'[j] = call[j] /\ place'[j] = place[j]
    BY <1>1, <1>3 DEF Start, Launch, Park
  <2>2. RunOK(j)
    BY DEF RunsOK
  <2> QED BY <1>1, <1>3, <2>1, <2>2, HttpAssumption DEF RunOK, IsTerminal
<1>4. RunOK(i)'
  <2>1. CASE Launch(i)
    <3>1. inv'[i].status = "running" /\ call'[i] = "live" /\ place'[i] = 0
      BY <1>1, <1>2, <2>1 DEF Launch, InvocationRecord
    <3> QED BY <1>1, <3>1 DEF RunOK
  <2>2. CASE Park(i)
    <3>1. PICK k \in Invocation : place' = [place EXCEPT ![i] = place[k] + 1]
      BY <2>2 DEF Park
    <3>2. place'[i] # 0 /\ inv'[i].status = "queued" /\ call'[i] = "none"
      BY <1>1, <1>2, <2>2, <3>1 DEF Park, InvocationRecord
    <3> QED BY <1>1, <3>2 DEF RunOK
  <2> QED BY <2>1, <2>2 DEF Start
<1> QED BY <1>3, <1>4 DEF RunsOK

LEMMA SettleRuns ==
  ASSUME IInv, RunsOK, NEW i \in Invocation, Settle(i) PROVE RunsOK'
<1>1. /\ inv \in [Invocation -> InvocationRecord] /\ inv[i] \in InvocationRecord
      /\ call \in [Invocation -> CallState] /\ i \in InFlight /\ place[i] = 0 /\ Placed
  BY IInvTyped DEF IInv, Placed, Settle, InFlight
<1>2. PICK status \in Ending(call[i]), cost \in {0} \cup Cost, L \in SUBSET Invocation :
          GiveBack(i, [inv EXCEPT ![i] = Completed(@, status, cost)], L)
  BY DEF Settle
<1> DEFINE R == [inv EXCEPT ![i] = Completed(@, status, cost)]
           D == {j \in Invocation : place[j] # 0 /\ IsTerminal(R[j])}
<1>3. status \in TerminalStatus /\ cost \in Nat
  <2>1. call[i] \in {"live", "aborted", "expired"}
    BY <1>1, IInvTyped DEF InFlight, CallState
  <2> QED BY <2>1, HttpAssumption DEF Ending, TerminalStatus
<1>4. /\ IsTerminal(R[i]) /\ \A j \in Invocation : R[j] \in InvocationRecord
      /\ \A j \in Invocation \ {i} : R[j] = inv[j]
  BY <1>1, <1>3, RecordOps
<1>5. UNCHANGED <<handler, crashes>> /\ handler = NoHandler
  BY DEF Settle
<1>6. /\ \A j \in L : place[j] # 0 /\ ~IsTerminal(R[j])
      /\ inv' = [j \in Invocation |->
                   IF j \in L THEN [R[j] EXCEPT !.status = "running"] ELSE R[j]]
      /\ call' = [j \in Invocation |-> IF j \in L THEN "live"
                                       ELSE IF j = i THEN "none" ELSE call[j]]
      /\ place' = [j \in Invocation |-> IF j \in L \cup D THEN 0 ELSE place[j]]
      /\ scheduled' = scheduled \ ({i} \cup D)
  BY <1>2 DEF GiveBack, Drained, Waiting
<1>7. D = {j \in Invocation : place[j] # 0 /\ IsTerminal(R[j])}
  OBVIOUS
<1> HIDE DEF R, D
<1>8. ASSUME NEW j \in Invocation PROVE RunOK(j)'
  <2>0. RunOK(j) /\ R[j] \in InvocationRecord
    BY <1>4 DEF RunsOK
  <2>1. CASE j \in L
    <3>1. inv'[j].status = "running" /\ call'[j] = "live" /\ place'[j] = 0
      BY <1>6, <2>0, <2>1 DEF InvocationRecord
    <3>2. j \in scheduled' /\ j # i
      BY <1>1, <1>6, <1>7, <2>1 DEF Placed
    <3> QED BY <1>5, <3>1, <3>2, HttpAssumption DEF RunOK
  <2>2. CASE j = i /\ j \notin L
    <3>1. inv'[j] = R[j] /\ call'[j] = "none" /\ place'[j] = 0 /\ j \notin scheduled'
      BY <1>1, <1>6, <2>2
    <3> QED BY <1>4, <1>5, <2>2, <3>1, HttpAssumption
            DEF RunOK, IsTerminal, TerminalStatus, Going
  <2>3. CASE j # i /\ j \notin L /\ j \in D
    <3>1. inv'[j] = R[j] /\ place'[j] = 0 /\ j \notin scheduled' /\ IsTerminal(R[j])
      BY <1>6, <1>7, <2>3
    <3> QED BY <1>5, <3>1, HttpAssumption DEF RunOK, IsTerminal, TerminalStatus, Going
  <2>4. CASE j # i /\ j \notin L /\ j \notin D
    <3>1. /\ inv'[j] = inv[j] /\ call'[j] = call[j] /\ place'[j] = place[j]
          /\ j \in scheduled' <=> j \in scheduled
      BY <1>4, <1>6, <2>4
    <3> QED BY <1>5, <2>0, <3>1 DEF RunOK, IsTerminal
  <2> QED BY <2>1, <2>2, <2>3, <2>4
<1> QED BY <1>8 DEF RunsOK

LEMMA NextRuns ==
  ASSUME IInv, RunsOK, [Next]_vars PROVE RunsOK'
<1>1. CASE Unlink
  BY <1>1, UnlinkRuns
<1>2. CASE Reconcile \/ Flush \/ UNCHANGED vars \/ \E i \in Invocation : Timeout(i)
  BY <1>2, BackgroundRuns
<1>3. CASE Crash \/ \E i \in Invocation : CrashAfterHold(i)
  BY <1>3, RestartRuns DEF Crash, CrashAfterHold
<1>4. ASSUME NEW i \in Invocation, UserStep(i) \/ Reclaim(i) PROVE RunsOK'
  BY <1>4, RecordRuns DEF UserStep
<1>5. ASSUME NEW i \in Invocation, Start(i) \/ Settle(i) PROVE RunsOK'
  BY <1>5, StartRuns, SettleRuns
<1> QED BY <1>1, <1>2, <1>3, <1>4, <1>5 DEF Next, CallStep

LEMMA SomebodyAhead ==
  ASSUME IInv, NEW i \in Waiting(inv) PROVE InFlight # {}
<1>1. SUFFICES ASSUME InFlight = {} PROVE FALSE
  OBVIOUS
<1>2. AgentOf[i] \in Agent /\ MaxConcurrency \in Nat \ {0} /\ PerAgentMaxConcurrency \in Nat \ {0}
  BY HttpAssumption DEF Waiting
<1>3. At(AgentOf[i]) = {}
  BY <1>1 DEF At
<1>4. activeCount = 0 /\ activeByAgent[AgentOf[i]] = 0
  BY <1>1, <1>2, <1>3, FS_EmptySet DEF IInv, Counted
<1> QED BY <1>2, <1>4 DEF IInv, NobodyForgotten, HasCapacity

\* What is scheduled has a request or a place in a queue that moves, the start that a
\* commit announced is not refused, and only a restart leaves a run on record that has
\* neither (direct-http.mjs:25-102, creation.mjs:465-469).
THEOREM HttpNobodyWaitsInVain == Spec => []NobodyWaitsInVain
<1>1. Init => IInv /\ RunsOK
  <2>1. SUFFICES ASSUME Init PROVE RunsOK
    BY InitInv
  <2> QED BY <2>1, HttpAssumption DEF Init, RunsOK, RunOK, NotCreated, Going
<1>2. IInv /\ RunsOK /\ [Next]_vars => IInv' /\ RunsOK'
  BY StepInv, NextRuns
<1>3. IInv /\ RunsOK => NobodyWaitsInVain
  <2>1. SUFFICES ASSUME IInv, RunsOK PROVE NobodyWaitsInVain
    OBVIOUS
  <2>2. scheduled \subseteq Invocation
    BY <2>1 DEF IInv, TypeOK
  <2>3. ASSUME NEW i \in scheduled PROVE TakenUp(i)
    <3>1. RunOK(i) /\ i \in Invocation
      BY <2>1, <2>2 DEF RunsOK
    <3>2. place[i] # 0 /\ ~IsTerminal(inv[i]) => InFlight # {}
      BY <2>1, <3>1, SomebodyAhead DEF Waiting
    <3> QED BY <3>1, <3>2 DEF RunOK, TakenUp
  <2>4. ASSUME NEW i \in Invocation, handler = i
        PROVE  ~IsTerminal(inv[i]) /\ i \notin scheduled
    BY <2>1, <2>4 DEF RunsOK, RunOK, IsTerminal, TerminalStatus
  <2>5. ASSUME NEW i \in Invocation, crashes = 0,
               inv[i].status \in {"queued", "running", "cancelling"}
        PROVE  handler = i \/ i \in scheduled
    BY <2>1, <2>5 DEF RunsOK, RunOK, Going
  <2> QED BY <2>3, <2>4, <2>5 DEF NobodyWaitsInVain
<1> QED BY <1>1, <1>2, <1>3, PTL DEF Spec

-----------------------------------------------------------------------------
(* DirectHttp implements RunOnce.  The promise is about the store, the     *)
(* steps are those of the memory.  The argument: the store may lag behind, *)
(* but it never differs from the memory in what was permitted or charged,  *)
(* and what it says is over is over in memory with the same outcome; so    *)
(* each step is a step of the promise whether or not it commits, and a     *)
(* restart takes nothing back that the promise has counted.                *)

Permitted(v) == v.status \notin {"none", "rejected"} /\ v.approval \in {"none", "approved"}

\* What the record v in memory may have become since w was stored.
Linked(v, w) ==
    /\ Permitted(w) <=> Permitted(v)
    /\ w.charges = v.charges
    /\ IsTerminal(w) => v.status = w.status

Fresh(v) == v.status = "none" => v.approval = "none"

PermitInv ==
    \A i \in Invocation :
        /\ Linked(inv[i], store.inv[i]) /\ Fresh(inv[i]) /\ Fresh(store.inv[i])
        /\ requests[i] > 0 \/ place[i] # 0 \/ handler = i => Permitted(inv[i])
        /\ call[i] # "none" => requests[i] > 0

\* A record moves on without a new permit or a charge.
Keep(v, m) ==
    /\ Permitted(m) <=> Permitted(v)
    /\ m.charges = v.charges
    /\ IsTerminal(v) => m.status = v.status
    /\ Fresh(v) => Fresh(m)

SameCharges(i) == store'.inv[i].charges = store.inv[i].charges

\* What the step is in RunOnce, for one invocation.
PStep(i) ==
    \/ OutcomeOf(i)' = OutcomeOf(i) /\ PermitOf(i)' = PermitOf(i) /\ SameCharges(i)
    \/ /\ OutcomeOf(i) = "open" /\ OutcomeOf(i)' = "open" /\ SameCharges(i)
       /\ \/ PermitOf(i) = "none" /\ PermitOf(i)' = "issued"
          \/ PermitOf(i) = "issued" /\ PermitOf(i)' = "used"
    \/ /\ OutcomeOf(i) = "open" /\ OutcomeOf(i)' \in TerminalStatus
       /\ PermitOf(i)' = PermitOf(i)
       /\ \/ SameCharges(i)
          \/ PermitOf(i) = "used" /\ store'.inv[i].charges = store.inv[i].charges + 1

Refines == PermitInv' /\ \A i \in Invocation : PStep(i)

-----------------------------------------------------------------------------
(* One invocation.                                                         *)

\* Its record stays what it is in the store.
LEMMA NotStored ==
  ASSUME NEW i \in Invocation, store'.inv[i] = store.inv[i], requests'[i] = requests[i]
  PROVE  PStep(i)
BY DEF PStep, OutcomeOf, PermitOf, SameCharges, IsTerminal

\* Its record is stored as it was in memory, or as it moved on.
LEMMA StoredAs ==
  ASSUME TypeOK, PermitInv, NEW i \in Invocation, requests'[i] = requests[i],
         Keep(inv[i], store'.inv[i])
  PROVE  PStep(i)
<1> DEFINE v == inv[i]  w == store.inv[i]  m == store'.inv[i]
<1>1. /\ Permitted(m) <=> Permitted(w)
      /\ m.charges = w.charges
      /\ IsTerminal(w) => m.status = w.status
  BY DEF PermitInv, Linked, Keep, IsTerminal
<1>2. PermitOf(i)' = PermitOf(i)
  BY <1>1 DEF PermitOf, Permitted
<1>3. CASE IsTerminal(w)
  BY <1>1, <1>2, <1>3 DEF PStep, OutcomeOf, SameCharges, IsTerminal
<1>4. CASE ~IsTerminal(w)
  BY <1>1, <1>2, <1>4 DEF PStep, OutcomeOf, SameCharges, IsTerminal
<1> QED BY <1>3, <1>4

LEMMA KeepSame == \A v : Keep(v, v)
BY DEF Keep

\* The step of the invocations whose record moves on without a permit.
LEMMA KeepStep ==
  ASSUME TypeOK, PermitInv, \A i \in Invocation : Keep(inv[i], inv'[i]),
         store'.inv = store.inv \/ store'.inv = inv', requests' = requests,
         \A i \in Invocation : place'[i] # 0 \/ handler' = i => place[i] # 0 \/ handler = i,
         \A i \in Invocation : call'[i] # "none" => call[i] # "none"
  PROVE  Refines
<1>1. ASSUME NEW i \in Invocation PROVE PStep(i)
  BY <1>1, NotStored, StoredAs
<1>2. ASSUME NEW i \in Invocation PROVE Linked(inv'[i], store'.inv[i])
  BY DEF PermitInv, Linked, Keep, IsTerminal
<1>3. PermitInv'
  BY <1>2 DEF PermitInv, Keep, Fresh, Permitted, Linked, IsTerminal
<1> QED BY <1>1, <1>3 DEF Refines

\* The step that lets i run.
LEMMA GrantStep ==
  ASSUME TypeOK, PermitInv, NEW i \in Invocation, NEW v, inv' = [inv EXCEPT ![i] = v],
         ~Permitted(inv[i]), Permitted(v), v.charges = inv[i].charges,
         ~IsTerminal(inv[i]), ~IsTerminal(v),
         store'.inv = inv', UNCHANGED <<requests, place, call>>, handler' \in {handler, i}
  PROVE  Refines
<1>1. inv \in [Invocation -> InvocationRecord]
  BY Typed
<1>2. inv'[i] = v /\ \A j \in Invocation \ {i} : inv'[j] = inv[j]
  BY <1>1
<1>3. PStep(i)
  <2>1. ~IsTerminal(store.inv[i]) /\ ~Permitted(store.inv[i]) /\ v.charges = store.inv[i].charges
    BY DEF PermitInv, Linked, IsTerminal
  <2>2. requests[i] = 0
    BY DEF PermitInv, TypeOK
  <2>3. OutcomeOf(i) = "open" /\ PermitOf(i) = "none"
    BY <2>1, <2>2 DEF OutcomeOf, PermitOf, Permitted
  <2>4. OutcomeOf(i)' = "open" /\ PermitOf(i)' = "issued"
    BY <1>2, <2>2 DEF OutcomeOf, PermitOf, Permitted, IsTerminal
  <2> QED BY <1>2, <2>1, <2>3, <2>4 DEF PStep, SameCharges
<1>4. ASSUME NEW j \in Invocation \ {i} PROVE PStep(j)
  BY <1>2, KeepSame, StoredAs
<1>5. PermitInv'
  BY <1>2 DEF PermitInv, Linked, Fresh, Permitted
<1> QED BY <1>3, <1>4, <1>5 DEF Refines

\* A request is sent for i: its record, stored or not, still says it is open.
LEMMA UseStep ==
  ASSUME TypeOK, PermitInv, NEW i \in Invocation, requests'[i] = requests[i] + 1,
         ~IsTerminal(inv[i]), Permitted(inv[i]),
         store'.inv[i] \in {store.inv[i], inv[i]}
  PROVE  PStep(i)
<1>1. /\ ~IsTerminal(store.inv[i]) /\ Permitted(store.inv[i])
      /\ store.inv[i].charges = inv[i].charges /\ requests[i] \in Nat
  BY DEF PermitInv, Linked, IsTerminal, TypeOK
<1>2. OutcomeOf(i) = "open" /\ OutcomeOf(i)' = "open" /\ SameCharges(i)
  BY <1>1 DEF OutcomeOf, SameCharges, IsTerminal
<1>3. PermitOf(i)' = "used"
  BY <1>1 DEF PermitOf
<1>4. PermitOf(i) = "used" \/ PermitOf(i) = "issued"
  BY <1>1 DEF PermitOf, Permitted
<1> QED BY <1>2, <1>3, <1>4 DEF PStep

-----------------------------------------------------------------------------
(* The steps.                                                              *)

LEMMA SameRun ==
  ASSUME UNCHANGED runtime
  PROVE  UNCHANGED <<place, call>>
BY DEF runtime

LEMMA CommitStores ==
  ASSUME Commit
  PROVE  store'.inv = inv'
BY DEF Commit, Snapshot

LEMMA OneKeeps ==
  ASSUME inv \in [Invocation -> InvocationRecord], NEW i \in Invocation, NEW v,
         inv' = [inv EXCEPT ![i] = v], Keep(inv[i], v)
  PROVE  \A j \in Invocation : Keep(inv[j], inv'[j])
BY KeepSame

LEMMA RecordsKept ==
  ASSUME NEW v \in InvocationRecord
  PROVE  /\ v.status = "none" /\ v.approval = "none" =>
               /\ Keep(v, [v EXCEPT !.status = "rejected"])
               /\ Keep(v, Decided(v, "waiting_for_local_approval", "pending"))
         /\ v.approval = "pending" /\ v.status \in OpenStatus => Keep(v, Decided(v, "rejected", "denied"))
         /\ v.status \in OpenStatus =>
               /\ Keep(v, QueuedCancelled(v))
               /\ Keep(v, Completed(v, "cancelled", 0))
               /\ \A status \in OpenStatus : Keep(v, [v EXCEPT !.status = status])
<1> USE DEF Keep, Permitted, Fresh, IsTerminal, InvocationRecord, OpenStatus, TerminalStatus
<1>1. ASSUME v.status = "none", v.approval = "none"
      PROVE  /\ Keep(v, [v EXCEPT !.status = "rejected"])
             /\ Keep(v, Decided(v, "waiting_for_local_approval", "pending"))
  BY <1>1 DEF Decided
<1>2. ASSUME v.approval = "pending", v.status \in OpenStatus
      PROVE  Keep(v, Decided(v, "rejected", "denied"))
  BY <1>2 DEF Decided
<1>3. ASSUME v.status \in OpenStatus PROVE Keep(v, QueuedCancelled(v))
  BY <1>3 DEF QueuedCancelled
<1>4. ASSUME v.status \in OpenStatus PROVE Keep(v, Completed(v, "cancelled", 0))
  <2>1. Completed(v, "cancelled", 0) = [v EXCEPT !.status = "cancelled", !.charges = v.charges]
    BY <1>4 DEF Completed
  <2> QED BY <1>4, <2>1
<1>5. ASSUME v.status \in OpenStatus, NEW status \in OpenStatus
      PROVE  Keep(v, [v EXCEPT !.status = status])
  BY <1>5
<1> QED BY <1>1, <1>2, <1>3, <1>4, <1>5

LEMMA CreateRefines ==
  ASSUME IInv, PermitInv, NEW i \in Invocation, Create(i) PROVE Refines
<1>1. /\ TypeOK /\ inv[i] \in InvocationRecord /\ inv[i].status = "none"
      /\ inv[i].approval = "none"
  BY IInvTyped DEF IInv, PermitInv, Fresh, Create
<1>2. /\ store'.inv = inv' /\ UNCHANGED <<place, call, requests>>
  BY CommitStores, SameRun DEF Create
<1>3. CASE \E v \in {[inv[i] EXCEPT !.status = "rejected"],
                     Decided(inv[i], "waiting_for_local_approval", "pending")} :
               inv' = [inv EXCEPT ![i] = v] /\ UNCHANGED handler
  <2>1. PICK v \in {[inv[i] EXCEPT !.status = "rejected"],
                   Decided(inv[i], "waiting_for_local_approval", "pending")} :
             inv' = [inv EXCEPT ![i] = v] /\ UNCHANGED handler
    BY <1>3
  <2>2. Keep(inv[i], v)
    BY <1>1, RecordsKept
  <2>3. \A j \in Invocation : Keep(inv[j], inv'[j])
    BY <2>1, <2>2, IInvTyped, OneKeeps
  <2> QED BY <1>1, <1>2, <2>1, <2>3, KeepStep
<1>4. CASE inv' = [inv EXCEPT ![i].status = "running"] /\ handler' = i
  <2> DEFINE v == [inv[i] EXCEPT !.status = "running"]
  <2>1. inv' = [inv EXCEPT ![i] = v]
    BY <1>4
  <2>2. /\ ~Permitted(inv[i]) /\ Permitted(v) /\ v.charges = inv[i].charges
        /\ ~IsTerminal(inv[i]) /\ ~IsTerminal(v)
    BY <1>1 DEF Permitted, IsTerminal, TerminalStatus, InvocationRecord
  <2> HIDE DEF v
  <2> QED BY <1>1, <1>2, <1>4, <2>1, <2>2, GrantStep
<1> QED BY <1>3, <1>4 DEF Create

LEMMA DecisionRefines ==
  ASSUME IInv, PermitInv, NEW i \in Invocation, Approve(i) \/ Deny(i) PROVE Refines
<1>1. /\ TypeOK /\ inv[i] \in InvocationRecord /\ inv[i].status \in OpenStatus
      /\ inv[i].approval = "pending"
  BY IInvTyped DEF IInv, Approve, Deny, AwaitsDecision, OpenStatus
<1>2. /\ store'.inv = inv' /\ UNCHANGED <<place, call, requests>>
  BY CommitStores, SameRun DEF Approve, Deny
<1>3. CASE Approve(i)
  <2> DEFINE v == Decided(inv[i], "running", "approved")
  <2>1. inv' = [inv EXCEPT ![i] = v] /\ handler' = i
    BY <1>3 DEF Approve
  <2>2. /\ ~Permitted(inv[i]) /\ Permitted(v) /\ v.charges = inv[i].charges
        /\ ~IsTerminal(inv[i]) /\ ~IsTerminal(v)
    BY <1>1 DEF Permitted, IsTerminal, TerminalStatus, OpenStatus, InvocationRecord, Decided
  <2> HIDE DEF v
  <2> QED BY <1>1, <1>2, <2>1, <2>2, GrantStep
<1>4. CASE Deny(i)
  <2> DEFINE v == Decided(inv[i], "rejected", "denied")
  <2>1. inv' = [inv EXCEPT ![i] = v] /\ UNCHANGED handler
    BY <1>4 DEF Deny
  <2>2. Keep(inv[i], v)
    BY <1>1, RecordsKept
  <2> HIDE DEF v
  <2>3. \A j \in Invocation : Keep(inv[j], inv'[j])
    BY <2>1, <2>2, IInvTyped, OneKeeps
  <2> QED BY <1>1, <1>2, <2>1, <2>3, KeepStep
<1> QED BY <1>3, <1>4

LEMMA CancelRefines ==
  ASSUME IInv, PermitInv, NEW i \in Invocation, Cancel(i) PROVE Refines
<1>1. TypeOK /\ inv[i] \in InvocationRecord /\ inv[i].status \in OpenStatus
  BY IInvTyped DEF IInv, Cancel
<1>2. /\ UNCHANGED <<store, place, requests, handler>>
      /\ \A j \in Invocation : call'[j] # "none" => call[j] # "none"
  BY IInvTyped DEF Cancel
<1>3. PICK v \in {QueuedCancelled(inv[i]), [inv[i] EXCEPT !.status = "cancelling"]} :
          inv' = [inv EXCEPT ![i] = v]
  BY DEF Cancel
<1>4. Keep(inv[i], v)
  <2>1. "cancelling" \in OpenStatus
    BY DEF OpenStatus
  <2> QED BY <1>1, <2>1, RecordsKept
<1>5. \A j \in Invocation : Keep(inv[j], inv'[j])
  BY <1>3, <1>4, IInvTyped, OneKeeps
<1> QED BY <1>1, <1>2, <1>5, KeepStep

LEMMA UnlinkRefines ==
  ASSUME IInv, PermitInv, Unlink PROVE Refines
<1>1. ASSUME NEW i \in Invocation PROVE Keep(inv[i], inv'[i])
  <2>1. inv[i] \in InvocationRecord
    BY IInvTyped
  <2>2. inv'[i] \in {QueuedCancelled(inv[i]), [inv[i] EXCEPT !.status = "cancelling"], inv[i]}
        /\ (inv'[i] # inv[i] => inv[i].status \in OpenStatus)
    BY DEF Unlink, IsQueued, OpenStatus
  <2>3. "cancelling" \in OpenStatus
    BY DEF OpenStatus
  <2> QED BY <2>1, <2>2, <2>3, RecordsKept, KeepSame
<1>2. UNCHANGED <<store, place, call, requests, handler>> /\ TypeOK
  BY SameRun DEF Unlink, IInv
<1> QED BY <1>1, <1>2, KeepStep

LEMMA ReclaimRefines ==
  ASSUME IInv, PermitInv, NEW i \in Invocation, Reclaim(i) PROVE Refines
<1> DEFINE v == Completed(inv[i], "cancelled", 0)
<1>1. TypeOK /\ inv[i] \in InvocationRecord /\ inv[i].status \in OpenStatus
  BY IInvTyped DEF IInv, Reclaim, OpenStatus
<1>2. inv' = [inv EXCEPT ![i] = v] /\ Keep(inv[i], v)
  BY <1>1, RecordsKept DEF Reclaim
<1>3. store'.inv = inv'
  <2>1. Settled(i, inv', 0) /\ ~IsTerminal(inv[i])
    BY <1>1 DEF Reclaim, IsTerminal, OpenStatus, TerminalStatus
  <2>2. store' = [inv |-> inv', hold |-> hold', spent |-> spent', unforeseen |-> unforeseen']
    BY <2>1 DEF Settled
  <2> QED BY <2>2
<1>4. UNCHANGED <<place, call, requests, handler>>
  BY SameRun DEF Reclaim
<1> HIDE DEF v
<1>5. \A j \in Invocation : Keep(inv[j], inv'[j])
  BY <1>2, IInvTyped, OneKeeps
<1> QED BY <1>1, <1>3, <1>4, <1>5, KeepStep

LEMMA BackgroundRefines ==
  ASSUME IInv, PermitInv,
         Reconcile \/ Flush \/ (\E i \in Invocation : Timeout(i))
  PROVE  Refines
<1>1. TypeOK /\ UNCHANGED <<inv, place, requests, handler>>
  BY SameRun DEF IInv, Reconcile, Flush, Timeout
<1>2. store'.inv = store.inv \/ store'.inv = inv'
  BY CommitStores DEF Reconcile, Flush, Timeout
<1>3. \A j \in Invocation : call'[j] # "none" => call[j] # "none"
  BY SameRun, IInvTyped DEF Reconcile, Flush, Timeout
<1> QED BY <1>1, <1>2, <1>3, KeepSame, KeepStep

LEMMA RestartRefines ==
  ASSUME IInv, PermitInv, NEW stored, RestartFrom(stored),
         stored.inv = store.inv \/ stored.inv = inv
  PROVE  Refines
<1>1. /\ TypeOK /\ store'.inv = stored.inv /\ inv' = stored.inv /\ requests' = requests
      /\ place' = [i \in Invocation |-> 0] /\ call' = [i \in Invocation |-> "none"]
      /\ handler' = NoHandler
  BY DEF RestartFrom, IInv
<1>2. ASSUME NEW i \in Invocation PROVE PStep(i)
  BY <1>1, NotStored, StoredAs, KeepSame
<1>3. PermitInv'
  BY <1>1, HttpAssumption DEF PermitInv, Linked
<1> QED BY <1>2, <1>3 DEF Refines

LEMMA StartRefines ==
  ASSUME IInv, PermitInv, NEW i \in Invocation, Start(i) PROVE Refines
<1>1. /\ TypeOK /\ inv[i] \in InvocationRecord /\ ~IsTerminal(inv[i])
      /\ Permitted(inv[i]) /\ inv[i].status \in OpenStatus /\ requests[i] \in Nat
  BY IInvTyped DEF IInv, PermitInv, Start, Permitted, IsTerminal, InvocationRecord, TypeOK
<1>2. store' = store /\ handler' = NoHandler
  BY DEF Start
<1>3. PICK status \in OpenStatus : inv' = [inv EXCEPT ![i].status = status]
  BY DEF Start, Launch, Park, OpenStatus
<1> DEFINE v == [inv[i] EXCEPT !.status = status]
<1>4. inv' = [inv EXCEPT ![i] = v] /\ Keep(inv[i], v)
  BY <1>1, <1>3, RecordsKept
<1> HIDE DEF v
<1>5. \A j \in Invocation : Keep(inv[j], inv'[j])
  BY <1>4, IInvTyped, OneKeeps
<1>6. CASE Park(i)
  <2>1. UNCHANGED <<requests, call>>
    BY <1>6 DEF Park
  <2>2. \A j \in Invocation : place'[j] # 0 \/ handler' = j => place[j] # 0 \/ handler = j
    BY <1>2, <1>6, HttpAssumption DEF Park, Start, IInv, TypeOK
  <2> QED BY <1>1, <1>2, <1>5, <2>1, <2>2, KeepStep
<1>7. CASE Launch(i)
  <2>1. /\ place' = place /\ requests' = [requests EXCEPT ![i] = @ + 1]
        /\ call' = [call EXCEPT ![i] = "live"]
    BY <1>7 DEF Launch
  <2>2. /\ requests'[i] = requests[i] + 1 /\ requests \in [Invocation -> Nat]
        /\ \A j \in Invocation \ {i} : requests'[j] = requests[j] /\ call'[j] = call[j]
    BY <1>1, <2>1, IInvTyped DEF TypeOK
  <2>3. PStep(i)
    BY <1>1, <1>2, <2>2, UseStep
  <2>4. ASSUME NEW j \in Invocation \ {i} PROVE PStep(j)
    BY <1>2, <2>2, NotStored
  <2>5. ASSUME NEW j \in Invocation
        PROVE  /\ Linked(inv'[j], store'.inv[j]) /\ Fresh(inv'[j]) /\ Fresh(store'.inv[j])
               /\ Permitted(inv[j]) <=> Permitted(inv'[j])
    BY <1>2, <1>5 DEF PermitInv, Linked, Keep, IsTerminal
  <2>6. ASSUME NEW j \in Invocation
        PROVE  /\ requests'[j] > 0 \/ place'[j] # 0 \/ handler' = j => Permitted(inv'[j])
               /\ call'[j] # "none" => requests'[j] > 0
    <3>1. CASE j = i
      BY <1>1, <2>2, <2>5, <3>1
    <3>2. CASE j # i
      BY <1>2, <2>1, <2>2, <2>5, <3>2, HttpAssumption DEF PermitInv
    <3> QED BY <3>1, <3>2
  <2>7. PermitInv'
    BY <2>5, <2>6 DEF PermitInv
  <2> QED BY <2>3, <2>4, <2>7 DEF Refines
<1> QED BY <1>6, <1>7 DEF Start

LEMMA SettleRefines ==
  ASSUME IInv, PermitInv, NEW i \in Invocation, Settle(i) PROVE Refines
<1>1. PICK status \in Ending(call[i]), cost \in {0} \cup Cost, L \in SUBSET Invocation :
          /\ Settled(i, [inv EXCEPT ![i] = Completed(@, status, cost)], cost)
          /\ GiveBack(i, [inv EXCEPT ![i] = Completed(@, status, cost)], L)
  BY DEF Settle
<1> DEFINE done == Completed(inv[i], status, cost)
           R == [inv EXCEPT ![i] = done]
<1>2. /\ TypeOK /\ inv \in [Invocation -> InvocationRecord] /\ call[i] # "none"
      /\ requests[i] > 0 /\ requests \in [Invocation -> Nat] /\ place[i] = 0
      /\ inv[i].status # "none" /\ handler' = handler /\ handler = NoHandler
  BY IInvTyped DEF IInv, TypeOK, Settle, PermitInv, Placed, InFlight
<1>3. Permitted(inv[i])
  BY <1>2 DEF PermitInv
<1>4. status \in TerminalStatus \ {"rejected"} /\ cost \in Nat
  <2>1. call[i] \in {"live", "aborted", "expired"}
    BY <1>2 DEF TypeOK, CallState
  <2> QED BY <2>1, HttpAssumption DEF Ending, TerminalStatus
<1>5. /\ Permitted(done) /\ Fresh(done) /\ IsTerminal(done)
      /\ IsTerminal(inv[i]) => done = inv[i]
      /\ ~IsTerminal(inv[i]) => done.charges \in {inv[i].charges, inv[i].charges + 1}
  <2> DEFINE charged == IF cost > 0 THEN inv[i].charges + 1 ELSE inv[i].charges
  <2>1. inv[i] \in InvocationRecord /\ charged \in {inv[i].charges, inv[i].charges + 1}
    BY <1>2
  <2> HIDE DEF charged
  <2>2. CASE IsTerminal(inv[i])
    BY <1>3, <2>2 DEF Completed, Fresh, IsTerminal, TerminalStatus
  <2>3. CASE ~IsTerminal(inv[i])
    <3>1. done = [inv[i] EXCEPT !.status = status, !.charges = charged]
      BY <2>3 DEF Completed, charged
    <3>2. done.status = status /\ done.approval = inv[i].approval /\ done.charges = charged
      BY <2>1, <3>1 DEF InvocationRecord
    <3> QED BY <1>3, <1>4, <2>1, <2>3, <3>2 DEF Permitted, Fresh, IsTerminal, TerminalStatus
  <2> QED BY <2>2, <2>3
<1>6. R[i] = done /\ \A j \in Invocation \ {i} : R[j] = inv[j]
  BY <1>2
<1>7. /\ inv' = [j \in Invocation |->
                   IF j \in L THEN [R[j] EXCEPT !.status = "running"] ELSE R[j]]
      /\ call' = [j \in Invocation |-> IF j \in L THEN "live"
                                       ELSE IF j = i THEN "none" ELSE call[j]]
      /\ requests' = [j \in Invocation |-> IF j \in L THEN requests[j] + 1 ELSE requests[j]]
      /\ \A j \in Invocation : place'[j] # 0 => place[j] # 0
      /\ \A j \in L : place[j] # 0 /\ ~IsTerminal(R[j])
  BY <1>1 DEF GiveBack, Drained, Waiting
<1>8. \/ IsTerminal(inv[i]) /\ store' = store
      \/ ~IsTerminal(inv[i]) /\ store'.inv = R
  <2>1. Settled(i, R, cost)
    BY <1>1
  <2> HIDE DEF R
  <2> QED BY <2>1 DEF Settled
<1> HIDE DEF R, done
<1>9. PStep(i) /\ i \notin L /\ requests'[i] = requests[i] /\ inv'[i] = done
  <2>1. i \notin L /\ requests'[i] = requests[i] /\ inv'[i] = done
    BY <1>2, <1>6, <1>7
  <2>2. CASE IsTerminal(inv[i])
    BY <1>8, <2>1, <2>2, NotStored
  <2>3. CASE ~IsTerminal(inv[i])
    <3>1. store'.inv[i] = done
      BY <1>6, <1>8, <2>3
    <3>2. /\ ~IsTerminal(store.inv[i]) /\ store.inv[i].charges = inv[i].charges
      BY <2>3 DEF PermitInv, Linked, IsTerminal
    <3>3. PermitOf(i) = "used" /\ PermitOf(i)' = "used"
      BY <1>2, <2>1 DEF PermitOf
    <3>4. OutcomeOf(i) = "open" /\ OutcomeOf(i)' \in TerminalStatus
      BY <1>5, <3>1, <3>2 DEF OutcomeOf, IsTerminal
    <3>5. SameCharges(i) \/ store'.inv[i].charges = store.inv[i].charges + 1
      BY <1>5, <2>3, <3>1, <3>2 DEF SameCharges
    <3> QED BY <2>1, <3>3, <3>4, <3>5 DEF PStep
  <2> QED BY <2>1, <2>2, <2>3
<1>10. ASSUME NEW j \in L
       PROVE  /\ PStep(j) /\ j # i /\ ~IsTerminal(inv[j]) /\ Permitted(inv[j])
              /\ requests'[j] = requests[j] + 1
              /\ inv'[j].status = "running" /\ inv'[j].approval = inv[j].approval
              /\ inv'[j].charges = inv[j].charges
  <2>1. j # i /\ R[j] = inv[j] /\ ~IsTerminal(inv[j]) /\ requests'[j] = requests[j] + 1
    BY <1>6, <1>7, <1>9
  <2>2. Permitted(inv[j])
    BY <1>7 DEF PermitInv
  <2>3. store'.inv[j] \in {store.inv[j], inv[j]}
    BY <1>8, <2>1
  <2>4. inv[j] \in InvocationRecord /\ inv'[j] = [inv[j] EXCEPT !.status = "running"]
    BY <1>2, <1>7, <2>1
  <2>5. /\ inv'[j].status = "running" /\ inv'[j].approval = inv[j].approval
        /\ inv'[j].charges = inv[j].charges
    BY <2>4 DEF InvocationRecord
  <2> QED BY <1>2, <2>1, <2>2, <2>3, <2>5, UseStep
<1>11. ASSUME NEW j \in Invocation \ (L \cup {i})
       PROVE  PStep(j) /\ inv'[j] = inv[j] /\ requests'[j] = requests[j] /\ call'[j] = call[j]
  <2>1. inv'[j] = inv[j] /\ requests'[j] = requests[j] /\ call'[j] = call[j] /\ R[j] = inv[j]
    BY <1>6, <1>7
  <2>2. store'.inv[j] \in {store.inv[j], inv[j]}
    BY <1>8, <2>1
  <2> QED BY <1>2, <2>1, <2>2, NotStored, StoredAs, KeepSame
<1>12. ASSUME NEW j \in Invocation
       PROVE  /\ Linked(inv'[j], store'.inv[j]) /\ Fresh(inv'[j]) /\ Fresh(store'.inv[j])
              /\ requests'[j] > 0 \/ place'[j] # 0 \/ handler' = j => Permitted(inv'[j])
              /\ call'[j] # "none" => requests'[j] > 0
  <2>1. CASE j = i
    <3>1. store'.inv[i] = done \/ (store'.inv[i] = store.inv[i] /\ done = inv[i])
      BY <1>5, <1>6, <1>8
    <3>2. Linked(inv'[i], store'.inv[i]) /\ Fresh(store'.inv[i])
      BY <1>5, <1>9, <3>1 DEF PermitInv, Linked
    <3>3. call'[i] = "none"
      BY <1>7, <1>9
    <3> QED BY <1>5, <1>9, <2>1, <3>2, <3>3
  <2>2. CASE j \in L
    <3>1. store'.inv[j] \in {store.inv[j], inv[j]} /\ Fresh(store'.inv[j])
      BY <1>6, <1>8, <1>10, <2>2 DEF PermitInv
    <3>2. Permitted(inv'[j]) /\ Fresh(inv'[j])
      BY <1>10, <2>2 DEF Permitted, Fresh
    <3>3. Linked(inv'[j], store'.inv[j])
      BY <1>10, <2>2, <3>1, <3>2 DEF PermitInv, Linked, IsTerminal
    <3>4. requests'[j] > 0
      BY <1>2, <1>10, <2>2
    <3> QED BY <3>1, <3>2, <3>3, <3>4
  <2>3. CASE j \notin L \cup {i}
    <3>1. store'.inv[j] \in {store.inv[j], inv[j]}
      BY <1>6, <1>8, <2>3
    <3>2. /\ inv'[j] = inv[j] /\ requests'[j] = requests[j] /\ call'[j] = call[j]
          /\ (place'[j] # 0 => place[j] # 0) /\ handler' = handler
      BY <1>2, <1>7, <1>11, <2>3
    <3> QED BY <3>1, <3>2 DEF PermitInv, Linked
  <2> QED BY <2>1, <2>2, <2>3
<1>13. PermitInv'
  BY <1>12 DEF PermitInv
<1>14. ASSUME NEW j \in Invocation PROVE PStep(j)
  BY <1>9, <1>10, <1>11
<1> QED BY <1>13, <1>14 DEF Refines

-----------------------------------------------------------------------------
(* The theorem.                                                            *)

LEMMA InitPermit ==
  ASSUME Init PROVE PermitInv /\ Promise!Init
<1>1. /\ \A i \in Invocation : inv[i] = NotCreated /\ store.inv[i] = NotCreated
      /\ \A i \in Invocation : requests[i] = 0 /\ place[i] = 0 /\ call[i] = "none"
      /\ handler = NoHandler
  BY DEF Init, Snapshot
<1>2. NotCreated.status = "none" /\ NotCreated.approval = "none" /\ NotCreated.charges = 0
  BY DEF NotCreated
<1>3. PermitInv
  BY <1>1, <1>2, HttpAssumption DEF PermitInv, Linked, Fresh, IsTerminal, TerminalStatus
<1>4. \A i \in Invocation : OutcomeOf(i) = "open" /\ PermitOf(i) = "none"
  BY <1>1, <1>2 DEF OutcomeOf, PermitOf, IsTerminal, TerminalStatus
<1>5. Promise!Init
  BY <1>1, <1>2, <1>4 DEF Promise!Init
<1> QED BY <1>3, <1>5

LEMMA StepRefines ==
  ASSUME IInv, PermitInv, Next PROVE Refines
<1>1. CASE Unlink \/ Reconcile \/ Flush
  BY <1>1, UnlinkRefines, BackgroundRefines
<1>2. CASE Crash
  BY <1>2, RestartRefines DEF Crash
<1>3. ASSUME NEW i \in Invocation, CrashAfterHold(i) PROVE Refines
  <2>1. PICK stored : stored = [Snapshot EXCEPT !.hold = Reserved(hold, i)]
    OBVIOUS
  <2>2. RestartFrom(stored) /\ stored.inv = inv
    BY <1>3, <2>1 DEF CrashAfterHold, Snapshot
  <2> QED BY <2>2, RestartRefines
<1>4. ASSUME NEW i \in Invocation, UserStep(i) \/ CallStep(i) \/ Reclaim(i) PROVE Refines
  BY <1>4, CreateRefines, DecisionRefines, CancelRefines, StartRefines, SettleRefines,
     BackgroundRefines, ReclaimRefines DEF UserStep, CallStep
<1> QED BY <1>1, <1>2, <1>3, <1>4 DEF Next

LEMMA PromiseStep ==
  ASSUME \A i \in Invocation : PStep(i) PROVE Promise!Next
<1> SUFFICES ASSUME NEW i \in Invocation
             PROVE  \/ Promise!Issue(i) \/ Promise!Use(i) \/ Promise!Void(i)
                    \/ Promise!Decide(i) \/ Promise!Same(i)
  BY DEF Promise!Next
<1>1. PStep(i)
  OBVIOUS
<1>2. CASE OutcomeOf(i)' = OutcomeOf(i) /\ PermitOf(i)' = PermitOf(i) /\ SameCharges(i)
  BY <1>2 DEF Promise!Same, SameCharges
<1>3. CASE /\ OutcomeOf(i) = "open" /\ OutcomeOf(i)' = "open" /\ SameCharges(i)
           /\ PermitOf(i) = "none" /\ PermitOf(i)' = "issued"
  BY <1>3 DEF Promise!Issue, SameCharges
<1>4. CASE /\ OutcomeOf(i) = "open" /\ OutcomeOf(i)' = "open" /\ SameCharges(i)
           /\ PermitOf(i) = "issued" /\ PermitOf(i)' = "used"
  BY <1>4 DEF Promise!Use, SameCharges
<1>5. CASE /\ OutcomeOf(i) = "open" /\ OutcomeOf(i)' \in TerminalStatus
           /\ PermitOf(i)' = PermitOf(i)
           /\ \/ SameCharges(i)
              \/ PermitOf(i) = "used" /\ store'.inv[i].charges = store.inv[i].charges + 1
  BY <1>5 DEF Promise!Decide, SameCharges
<1> QED BY <1>1, <1>2, <1>3, <1>4, <1>5 DEF PStep

LEMMA PermitAlways == Spec => [](IInv /\ PermitInv)
<1>1. Init => PermitInv
  BY InitPermit
<1>2. IInv /\ PermitInv /\ [Next]_vars => PermitInv'
  <2> SUFFICES ASSUME IInv, PermitInv, [Next]_vars PROVE PermitInv'
    OBVIOUS
  <2>1. CASE Next
    BY <2>1, StepRefines DEF Refines
  <2>2. CASE UNCHANGED vars
    BY <2>2 DEF vars, PermitInv
  <2> QED BY <2>1, <2>2
<1> QED BY <1>1, <1>2, IInvAlways, PTL DEF Spec

\* The server's own HTTP requests keep the promise of RunOnce, over restarts too: an
\* invocation is called only after it is stored as accepted and approved and while
\* its stored outcome is open, it gets one outcome, and it is charged once at most
\* (direct-http.mjs:17-85, completion.mjs:40-117, creation.mjs:198-471).
THEOREM HttpKeepsPromise == Spec => KeepsPromise
<1>1. Init => Promise!Init
  BY InitPermit
<1>2. IInv /\ PermitInv /\ [Next]_vars => [Promise!Next]_(Promise!vars)
  <2> SUFFICES ASSUME IInv, PermitInv, [Next]_vars PROVE [Promise!Next]_(Promise!vars)
    OBVIOUS
  <2>1. CASE Next
    BY <2>1, StepRefines, PromiseStep DEF Refines
  <2>2. CASE UNCHANGED vars
    BY <2>2 DEF vars, Promise!vars, OutcomeOf, PermitOf, IsTerminal
  <2> QED BY <2>1, <2>2
<1> QED BY <1>1, <1>2, PermitAlways, PTL DEF Spec, KeepsPromise, Promise!Spec

-----------------------------------------------------------------------------
(* What the promise is worth: nobody pays twice, or for nothing.            *)

LEMMA PromiseChargesOnce == Promise!Spec => []Promise!ChargedOnce
<1>1. Promise!Init => Promise!ChargedOnce
  BY DEF Promise!Init, Promise!ChargedOnce, Promise!Paid
<1>2. ASSUME Promise!ChargedOnce, [Promise!Next]_(Promise!vars)
      PROVE  Promise!ChargedOnce'
  <2>1. CASE UNCHANGED Promise!vars
    BY <1>2, <2>1 DEF Promise!vars, Promise!ChargedOnce, Promise!Paid
  <2>2. CASE Promise!Next
    <3> SUFFICES ASSUME NEW i \in Invocation PROVE Promise!Paid(i)'
      BY DEF Promise!ChargedOnce
    <3>1. Promise!Paid(i)
      BY <1>2 DEF Promise!ChargedOnce
    <3>2. CASE Promise!Issue(i)
      BY <3>1, <3>2 DEF Promise!Paid, Promise!Issue
    <3>3. CASE Promise!Use(i)
      BY <3>1, <3>3 DEF Promise!Paid, Promise!Use
    <3>4. CASE Promise!Void(i)
      BY <3>1, <3>4 DEF Promise!Paid, Promise!Void
    <3>5. CASE Promise!Decide(i)
      BY <3>1, <3>5 DEF Promise!Paid, Promise!Decide, TerminalStatus
    <3>6. CASE Promise!Same(i)
      BY <3>1, <3>6 DEF Promise!Paid, Promise!Same
    <3> QED
      BY <2>2, <3>2, <3>3, <3>4, <3>5, <3>6 DEF Promise!Next
  <2> QED
    BY <1>2, <2>1, <2>2
<1> QED
  BY <1>1, <1>2, PTL DEF Promise!Spec

\* Over any number of restarts, a stored charge is the only one of its invocation and is
\* stored with the outcome of a request that was sent (completion.mjs:66-117).
THEOREM HttpPaidOnce == Spec => []Promise!ChargedOnce
  BY PromiseChargesOnce, HttpKeepsPromise, PTL DEF KeepsPromise
==============================================================================
