---------------------- MODULE InvocationDelivery_proofs ----------------------
(***************************************************************************)
(* Theorems about InvocationDelivery for any set of invocations, sessions  *)
(* and directories, any cap and any number of attempts.                    *)
(*                                                                         *)
(* The argument: only an ack that finds the record in "dispatching" grants *)
(* a start; from then on the record is "acknowledged" for good, its status *)
(* never returns to the queue, and no other ack passes the gate.  A record *)
(* becomes in-flight only by a poll that found its directory free and the  *)
(* device under its cap.                                                   *)
(*                                                                         *)
(* The second half is about records alone: a step is an ordinary step, the *)
(* registration of a new session, or a poll (StepKind), and each of these  *)
(* has a short list of things it may do to a record.  Permission, the      *)
(* runtime deadline, the unlink and the attempts follow record by record.  *)
(***************************************************************************)
EXTENDS InvocationDelivery, FiniteSetTheorems, TLAPS

Begun == {"running", "cancelling"} \cup TerminalStatus

\* An acknowledged record never waits or is leased again.
RecordOK(v) == v.delivery = "acknowledged" => v.status \in Begun

\* What every step but a lease and an ack does to a record.
Shrinks(v, w) ==
    /\ w \in InvocationRecord
    /\ RecordOK(w)
    /\ v.delivery = "acknowledged" => w.delivery = "acknowledged"
    /\ InFlight(w) => InFlight(v)

GrantedIsAcknowledged ==
    \A i \in Invocation : \A n \in DOMAIN task[i] :
        task[i][n].pc \in Granted => inv[i].delivery = "acknowledged"

DirectoryExclusion ==
    \A i, j \in Invocation :
        InFlight(inv[i]) /\ InFlight(inv[j]) /\ DirOf[i] = DirOf[j] => i = j

IInv ==
    /\ TypeOK
    /\ \A i \in Invocation : RecordOK(inv[i])
    /\ GrantedIsAcknowledged
    /\ AtMostOneExecution
    /\ DirectoryExclusion

\* A step makes nothing new in-flight, or one invocation when there was room.
RoomForIt ==
    \/ InFlightSet(inv') \subseteq InFlightSet(inv)
    \/ \E S \in SUBSET InFlightSet(inv), i \in Invocation :
          /\ ~(Cardinality(S) >= MaxConcurrency)
          /\ InFlightSet(inv') = S \cup {i}

Preserved == IInv' /\ RoomForIt

-----------------------------------------------------------------------------
(* The operators on one record.                                            *)

LEMMA ShrinksRefl ==
  ASSUME NEW v \in InvocationRecord, RecordOK(v)
  PROVE  Shrinks(v, v)
  BY DEF Shrinks

LEMMA ShrinksTrans ==
  ASSUME NEW u, NEW v, NEW w, Shrinks(u, v), Shrinks(v, w)
  PROVE  Shrinks(u, w)
  BY DEF Shrinks

LEMMA CompletedShrinks ==
  ASSUME NEW v \in InvocationRecord, RecordOK(v), NEW st \in TerminalStatus
  PROVE  /\ Shrinks(v, Completed(v, st))
         /\ Completed(v, st).status \in TerminalStatus
  BY DEF Shrinks, Completed, InvocationRecord, RecordOK, Begun, TerminalStatus,
         IsTerminal, InFlight, INFLIGHT_STATUSES, Status, WaitingStatus

LEMMA ChargedShrinks ==
  ASSUME NEW v \in InvocationRecord, RecordOK(v), NEW st \in TerminalStatus
  PROVE  Shrinks(v, Charged(v, st))
<1> DEFINE u == Completed(v, st)
           w == [u EXCEPT !.charges = @ + 1]
<1>1. u \in InvocationRecord /\ RecordOK(u) /\ Shrinks(v, u)
  BY CompletedShrinks DEF Shrinks
<1>2. w \in InvocationRecord /\ w.status = u.status /\ w.delivery = u.delivery
  BY <1>1 DEF InvocationRecord
<1>3. Shrinks(v, w)
  BY <1>1, <1>2 DEF Shrinks, RecordOK, InFlight
<1> QED
  BY <1>3, ShrinksRefl DEF Charged

LEMMA CancelRequestedShrinks ==
  ASSUME NEW v \in InvocationRecord, InFlight(v)
  PROVE  Shrinks(v, CancelRequested(v))
  BY DEF Shrinks, CancelRequested, InvocationRecord, RecordOK, Begun,
         InFlight, INFLIGHT_STATUSES, Status

LEMMA QueuedCancelledShrinks ==
  ASSUME NEW v \in InvocationRecord, RecordOK(v)
  PROVE  Shrinks(v, QueuedCancelled(v))
  BY DEF Shrinks, QueuedCancelled, InvocationRecord, RecordOK, Begun, TerminalStatus,
         InFlight, INFLIGHT_STATUSES, Status

LEMMA RequeuedShrinks ==
  ASSUME NEW v \in InvocationRecord, v.delivery # "acknowledged"
  PROVE  Shrinks(v, Requeued(v))
  BY DEF Shrinks, Requeued, InvocationRecord, RecordOK, DeliveryState,
         InFlight, INFLIGHT_STATUSES, Status, WaitingStatus

LEMMA LeaseLapsedShrinks ==
  ASSUME NEW v \in InvocationRecord, v.delivery # "acknowledged"
  PROVE  Shrinks(v, LeaseLapsed(v))
<1> DEFINE u == [v EXCEPT !.delivery = "exhausted"]
<1>1. u \in InvocationRecord /\ RecordOK(u) /\ Shrinks(v, u)
  BY DEF InvocationRecord, RecordOK, DeliveryState, Shrinks, InFlight
<1>2. "failed" \in TerminalStatus
  BY DEF TerminalStatus
<1>3. Shrinks(v, Completed(u, "failed"))
  BY <1>1, <1>2, CompletedShrinks, ShrinksTrans
<1> QED
  BY <1>3, RequeuedShrinks DEF LeaseLapsed

LEMMA SupersededReclaimedShrinks ==
  ASSUME NEW v \in InvocationRecord, RecordOK(v)
  PROVE  /\ Shrinks(v, SupersededReclaimed(v))
         /\ SupersededReclaimed(v).status \in TerminalStatus
<1> DEFINE u == [v EXCEPT !.superseded = FALSE]
<1>1. u \in InvocationRecord /\ RecordOK(u) /\ Shrinks(v, u)
  BY DEF InvocationRecord, RecordOK, Shrinks, InFlight
<1>2. "failed" \in TerminalStatus /\ "cancelled" \in TerminalStatus
  BY DEF TerminalStatus
<1> QED
  BY <1>1, <1>2, CompletedShrinks, ShrinksTrans DEF SupersededReclaimed

LEMMA FencedShrinks ==
  ASSUME NEW v \in InvocationRecord, RecordOK(v)
  PROVE  Shrinks(v, Fenced(v))
<1>1. CASE v.status = "dispatching"
  BY <1>1, RequeuedShrinks DEF Fenced, RecordOK, Begun, TerminalStatus
<1>2. CASE v.status # "dispatching"
  BY <1>2 DEF Fenced, InvocationRecord, RecordOK, Shrinks, InFlight
<1> QED
  BY <1>1, <1>2

LEMMA RedeliveredShrinks ==
  ASSUME NEW v \in InvocationRecord, RecordOK(v), NEW i, NEW lapsed, NEW drained,
         i \in lapsed => v.delivery # "acknowledged"
  PROVE  Shrinks(v, Redelivered(v, i, lapsed, drained))
  BY SupersededReclaimedShrinks, LeaseLapsedShrinks, ShrinksRefl DEF Redelivered

LEMMA StuckReclaimedShrinks ==
  ASSUME NEW v \in InvocationRecord, RecordOK(v), NEW i, NEW expired
  PROVE  Shrinks(v, StuckReclaimed(v, i, expired))
<1>1. "cancelled" \in TerminalStatus
  BY DEF TerminalStatus
<1> QED
  BY <1>1, CompletedShrinks, ShrinksRefl DEF StuckReclaimed

LEMMA UnlinkedShrinks ==
  ASSUME NEW v \in InvocationRecord, RecordOK(v)
  PROVE  Shrinks(v, Unlinked(v))
<1>1. v.status \in {"dispatching", "running"} => InFlight(v)
  BY DEF InFlight, INFLIGHT_STATUSES
<1> QED
  BY <1>1, QueuedCancelledShrinks, CancelRequestedShrinks, ShrinksRefl DEF Unlinked

LEMMA CancelledShrinks ==
  ASSUME NEW v \in InvocationRecord, RecordOK(v), v.status # "none", ~IsTerminal(v)
  PROVE  Shrinks(v, Cancelled(v))
<1>1. v.status \notin WaitingStatus => InFlight(v)
  BY DEF InFlight, Status, IsTerminal, InvocationRecord
<1> QED
  BY <1>1, QueuedCancelledShrinks, CancelRequestedShrinks DEF Cancelled

-----------------------------------------------------------------------------
(* Steps that neither lease nor grant.                                     *)

TasksKeep ==
    /\ task' \in [Invocation -> Seq(Task)]
    /\ \A i \in Invocation : \A n \in DOMAIN task'[i] :
          task'[i][n].pc \in Granted => n \in DOMAIN task[i] /\ task[i][n].pc \in Granted

RecordsShrink ==
    /\ inv' = [i \in Invocation |-> inv'[i]]
    /\ \A i \in Invocation : Shrinks(inv[i], inv'[i])

DeviceTypeOK ==
    /\ current \in Session \cup {NoSession}
    /\ online \in BOOLEAN /\ linked \in BOOLEAN /\ paired \in BOOLEAN
    /\ proc \in [Session -> ProcState]

\* A step that only shrinks records and creates no permit keeps the invariant.
LEMMA QuietStep ==
  ASSUME IInv, RecordsShrink, TasksKeep, DeviceTypeOK'
  PROVE  Preserved
<1>1. TypeOK'
  BY DEF RecordsShrink, Shrinks, TasksKeep, DeviceTypeOK, TypeOK
<1>2. \A i \in Invocation : RecordOK(inv[i])'
  BY DEF RecordsShrink, Shrinks, RecordOK
<1>3. GrantedIsAcknowledged'
  BY DEF IInv, GrantedIsAcknowledged, TasksKeep, RecordsShrink, Shrinks
<1>4. AtMostOneExecution'
  BY DEF IInv, AtMostOneExecution, TasksKeep
<1>5. DirectoryExclusion'
  BY DEF IInv, DirectoryExclusion, RecordsShrink, Shrinks, InFlight
<1>6. RoomForIt
  BY DEF RecordsShrink, Shrinks, RoomForIt, InFlightSet
<1> QED
  BY <1>1, <1>2, <1>3, <1>4, <1>5, <1>6 DEF IInv, Preserved

LEMMA GotoType ==
  ASSUME TypeOK, NEW i \in Invocation, NEW n \in DOMAIN task[i], NEW pc \in TaskPc,
         Goto(i, n, pc)
  PROVE  /\ task' \in [Invocation -> Seq(Task)]
         /\ \A j \in Invocation : DOMAIN task'[j] = DOMAIN task[j]
         /\ task'[i][n].pc = pc
         /\ \A j \in Invocation : \A m \in DOMAIN task[j] :
                <<j, m>> # <<i, n>> => task'[j][m] = task[j][m]
<1> DEFINE e == [task[i][n] EXCEPT !.pc = pc]
           s == [task[i] EXCEPT ![n] = e]
<1>1. task[i] \in Seq(Task) /\ task[i][n] \in Task
  BY DEF TypeOK
<1>2. e \in Task /\ e.pc = pc
  BY <1>1 DEF Task
<1>3. s \in Seq(Task) /\ DOMAIN s = DOMAIN task[i] /\ s[n] = e
        /\ \A m \in DOMAIN task[i] : m # n => s[m] = task[i][m]
  BY <1>1, <1>2
<1>4. task' = [task EXCEPT ![i] = s]
  BY DEF Goto
<1> HIDE DEF s, e
<1>5. /\ task' \in [Invocation -> Seq(Task)]
      /\ task'[i] = s
      /\ \A j \in Invocation : j # i => task'[j] = task[j]
  BY <1>3, <1>4 DEF TypeOK
<1>6. \A j \in Invocation : DOMAIN task'[j] = DOMAIN task[j]
  BY <1>3, <1>5
<1>7. task'[i][n].pc = pc
  BY <1>2, <1>3, <1>5
<1>8. \A j \in Invocation : \A m \in DOMAIN task[j] :
          <<j, m>> # <<i, n>> => task'[j][m] = task[j][m]
  BY <1>3, <1>5
<1> QED
  BY <1>5, <1>6, <1>7, <1>8

LEMMA GotoKeeps ==
  ASSUME TypeOK, NEW i \in Invocation, NEW n \in DOMAIN task[i], NEW pc \in TaskPc,
         Goto(i, n, pc), pc \in Granted => task[i][n].pc \in Granted
  PROVE  TasksKeep
<1>1. ASSUME NEW j \in Invocation, NEW m \in DOMAIN task'[j], task'[j][m].pc \in Granted
      PROVE  m \in DOMAIN task[j] /\ task[j][m].pc \in Granted
  <2>1. m \in DOMAIN task[j]
    BY GotoType
  <2>2. CASE <<j, m>> = <<i, n>>
    BY <1>1, <2>2, GotoType
  <2>3. CASE <<j, m>> # <<i, n>>
    BY <1>1, <2>1, <2>3, GotoType
  <2> QED
    BY <2>1, <2>2, <2>3
<1> QED
  BY <1>1, GotoType DEF TasksKeep

\* The records when a step replaces the one of invocation i.
LEMMA OneShrinks ==
  ASSUME IInv, NEW i \in Invocation, NEW w, Shrinks(inv[i], w), inv' = [inv EXCEPT ![i] = w]
  PROVE  RecordsShrink
  BY ShrinksRefl DEF IInv, TypeOK, RecordsShrink

LEMMA NoneShrinks ==
  ASSUME IInv, inv' = inv
  PROVE  RecordsShrink
  BY ShrinksRefl DEF IInv, TypeOK, RecordsShrink

LEMMA NoneKeeps ==
  ASSUME TypeOK, task' = task
  PROVE  TasksKeep
  BY DEF TypeOK, TasksKeep

\* The record of one invocation shrinks and the bridges are left alone.
LEMMA OneRecordStep ==
  ASSUME IInv, NEW i \in Invocation, NEW w, Shrinks(inv[i], w),
         inv' = [inv EXCEPT ![i] = w], task' = task, DeviceTypeOK'
  PROVE  Preserved
<1>1. RecordsShrink
  BY OneShrinks
<1>2. TasksKeep
  BY NoneKeeps DEF IInv
<1> QED
  BY <1>1, <1>2, QuietStep

LEMMA DeviceType ==
  ASSUME TypeOK, UNCHANGED <<current, linked, paired, proc>>, online' \in BOOLEAN
  PROVE  DeviceTypeOK'
  BY DEF TypeOK, DeviceTypeOK

-----------------------------------------------------------------------------
(* The actions of the user, the operator and the sweep.                    *)

LEMMA CreateStep ==
  ASSUME IInv, NEW i \in Invocation, Create(i)
  PROVE  Preserved
<1> DEFINE v == inv[i]
           a == [v EXCEPT !.status = "rejected"]
           b == [v EXCEPT !.status = "waiting_for_local_approval", !.approval = "pending"]
           c == [v EXCEPT !.status = "queued", !.delivery = "queued"]
<1>1. /\ v \in InvocationRecord /\ v.status = "none" /\ v.delivery # "acknowledged"
      /\ task' = task
  BY DEF IInv, TypeOK, RecordOK, Begun, TerminalStatus, Create, bridge
<1>2. DeviceTypeOK'
  BY DeviceType DEF IInv, TypeOK, Create, bridge
<1>3. Shrinks(v, a) /\ Shrinks(v, b) /\ Shrinks(v, c)
  BY <1>1 DEF Shrinks, InvocationRecord, RecordOK, InFlight, INFLIGHT_STATUSES, Status,
              WaitingStatus, TerminalStatus, DeliveryState
<1>4. inv' = [inv EXCEPT ![i] = a] \/ inv' = [inv EXCEPT ![i] = b]
        \/ inv' = [inv EXCEPT ![i] = c]
  BY DEF Create
<1> QED
  BY <1>1, <1>2, <1>3, <1>4, OneRecordStep

LEMMA ApproveStep ==
  ASSUME IInv, NEW i \in Invocation, Approve(i)
  PROVE  Preserved
<1> DEFINE v == inv[i]
           w == [v EXCEPT !.approval = "approved", !.status = "queued",
                          !.delivery = "queued", !.attempts = 0]
<1>1. /\ v \in InvocationRecord /\ v.delivery # "acknowledged" /\ task' = task
  BY DEF IInv, TypeOK, RecordOK, Begun, TerminalStatus, Approve, AwaitsDecision, bridge
<1>2. DeviceTypeOK'
  BY DeviceType DEF IInv, TypeOK, Approve, bridge
<1>3. Shrinks(v, w)
  BY <1>1 DEF Shrinks, InvocationRecord, RecordOK, InFlight, INFLIGHT_STATUSES, Status,
              WaitingStatus, DeliveryState
<1>4. inv' = [inv EXCEPT ![i] = w]
  BY DEF Approve
<1> QED
  BY <1>1, <1>2, <1>3, <1>4, OneRecordStep

LEMMA DenyStep ==
  ASSUME IInv, NEW i \in Invocation, Deny(i)
  PROVE  Preserved
<1> DEFINE v == inv[i]
           w == [v EXCEPT !.approval = "denied", !.status = "rejected"]
<1>1. /\ v \in InvocationRecord /\ task' = task
  BY DEF IInv, TypeOK, Deny, bridge
<1>2. DeviceTypeOK'
  BY DeviceType DEF IInv, TypeOK, Deny, bridge
<1>3. Shrinks(v, w)
  BY <1>1 DEF Shrinks, InvocationRecord, RecordOK, InFlight, INFLIGHT_STATUSES, Status,
              Begun, TerminalStatus
<1>4. inv' = [inv EXCEPT ![i] = w]
  BY DEF Deny
<1> QED
  BY <1>1, <1>2, <1>3, <1>4, OneRecordStep

LEMMA CancelStep ==
  ASSUME IInv, NEW i \in Invocation, Cancel(i)
  PROVE  Preserved
<1>1. Shrinks(inv[i], Cancelled(inv[i]))
  BY CancelledShrinks DEF IInv, TypeOK, Cancel
<1>2. DeviceTypeOK'
  BY DeviceType DEF IInv, TypeOK, Cancel, bridge
<1>3. inv' = [inv EXCEPT ![i] = Cancelled(inv[i])] /\ task' = task
  BY DEF Cancel, bridge
<1> QED
  BY <1>1, <1>2, <1>3, OneRecordStep

LEMMA SweepOfStep ==
  ASSUME IInv, NEW i \in Invocation, SweepStep(i)
  PROVE  Preserved
<1>1. inv[i] \in InvocationRecord /\ RecordOK(inv[i])
  BY DEF IInv, TypeOK
<1>2. DeviceTypeOK' /\ task' = task
  BY DeviceType DEF IInv, TypeOK, SweepStep, SweepDeadline, SweepInterrupted,
                    SweepOfflineRun, bridge
<1>3. CASE SweepDeadline(i)
  <2> DEFINE u == [inv[i] EXCEPT !.deadline = TRUE]
  <2>1. /\ u \in InvocationRecord /\ RecordOK(u) /\ Shrinks(inv[i], u)
        /\ u.status = "running"
    BY <1>1, <1>3 DEF InvocationRecord, RecordOK, Shrinks, InFlight, SweepDeadline
  <2>2. Shrinks(u, Cancelled(u))
    BY <2>1, CancelledShrinks DEF IsTerminal, TerminalStatus
  <2>3. Shrinks(inv[i], Cancelled(u))
    BY <2>1, <2>2, ShrinksTrans
  <2>4. inv' = [inv EXCEPT ![i] = Cancelled(u)]
    BY <1>3 DEF SweepDeadline
  <2> QED
    BY <1>2, <2>3, <2>4, OneRecordStep
<1>4. CASE SweepInterrupted(i) \/ SweepOfflineRun(i)
  <2>1. Shrinks(inv[i], Completed(inv[i], "timed_out"))
    BY <1>1, CompletedShrinks DEF TerminalStatus
  <2>2. inv' = [inv EXCEPT ![i] = Completed(inv[i], "timed_out")]
    BY <1>4 DEF SweepInterrupted, SweepOfflineRun
  <2> QED
    BY <1>2, <2>1, <2>2, OneRecordStep
<1> QED
  BY <1>3, <1>4 DEF SweepStep

\* Steps that only change what is known of the device.
LEMMA DeviceOnlyStep ==
  ASSUME IInv, inv' = inv, task' = task, DeviceTypeOK'
  PROVE  Preserved
<1>1. RecordsShrink
  BY NoneShrinks
<1>2. TasksKeep
  BY NoneKeeps DEF IInv
<1> QED
  BY <1>1, <1>2, QuietStep

LEMMA UnlinkStep ==
  ASSUME IInv, Unlink
  PROVE  Preserved
<1>1. RecordsShrink
  BY UnlinkedShrinks DEF IInv, TypeOK, RecordsShrink, Unlink
<1>2. TasksKeep
  BY NoneKeeps DEF IInv, Unlink, bridge
<1>3. DeviceTypeOK'
  BY DEF IInv, TypeOK, DeviceTypeOK, Unlink, bridge
<1> QED
  BY <1>1, <1>2, <1>3, QuietStep

LEMMA DeviceLemma ==
  ASSUME IInv, Relink \/ SweepOffline
  PROVE  Preserved
<1>1. inv' = inv /\ task' = task
  BY DEF Relink, SweepOffline, bridge
<1>2. DeviceTypeOK'
  BY DEF IInv, TypeOK, DeviceTypeOK, Relink, SweepOffline, bridge
<1> QED
  BY <1>1, <1>2, DeviceOnlyStep

-----------------------------------------------------------------------------
(* The bridge process: registration, poll, exit.                           *)

LEMMA RegisterStep ==
  ASSUME IInv, NEW s \in Session, Register(s)
  PROVE  Preserved
<1> DEFINE fenced == [i \in Invocation |-> IF current = s THEN inv[i] ELSE Fenced(inv[i])]
<1>1. \A i \in Invocation : /\ fenced[i] \in InvocationRecord
                           /\ RecordOK(fenced[i])
                           /\ Shrinks(inv[i], fenced[i])
  <2>1. \A i \in Invocation : Shrinks(inv[i], fenced[i])
    BY FencedShrinks, ShrinksRefl DEF IInv, TypeOK
  <2> QED
    BY <2>1 DEF Shrinks
<1>2. PICK drained, lapsed :
         /\ \A i \in Invocation : i \in lapsed => fenced[i].status = "dispatching"
         /\ inv' = [i \in Invocation |-> Redelivered(fenced[i], i, lapsed, drained)]
  BY DEF Register
<1> HIDE DEF fenced
<1>3. \A i \in Invocation : i \in lapsed => fenced[i].delivery # "acknowledged"
  BY <1>1, <1>2 DEF RecordOK, Begun, TerminalStatus
<1>4. \A i \in Invocation : Shrinks(fenced[i], Redelivered(fenced[i], i, lapsed, drained))
  BY <1>1, <1>3, RedeliveredShrinks
<1>5. \A i \in Invocation : Shrinks(inv[i], inv'[i])
  BY <1>1, <1>2, <1>4, ShrinksTrans
<1>6. RecordsShrink
  BY <1>2, <1>5 DEF RecordsShrink
<1>7. TasksKeep
  BY NoneKeeps DEF IInv, Register
<1>8. DeviceTypeOK'
  BY DEF IInv, TypeOK, DeviceTypeOK, Register, ProcState
<1> QED
  BY <1>6, <1>7, <1>8, QuietStep

\* What a poll has reclaimed before it looks for work.
LEMMA SweptShrinks ==
  ASSUME IInv, NEW lapsed \in SUBSET MayLapse, NEW drained, NEW expired
  PROVE  /\ Swept(lapsed, drained, expired)
               = [i \in Invocation |-> Swept(lapsed, drained, expired)[i]]
         /\ \A i \in Invocation : Shrinks(inv[i], Swept(lapsed, drained, expired)[i])
<1>1. ASSUME NEW i \in Invocation
      PROVE  Shrinks(inv[i], Swept(lapsed, drained, expired)[i])
  <2> DEFINE u == Redelivered(inv[i], i, lapsed, drained)
  <2>1. inv[i] \in InvocationRecord /\ RecordOK(inv[i])
    BY DEF IInv, TypeOK
  <2>2. i \in lapsed => inv[i].delivery # "acknowledged"
    BY DEF MayLapse
  <2>3. Shrinks(inv[i], u)
    BY <2>1, <2>2, RedeliveredShrinks
  <2>4. u \in InvocationRecord /\ RecordOK(u)
    BY <2>3 DEF Shrinks
  <2> HIDE DEF u
  <2>5. Shrinks(inv[i], StuckReclaimed(u, i, expired))
    BY <2>3, <2>4, StuckReclaimedShrinks, ShrinksTrans
  <2> QED
    BY <2>5 DEF u, Swept
<1> QED
  BY <1>1 DEF Swept

LEMMA DispatchedType ==
  ASSUME NEW v \in InvocationRecord
  PROVE  /\ Dispatched(v) \in InvocationRecord
         /\ Dispatched(v).status = "dispatching"
         /\ Dispatched(v).delivery = "dispatching"
         /\ RecordOK(Dispatched(v))
<1> DEFINE a == v.attempts + 1
           w == [v EXCEPT !.status = "dispatching", !.delivery = "dispatching", !.attempts = a]
<1>1. a \in Nat
  <2>1. v.attempts \in Nat
    BY DEF InvocationRecord
  <2> QED
    BY <2>1
<1>2. "dispatching" \in Status /\ "dispatching" \in DeliveryState
  BY DEF Status, INFLIGHT_STATUSES, DeliveryState
<1>3. Dispatched(v) = w
  BY DEF Dispatched
<1> HIDE DEF a
<1>4. w \in InvocationRecord /\ w.status = "dispatching" /\ w.delivery = "dispatching"
  BY <1>1, <1>2 DEF InvocationRecord
<1> QED
  BY <1>3, <1>4 DEF RecordOK

\* The records from which a poll leases one: only i becomes in-flight, its
\* directory was free, and no ack of it was ever granted.
LEMMA LeaseStep ==
  ASSUME IInv, NEW f, f = [i \in Invocation |-> f[i]],
         \A i \in Invocation : Shrinks(inv[i], f[i]),
         NEW i \in Dispatchable(f), NEW pc \in {"claimed", "dropped"}, NEW s \in Session,
         inv' = [f EXCEPT ![i] = Dispatched(@)],
         task' = [task EXCEPT ![i] = Append(@, [pc |-> pc, session |-> s])],
         DeviceTypeOK'
  PROVE  Preserved
<1> DEFINE w == Dispatched(f[i])
           e == [pc |-> pc, session |-> s]
<1>1. i \in Invocation /\ Eligible(f, i)
  BY DEF Dispatchable
<1>2. \A j \in Invocation : f[j] \in InvocationRecord /\ RecordOK(f[j])
  BY DEF Shrinks
<1>3. /\ w \in InvocationRecord /\ w.status = "dispatching" /\ w.delivery = "dispatching"
      /\ RecordOK(w)
  BY <1>1, <1>2, DispatchedType
<1>4. /\ inv' \in [Invocation -> InvocationRecord]
      /\ inv'[i] = w
      /\ \A j \in Invocation : j # i => inv'[j] = f[j]
  BY <1>1, <1>2, <1>3
<1> HIDE DEF w
<1>5. e \in Task /\ e.pc \notin Granted
  BY DEF Task, TaskPc, Granted, Alive
<1> HIDE DEF e
<1>6. /\ task[i] \in Seq(Task)
      /\ task' = [task EXCEPT ![i] = Append(task[i], e)]
  BY <1>1 DEF IInv, TypeOK, e
<1>7. /\ Append(task[i], e) \in Seq(Task)
      /\ Len(Append(task[i], e)) = Len(task[i]) + 1
      /\ \A n \in 1..Len(task[i]) : Append(task[i], e)[n] = task[i][n]
      /\ Append(task[i], e)[Len(task[i]) + 1] = e
  BY <1>5, <1>6
<1>8. /\ task' \in [Invocation -> Seq(Task)]
      /\ task'[i] = Append(task[i], e)
      /\ \A j \in Invocation : j # i => task'[j] = task[j]
  BY <1>1, <1>6, <1>7 DEF IInv, TypeOK
<1>9. TasksKeep
  <2>1. ASSUME NEW n \in DOMAIN task'[i], task'[i][n].pc \in Granted
        PROVE  n \in DOMAIN task[i] /\ task[i][n].pc \in Granted
    <3>1. n \in 1..(Len(task[i]) + 1)
      BY <1>7, <1>8
    <3>2. n # Len(task[i]) + 1
      BY <1>5, <1>7, <1>8, <2>1
    <3>3. n \in 1..Len(task[i])
      BY <1>6, <3>1, <3>2
    <3> QED
      BY <1>6, <1>7, <1>8, <2>1, <3>3
  <2> QED
    BY <1>8, <2>1 DEF TasksKeep
<1>10. TypeOK'
  BY <1>4, <1>8 DEF TypeOK, DeviceTypeOK
<1>11. \A j \in Invocation : RecordOK(inv'[j])
  BY <1>2, <1>3, <1>4
<1>12. inv[i].delivery # "acknowledged"
  BY <1>1 DEF Eligible, Shrinks
<1>13. GrantedIsAcknowledged'
  BY <1>4, <1>9, <1>12 DEF IInv, GrantedIsAcknowledged, TasksKeep, Shrinks
<1>14. AtMostOneExecution'
  BY <1>9 DEF IInv, AtMostOneExecution, TasksKeep
<1>15. DirectoryExclusion'
  <2>1. \A j \in Invocation : j # i /\ InFlight(inv'[j]) => DirOf[j] # DirOf[i]
    BY <1>1, <1>4 DEF Eligible, DirBusy, InFlightSet
  <2>2. \A j \in Invocation : j # i /\ InFlight(inv'[j]) => InFlight(inv[j])
    BY <1>4 DEF Shrinks
  <2> QED
    BY <2>1, <2>2 DEF IInv, DirectoryExclusion
<1>16. RoomForIt
  <2>1. InFlightSet(f) \subseteq InFlightSet(inv)
    BY DEF InFlightSet, Shrinks
  <2>2. ~(Cardinality(InFlightSet(f)) >= MaxConcurrency)
    BY DEF Dispatchable
  <2>3. InFlight(w)
    BY <1>3 DEF InFlight, INFLIGHT_STATUSES
  <2>4. InFlightSet(inv') = InFlightSet(f) \cup {i}
    BY <1>1, <1>4, <2>3 DEF InFlightSet
  <2> QED
    BY <1>1, <2>1, <2>2, <2>4 DEF RoomForIt
<1> QED
  BY <1>10, <1>11, <1>13, <1>14, <1>15, <1>16 DEF IInv, Preserved

LEMMA PollStep ==
  ASSUME IInv, NEW s \in Session, Poll(s)
  PROVE  Preserved
<1>1. PICK lapsed \in SUBSET MayLapse, drained \in SUBSET MayDrain, expired \in SUBSET MayExpire :
          PollWith(s, Swept(lapsed, drained, expired))
  BY DEF Poll
<1> DEFINE f == Swept(lapsed, drained, expired)
<1>2. /\ f = [i \in Invocation |-> f[i]]
      /\ \A i \in Invocation : Shrinks(inv[i], f[i])
  BY SweptShrinks
<1>3. PollWith(s, f)
  BY <1>1
<1> HIDE DEF f
<1>4. DeviceTypeOK'
  BY <1>3, DeviceType DEF IInv, PollWith
<1>5. CASE inv' = f /\ task' = task
  <2>1. RecordsShrink
    BY <1>2, <1>5 DEF RecordsShrink
  <2>2. TasksKeep
    BY <1>5, NoneKeeps DEF IInv
  <2> QED
    BY <1>4, <2>1, <2>2, QuietStep
<1>6. ASSUME NEW i \in Dispatchable(f), NEW pc \in {"claimed", "dropped"},
             inv' = [f EXCEPT ![i] = Dispatched(@)],
             task' = [task EXCEPT ![i] = Append(@, [pc |-> pc, session |-> s])]
      PROVE  Preserved
  BY <1>2, <1>4, <1>6, LeaseStep
<1> QED
  BY <1>3, <1>5, <1>6 DEF PollWith

LEMMA ExitStep ==
  ASSUME IInv, NEW s \in Session, ExitBridge(s)
  PROVE  Preserved
<1>1. inv' = inv /\ DeviceTypeOK'
  BY DEF IInv, TypeOK, DeviceTypeOK, ExitBridge, server, ProcState
<1>2. RecordsShrink
  BY <1>1, NoneShrinks
<1> DEFINE Goes(i, n) == task[i][n].session = s
                           /\ task[i][n].pc \in {"claimed", "granted", "exited", "killed"}
           Entry(i, n) == IF Goes(i, n) THEN [task[i][n] EXCEPT !.pc = Lost(task[i][n].pc)]
                          ELSE task[i][n]
<1>3. task' = [i \in Invocation |-> [n \in DOMAIN task[i] |-> Entry(i, n)]]
  BY DEF ExitBridge
<1>4. ASSUME NEW i \in Invocation, NEW n \in DOMAIN task[i]
      PROVE  /\ Entry(i, n) \in Task
             /\ Entry(i, n).pc \in Granted => task[i][n].pc \in Granted
  <2>1. task[i][n] \in Task
    BY DEF IInv, TypeOK
  <2>2. \A pc \in TaskPc : Lost(pc) \in TaskPc /\ (Lost(pc) \in Granted => pc \in Granted)
    BY DEF Lost, TaskPc, Granted, Alive
  <2> QED
    BY <2>1, <2>2 DEF Task
<1> HIDE DEF Entry
<1>5. ASSUME NEW i \in Invocation
      PROVE  [n \in DOMAIN task[i] |-> Entry(i, n)] \in Seq(Task)
  <2>1. task[i] \in Seq(Task)
    BY DEF IInv, TypeOK
  <2>2. DOMAIN task[i] = 1..Len(task[i]) /\ Len(task[i]) \in Nat
    BY <2>1
  <2> QED
    BY <1>4, <2>2
<1>6. TasksKeep
  BY <1>3, <1>4, <1>5 DEF TasksKeep
<1> QED
  BY <1>1, <1>2, <1>6, QuietStep

-----------------------------------------------------------------------------
(* The steps of one delivery.                                              *)

\* A step that moves one delivery and may shrink its record.
LEMMA MoveStep ==
  ASSUME IInv, NEW i \in Invocation, NEW n \in DOMAIN task[i], NEW pc \in TaskPc,
         Goto(i, n, pc), pc \in Granted => task[i][n].pc \in Granted,
         RecordsShrink, DeviceTypeOK'
  PROVE  Preserved
<1>1. TasksKeep
  BY GotoKeeps DEF IInv
<1> QED
  BY <1>1, QuietStep

\* What the bridge does alone, and the requests it sends.
BridgeMove(i, n) ==
    \/ SendAck(i, n) \/ SendRefuse(i, n) \/ Begin(i, n) \/ DeliverCancel(i, n)
    \/ ExecutorEnds(i, n) \/ OrphanEnds(i, n) \/ SendComplete(i, n) \/ Lose(i, n)

LEMMA BridgeMoveFacts ==
  ASSUME IInv, NEW i \in Invocation, NEW n \in DOMAIN task[i], BridgeMove(i, n)
  PROVE  inv' = inv /\ DeviceTypeOK'
<1>1. inv' = inv /\ online' \in BOOLEAN /\ UNCHANGED <<current, linked, paired, proc>>
  BY DEF BridgeMove, SendAck, SendRefuse, Begin, DeliverCancel, ExecutorEnds, OrphanEnds,
         SendComplete, Lose, Authenticated, server, IInv, TypeOK
<1> QED
  BY <1>1, DeviceType DEF IInv

LEMMA BridgeMoveStep ==
  ASSUME IInv, NEW i \in Invocation, NEW n \in DOMAIN task[i], BridgeMove(i, n)
  PROVE  Preserved
<1> DEFINE from == task[i][n].pc
<1>1. from \in TaskPc
  <2>1. task[i] \in Seq(Task)
    BY DEF IInv, TypeOK
  <2>2. task[i][n] \in Task
    BY <2>1
  <2> QED
    BY <2>2 DEF Task
<1>2. \E pc \in TaskPc : Goto(i, n, pc) /\ (pc \in Granted => from \in Granted)
  <2>1. CASE SendAck(i, n) \/ SendRefuse(i, n)
    BY <2>1 DEF SendAck, SendRefuse, TaskPc, Granted, Alive
  <2>2. CASE Begin(i, n) \/ DeliverCancel(i, n)
    BY <2>2 DEF Begin, DeliverCancel, At, TaskPc, Granted, Alive
  <2>3. CASE ExecutorEnds(i, n) \/ OrphanEnds(i, n)
    BY <2>3 DEF ExecutorEnds, OrphanEnds, At, TaskPc, Granted, Alive
  <2>4. CASE SendComplete(i, n)
    BY <2>4 DEF SendComplete, At, TaskPc, Granted, Alive
  <2>5. CASE Lose(i, n)
    BY <1>1, <2>5 DEF Lose, Lost, TaskPc, Granted, Alive
  <2> QED
    BY <2>1, <2>2, <2>3, <2>4, <2>5 DEF BridgeMove
<1>3. RecordsShrink /\ DeviceTypeOK'
  BY BridgeMoveFacts, NoneShrinks
<1> QED
  BY <1>2, <1>3, MoveStep

\* The gate passes a record that no ack has acknowledged.
LEMMA GateFacts ==
  ASSUME IInv, NEW i \in Invocation, AckGate(inv[i])
  PROVE  /\ \A n \in DOMAIN task[i] : task[i][n].pc \notin Granted
         /\ InFlight(inv[i])
  BY DEF IInv, GrantedIsAcknowledged, AckGate, InFlight, INFLIGHT_STATUSES

LEMMA AcknowledgedType ==
  ASSUME NEW v \in InvocationRecord
  PROVE  /\ Acknowledged(v) \in InvocationRecord
         /\ Acknowledged(v).status = "running"
         /\ Acknowledged(v).delivery = "acknowledged"
  BY DEF Acknowledged, InvocationRecord, Status, INFLIGHT_STATUSES, DeliveryState

LEMMA GrantStep ==
  ASSUME IInv, NEW i \in Invocation, NEW n \in DOMAIN task[i], NEW pc \in TaskPc,
         AckGate(inv[i]), inv' = [inv EXCEPT ![i] = Acknowledged(@)],
         Goto(i, n, pc), DeviceTypeOK'
  PROVE  Preserved
<1> DEFINE w == Acknowledged(inv[i])
<1>1. w \in InvocationRecord /\ w.status = "running" /\ w.delivery = "acknowledged"
  BY AcknowledgedType DEF IInv, TypeOK
<1>2. /\ inv' \in [Invocation -> InvocationRecord]
      /\ inv'[i] = w
      /\ \A j \in Invocation : j # i => inv'[j] = inv[j]
  BY <1>1 DEF IInv, TypeOK
<1> HIDE DEF w
<1>3. /\ task' \in [Invocation -> Seq(Task)]
      /\ \A j \in Invocation : DOMAIN task'[j] = DOMAIN task[j]
      /\ \A j \in Invocation : \A m \in DOMAIN task[j] :
             <<j, m>> # <<i, n>> => task'[j][m] = task[j][m]
  BY GotoType DEF IInv
<1>4. \A m \in DOMAIN task[i] : task[i][m].pc \notin Granted
  BY GateFacts
<1>5. \A m \in DOMAIN task'[i] : task'[i][m].pc \in Granted => m = n
  BY <1>3, <1>4
<1>6. \A j \in Invocation : j # i => \A m \in DOMAIN task'[j] :
          m \in DOMAIN task[j] /\ task'[j][m] = task[j][m]
  BY <1>3
<1>7. TypeOK'
  BY <1>2, <1>3 DEF TypeOK, DeviceTypeOK
<1>8. \A j \in Invocation : RecordOK(inv'[j])
  BY <1>1, <1>2 DEF IInv, RecordOK, Begun
<1>9. GrantedIsAcknowledged'
  BY <1>1, <1>2, <1>6 DEF IInv, GrantedIsAcknowledged
<1>10. AtMostOneExecution'
  BY <1>5, <1>6 DEF IInv, AtMostOneExecution
<1>11. \A j \in Invocation : InFlight(inv'[j]) => InFlight(inv[j])
  BY <1>2, GateFacts
<1>12. DirectoryExclusion'
  BY <1>11 DEF IInv, DirectoryExclusion
<1>13. RoomForIt
  BY <1>11 DEF RoomForIt, InFlightSet
<1> QED
  BY <1>7, <1>8, <1>9, <1>10, <1>12, <1>13 DEF IInv, Preserved

LEMMA HandleAckStep ==
  ASSUME IInv, NEW i \in Invocation, NEW n \in DOMAIN task[i], HandleAck(i, n)
  PROVE  Preserved
<1>1. DeviceTypeOK'
  BY DeviceType DEF IInv, TypeOK, HandleAck
<1>2. CASE AckGate(inv[i])
  <2>1. PICK pc \in TaskPc : Goto(i, n, pc)
    BY <1>2 DEF HandleAck, TaskPc, Granted, Alive
  <2>2. inv' = [inv EXCEPT ![i] = Acknowledged(@)]
    BY <1>2 DEF HandleAck
  <2> QED
    BY <1>1, <1>2, <2>1, <2>2, GrantStep
<1>3. CASE ~AckGate(inv[i])
  <2>1. "dropped" \in TaskPc /\ "dropped" \notin Granted
    BY DEF TaskPc, Granted, Alive
  <2>2. Goto(i, n, "dropped") /\ inv' = inv
    BY <1>3 DEF HandleAck
  <2> QED
    BY <1>1, <2>1, <2>2, NoneShrinks, MoveStep
<1> QED
  BY <1>2, <1>3

LEMMA HandleRefuseStep ==
  ASSUME IInv, NEW i \in Invocation, NEW n \in DOMAIN task[i], HandleRefuse(i, n)
  PROVE  Preserved
<1>1. DeviceTypeOK'
  BY DeviceType DEF IInv, TypeOK, HandleRefuse
<1>2. "dropped" \in TaskPc /\ "dropped" \notin Granted
  BY DEF TaskPc, Granted, Alive
<1>3. Goto(i, n, "dropped")
  BY DEF HandleRefuse
<1>4. RecordsShrink
  <2>1. CASE ~AckGate(inv[i])
    BY <2>1, NoneShrinks DEF HandleRefuse
  <2>2. CASE AckGate(inv[i])
    <3> DEFINE u == [inv[i] EXCEPT !.delivery = "refused"]
    <3>1. u \in InvocationRecord /\ RecordOK(u) /\ Shrinks(inv[i], u)
      BY <2>2 DEF IInv, TypeOK, InvocationRecord, RecordOK, Shrinks, InFlight,
                  DeliveryState, AckGate
    <3>2. Shrinks(inv[i], Completed(u, "failed"))
      BY <3>1, CompletedShrinks, ShrinksTrans DEF TerminalStatus
    <3>3. inv' = [inv EXCEPT ![i] = Completed(u, "failed")]
      BY <2>2 DEF HandleRefuse
    <3> QED
      BY <3>2, <3>3, OneShrinks
  <2> QED
    BY <2>1, <2>2
<1> QED
  BY <1>1, <1>2, <1>3, <1>4, MoveStep

LEMMA HandleCompleteStep ==
  ASSUME IInv, NEW i \in Invocation, NEW n \in DOMAIN task[i], HandleComplete(i, n)
  PROVE  Preserved
<1> DEFINE v == inv[i]
<1>1. DeviceTypeOK'
  BY DeviceType DEF IInv, TypeOK, HandleComplete
<1>2. Goto(i, n, "ended") /\ task[i][n].pc \in Granted /\ "ended" \in TaskPc
  BY DEF HandleComplete, At, TaskPc, Granted, Alive
<1>3. v \in InvocationRecord /\ RecordOK(v)
  BY DEF IInv, TypeOK
<1>4. PICK st \in ReportedStatus(task[i][n].pc) : \E w \in {v, Completed(v, st), Charged(v, st)} :
          inv' = [inv EXCEPT ![i] = w]
  BY DEF HandleComplete
<1>5. st \in TerminalStatus
  BY DeliveryAssumption DEF ReportedStatus, TerminalStatus
<1>6. Shrinks(v, v) /\ Shrinks(v, Completed(v, st)) /\ Shrinks(v, Charged(v, st))
  BY <1>3, <1>5, ShrinksRefl, CompletedShrinks, ChargedShrinks
<1>7. RecordsShrink
  BY <1>4, <1>6, OneShrinks
<1> QED
  BY <1>1, <1>2, <1>7, MoveStep

-----------------------------------------------------------------------------
(* The theorems.                                                           *)

LEMMA InitInv == Init => IInv
<1> SUFFICES ASSUME Init PROVE IInv
  OBVIOUS
<1>1. NotCreated \in InvocationRecord
  BY DEF NotCreated, InvocationRecord, Status, DeliveryState
<1>2. TypeOK
  <2>1. <<>> \in Seq(Task)
    OBVIOUS
  <2>2. task \in [Invocation -> Seq(Task)]
    BY <2>1 DEF Init
  <2>3. inv \in [Invocation -> InvocationRecord]
    BY <1>1 DEF Init
  <2> QED
    BY <2>2, <2>3 DEF Init, TypeOK, ProcState
<1> QED
  BY <1>2 DEF Init, IInv, NotCreated, RecordOK, GrantedIsAcknowledged, AtMostOneExecution,
              DirectoryExclusion, InFlight, INFLIGHT_STATUSES

LEMMA NextInv == IInv /\ [Next]_vars => Preserved
<1> SUFFICES ASSUME IInv, [Next]_vars PROVE Preserved
  OBVIOUS
<1>1. CASE DeviceStep \/ SweepOffline
  BY <1>1, UnlinkStep, DeviceLemma DEF DeviceStep
<1>2. ASSUME NEW s \in Session, ProcessStep(s) PROVE Preserved
  BY <1>2, RegisterStep, PollStep, ExitStep DEF ProcessStep
<1>3. ASSUME NEW i \in Invocation, UserStep(i) \/ SweepStep(i) PROVE Preserved
  BY <1>3, CreateStep, ApproveStep, DenyStep, CancelStep, SweepOfStep DEF UserStep
<1>4. ASSUME NEW i \in Invocation, NEW n \in DOMAIN task[i], DeliveryStep(i, n) PROVE Preserved
  BY <1>4, BridgeMoveStep, HandleAckStep, HandleRefuseStep, HandleCompleteStep
     DEF DeliveryStep, BridgeMove
<1>5. CASE UNCHANGED vars
  <2>1. inv' = inv /\ task' = task /\ DeviceTypeOK'
    BY <1>5 DEF vars, IInv, TypeOK, DeviceTypeOK
  <2> QED
    BY <2>1, DeviceOnlyStep
<1> QED
  BY <1>1, <1>2, <1>3, <1>4, <1>5 DEF Next

LEMMA Invariant == Spec => []IInv
<1>1. IInv /\ [Next]_vars => IInv'
  BY NextInv DEF Preserved
<1> QED
  BY <1>1, InitInv, PTL DEF Spec

\* The server's records, its knowledge of the device and the deliveries keep their
\* types, whatever the handlers of dispatch.mjs, cancellation.mjs, completion.mjs and
\* routes/bridge.mjs do to them and in whatever order.
THEOREM DeliveryTypeOK == Spec => []TypeOK
<1>1. IInv => TypeOK
  BY DEF IInv
<1> QED
  BY <1>1, Invariant, PTL

\* However often an invocation is handed out again, to however many bridge processes,
\* the gate of the ack route (routes/bridge.mjs:692-699) lets one delivery start.
THEOREM OneExecution == Spec => []AtMostOneExecution
<1>1. IInv => AtMostOneExecution
  BY DEF IInv
<1> QED
  BY <1>1, Invariant, PTL

-----------------------------------------------------------------------------
(* What a step may make of the record of one invocation.                   *)

\* It ends, with the cause that a runtime deadline decides.
Ends(v, w) ==
    /\ InFlight(v)
    /\ w \in InvocationRecord
    /\ w.status \in {"succeeded", "failed", "cancelled", "timed_out"}
    /\ v.deadline => w.status = "timed_out"
    /\ w.cancel \in {v.cancel, "applied"}
    /\ w.deadline = v.deadline /\ w.approval = v.approval /\ w.attempts = v.attempts

EndsUncharged(v, w) == Ends(v, w) /\ w.charges = v.charges

\* A poll or a registration leaves it, or a lease lapsed, a hand-over drained or a
\* cancellation ran out of grace.
Reclaim(v, w) ==
    \/ w = v
    \/ v.status = "dispatching" /\ v.attempts < MAX_DISPATCH_ATTEMPTS /\ w = Requeued(v)
    \/ EndsUncharged(v, w)

\* A poll leases it.
Lease(v, w) ==
    \E u \in InvocationRecord : Reclaim(v, u) /\ u.status = "queued" /\ w = Dispatched(u)

Submit(v, w) ==
    /\ v.status = "none"
    /\ \/ w = [v EXCEPT !.status = "rejected"]
       \/ w = [v EXCEPT !.status = "waiting_for_local_approval", !.approval = "pending"]
       \/ w = [v EXCEPT !.status = "queued", !.delivery = "queued"]

Decision(v, w) ==
    /\ AwaitsDecision(v)
    /\ \/ w = [v EXCEPT !.approval = "approved", !.status = "queued",
                        !.delivery = "queued", !.attempts = 0]
       \/ w = [v EXCEPT !.approval = "denied", !.status = "rejected"]

\* It is told to stop: by the user, the unlink of the device, or its deadline.
Stop(v, w) ==
    \/ v.status \in WaitingStatus /\ w = QueuedCancelled(v)
    \/ InFlight(v) /\ w = CancelRequested(v)
    \/ v.status = "running" /\ w = CancelRequested([v EXCEPT !.deadline = TRUE])

\* All but a report, a new session and a lease.
Plain(v, w) ==
    \/ Reclaim(v, w) \/ Submit(v, w) \/ Decision(v, w) \/ Stop(v, w)
    \/ AckGate(v) /\ w = Acknowledged(v)

LEMMA CompletedEnds ==
  ASSUME NEW v \in InvocationRecord, InFlight(v),
         NEW st \in {"succeeded", "failed", "cancelled", "timed_out"}
  PROVE  EndsUncharged(v, Completed(v, st))
  BY DEF EndsUncharged, Ends, Completed, InvocationRecord, IsTerminal, TerminalStatus, InFlight,
         INFLIGHT_STATUSES, Status

LEMMA ChargedEnds ==
  ASSUME NEW v \in InvocationRecord, InFlight(v),
         NEW st \in {"succeeded", "failed", "cancelled", "timed_out"}
  PROVE  Ends(v, Charged(v, st)) /\ Charged(v, st).charges = v.charges + 1
<1> DEFINE u == Completed(v, st)
<1>1. EndsUncharged(v, u) /\ u \in InvocationRecord /\ u.charges \in Nat
  BY CompletedEnds DEF EndsUncharged, Ends, InvocationRecord
<1> HIDE DEF u
<1> DEFINE w == [u EXCEPT !.charges = u.charges + 1]
<1>2. /\ w \in InvocationRecord
      /\ w.charges = u.charges + 1
      /\ w.status = u.status /\ w.cancel = u.cancel /\ w.deadline = u.deadline
      /\ w.approval = u.approval /\ w.attempts = u.attempts
  BY <1>1 DEF InvocationRecord
<1>3. Charged(v, st) = w
  BY DEF Charged, u, IsTerminal, InFlight, TerminalStatus, INFLIGHT_STATUSES
<1> QED
  BY <1>1, <1>2, <1>3 DEF EndsUncharged, Ends

LEMMA LapsedReclaim ==
  ASSUME NEW v \in InvocationRecord, v.status = "dispatching"
  PROVE  Reclaim(v, LeaseLapsed(v))
<1> DEFINE u == [v EXCEPT !.delivery = "exhausted"]
<1>1. u \in InvocationRecord /\ InFlight(u) /\ InFlight(v)
  BY DEF InvocationRecord, DeliveryState, InFlight, INFLIGHT_STATUSES
<1>2. EndsUncharged(u, Completed(u, "failed"))
  BY <1>1, CompletedEnds
<1>3. EndsUncharged(v, Completed(u, "failed"))
  BY <1>1, <1>2 DEF EndsUncharged, Ends, InvocationRecord
<1>4. v.attempts \in Nat /\ MAX_DISPATCH_ATTEMPTS \in Nat
  BY DeliveryAssumption DEF InvocationRecord
<1>5. CASE v.attempts >= MAX_DISPATCH_ATTEMPTS
  BY <1>3, <1>5 DEF LeaseLapsed, Reclaim
<1>6. CASE ~(v.attempts >= MAX_DISPATCH_ATTEMPTS)
  <2>1. v.attempts < MAX_DISPATCH_ATTEMPTS
    BY <1>4, <1>6
  <2> QED
    BY <1>6, <2>1 DEF LeaseLapsed, Reclaim
<1> QED
  BY <1>5, <1>6

LEMMA DrainedReclaim ==
  ASSUME NEW v \in InvocationRecord, InFlight(v)
  PROVE  EndsUncharged(v, SupersededReclaimed(v))
<1> DEFINE u == [v EXCEPT !.superseded = FALSE]
<1>1. u \in InvocationRecord /\ InFlight(u)
  BY DEF InvocationRecord, InFlight
<1>2. EndsUncharged(u, SupersededReclaimed(v))
  BY <1>1, CompletedEnds DEF SupersededReclaimed
<1> QED
  BY <1>1, <1>2 DEF EndsUncharged, Ends, InvocationRecord

LEMMA RedeliveredReclaim ==
  ASSUME NEW v \in InvocationRecord, NEW i, NEW lapsed, NEW drained,
         i \in lapsed => v.status = "dispatching",
         i \in drained => InFlight(v)
  PROVE  Reclaim(v, Redelivered(v, i, lapsed, drained))
  BY LapsedReclaim, DrainedReclaim DEF Redelivered, Reclaim

LEMMA SweptReclaim ==
  ASSUME IInv, NEW lapsed \in SUBSET MayLapse, NEW drained \in SUBSET MayDrain,
         NEW expired \in SUBSET MayExpire, NEW i \in Invocation
  PROVE  Reclaim(inv[i], Swept(lapsed, drained, expired)[i])
<1> DEFINE v == inv[i]
           u == Redelivered(v, i, lapsed, drained)
<1>1. v \in InvocationRecord
  BY DEF IInv, TypeOK
<1>2. Reclaim(v, u)
  BY <1>1, RedeliveredReclaim DEF MayLapse, MayDrain
<1>3. Swept(lapsed, drained, expired)[i] = StuckReclaimed(u, i, expired)
  BY DEF Swept
<1> HIDE DEF u
<1>4. u.status = "cancelling" => u = v
  BY <1>1, <1>2 DEF Reclaim, EndsUncharged, Ends, Requeued, InvocationRecord
<1>5. u.status = "cancelling" => EndsUncharged(v, Completed(u, "cancelled"))
  BY <1>1, <1>4, CompletedEnds DEF InFlight, INFLIGHT_STATUSES
<1> QED
  BY <1>2, <1>3, <1>5 DEF StuckReclaimed, Reclaim

\* Which step does what to a record.
Reports(i) == \E n \in DOMAIN task[i] :
    /\ HandleComplete(i, n)
    /\ Ends(inv[i], inv'[i])
    /\ inv'[i].charges \in {inv[i].charges, inv[i].charges + 1}

SameSession ==
    /\ current' = current
    /\ \A s \in Session : proc'[s] = "starting" => proc[s] = "starting"
    /\ \A s \in Session : proc[s] = "starting" => proc'[s] = "starting" \/ s = current

OrdinaryStep ==
    /\ SameSession
    /\ linked' \/ ~linked \/ Unlink
    /\ \A i \in Invocation : Plain(inv[i], inv'[i]) \/ Reports(i)

NewSession(s) ==
    /\ linked' /\ current # s /\ current' = s
    /\ proc[s] = "starting" /\ proc' \in {proc, [proc EXCEPT ![s] = "up"]}
    /\ \A i \in Invocation : Reclaim(Fenced(inv[i]), inv'[i])

LeaseStepOf(s) ==
    /\ linked' /\ SameSession
    /\ current = s /\ proc[s] = "up"
    /\ \A i \in Invocation : Reclaim(inv[i], inv'[i]) \/ Lease(inv[i], inv'[i])

LEMMA UserKind ==
  ASSUME IInv, NEW i \in Invocation, UserStep(i) \/ SweepStep(i)
  PROVE  OrdinaryStep
<1>1. SameSession /\ linked' = linked
  BY DEF UserStep, SweepStep, Create, Approve, Deny, Cancel, SweepDeadline, SweepInterrupted,
         SweepOfflineRun, bridge, SameSession
<1>2. inv \in [Invocation -> InvocationRecord] /\ linked \in BOOLEAN
  BY DEF IInv, TypeOK
<1> DEFINE v == inv[i]
<1>3. \E w : inv' = [inv EXCEPT ![i] = w] /\ Plain(v, w)
  <2>1. CASE Create(i)
    BY <2>1 DEF Create, Plain, Submit
  <2>2. CASE Approve(i) \/ Deny(i)
    BY <2>2 DEF Approve, Deny, Plain, Decision
  <2>3. CASE Cancel(i)
    <3>1. v.status \in WaitingStatus \/ InFlight(v)
      BY <1>2, <2>3 DEF Cancel, InvocationRecord, Status, InFlight, IsTerminal
    <3> QED
      BY <2>3, <3>1 DEF Cancel, Cancelled, Plain, Stop
  <2>4. CASE SweepDeadline(i)
    <3>1. v.status = "running" /\ [v EXCEPT !.deadline = TRUE].status = "running"
      BY <1>2, <2>4 DEF SweepDeadline, InvocationRecord
    <3>2. inv' = [inv EXCEPT ![i] = CancelRequested([v EXCEPT !.deadline = TRUE])]
      BY <2>4, <3>1 DEF SweepDeadline, Cancelled, WaitingStatus
    <3> QED
      BY <3>1, <3>2 DEF Plain, Stop
  <2>5. CASE SweepInterrupted(i) \/ SweepOfflineRun(i)
    <3>1. InFlight(v) /\ inv' = [inv EXCEPT ![i] = Completed(v, "timed_out")]
      BY <2>5 DEF SweepInterrupted, SweepOfflineRun, InFlight, INFLIGHT_STATUSES
    <3> QED
      BY <1>2, <3>1, CompletedEnds DEF Plain, Reclaim
  <2> QED
    BY <2>1, <2>2, <2>3, <2>4, <2>5 DEF UserStep, SweepStep
<1>4. \A j \in Invocation : Plain(inv[j], inv'[j])
  BY <1>2, <1>3 DEF Plain, Reclaim
<1> QED
  BY <1>1, <1>2, <1>4 DEF OrdinaryStep

LEMMA DeviceKind ==
  ASSUME IInv, DeviceStep \/ SweepOffline \/ UNCHANGED vars
  PROVE  OrdinaryStep
<1>1. SameSession
  BY DEF DeviceStep, Unlink, Relink, SweepOffline, bridge, SameSession, vars
<1>2. linked' \/ ~linked \/ Unlink
  BY DEF DeviceStep, Relink, SweepOffline, vars, IInv, TypeOK
<1>3. \A i \in Invocation : inv'[i] = inv[i] \/ inv'[i] = Unlinked(inv[i])
  BY DEF DeviceStep, Unlink, Relink, SweepOffline, vars
<1>4. \A i \in Invocation : Plain(inv[i], Unlinked(inv[i]))
  BY DEF Unlinked, Plain, Stop, Reclaim, InFlight, INFLIGHT_STATUSES
<1> QED
  BY <1>1, <1>2, <1>3, <1>4 DEF OrdinaryStep, Plain, Reclaim

LEMMA RegisterKind ==
  ASSUME IInv, NEW s \in Session, Register(s)
  PROVE  OrdinaryStep \/ NewSession(s)
<1> DEFINE fenced == [i \in Invocation |-> IF current = s THEN inv[i] ELSE Fenced(inv[i])]
<1>1. PICK drained, lapsed :
         /\ \A i \in Invocation : i \in lapsed => fenced[i].status = "dispatching"
         /\ \A i \in Invocation : i \in drained => InFlight(fenced[i])
         /\ inv' = [i \in Invocation |-> Redelivered(fenced[i], i, lapsed, drained)]
  BY DEF Register
<1>2. ASSUME NEW i \in Invocation PROVE fenced[i] \in InvocationRecord
  BY FencedShrinks DEF IInv, TypeOK, Shrinks
<1> HIDE DEF fenced
<1>3. \A i \in Invocation : Reclaim(fenced[i], inv'[i])
  BY <1>1, <1>2, RedeliveredReclaim
<1>4. proc[s] = "starting" /\ linked' /\ current' = s /\ proc' \in {proc, [proc EXCEPT ![s] = "up"]}
  BY DEF Register, IInv, TypeOK
<1>5. CASE current = s
  <2>1. SameSession
    BY <1>4, <1>5 DEF SameSession, IInv, TypeOK
  <2> QED
    BY <1>3, <1>4, <1>5, <2>1 DEF OrdinaryStep, Plain, fenced
<1>6. CASE current # s
  BY <1>3, <1>4, <1>6 DEF NewSession, fenced
<1> QED
  BY <1>5, <1>6

LEMMA PollKind ==
  ASSUME IInv, NEW s \in Session, Poll(s)
  PROVE  LeaseStepOf(s)
<1>1. PICK lapsed \in SUBSET MayLapse, drained \in SUBSET MayDrain, expired \in SUBSET MayExpire :
          PollWith(s, Swept(lapsed, drained, expired))
  BY DEF Poll
<1> DEFINE f == Swept(lapsed, drained, expired)
<1>2. /\ f = [i \in Invocation |-> f[i]]
      /\ \A i \in Invocation : Reclaim(inv[i], f[i])
      /\ \A i \in Invocation : f[i] \in InvocationRecord
  BY SweptShrinks, SweptReclaim DEF Shrinks
<1>3. PollWith(s, f)
  BY <1>1
<1> HIDE DEF f
<1>4. SameSession /\ linked' /\ current = s /\ proc[s] = "up"
  BY <1>3 DEF PollWith, SameSession, Poll, Authentic
<1>5. ASSUME NEW i \in Dispatchable(f), inv' = [f EXCEPT ![i] = Dispatched(@)],
             NEW j \in Invocation
      PROVE  Reclaim(inv[j], inv'[j]) \/ Lease(inv[j], inv'[j])
  <2>1. i \in Invocation /\ f[i].status = "queued"
    BY DEF Dispatchable, Eligible
  <2>2. inv'[j] = IF j = i THEN Dispatched(f[i]) ELSE f[j]
    BY <1>2, <1>5, <2>1
  <2> QED
    BY <1>2, <2>1, <2>2 DEF Lease
<1> QED
  BY <1>2, <1>3, <1>4, <1>5 DEF PollWith, LeaseStepOf

LEMMA ExitKind ==
  ASSUME IInv, NEW s \in Session, ExitBridge(s)
  PROVE  OrdinaryStep
<1>1. SameSession /\ inv' = inv /\ linked' = linked
  BY DEF ExitBridge, SameSession, server, IInv, TypeOK
<1> QED
  BY <1>1 DEF OrdinaryStep, Plain, Reclaim, IInv, TypeOK

LEMMA DeliveryKind ==
  ASSUME IInv, NEW i \in Invocation, NEW n \in DOMAIN task[i], DeliveryStep(i, n)
  PROVE  OrdinaryStep
<1> DEFINE v == inv[i]
<1>1. SameSession /\ linked' = linked
  BY DEF DeliveryStep, SendAck, SendRefuse, Begin, DeliverCancel, ExecutorEnds, OrphanEnds,
         SendComplete, Lose, HandleAck, HandleRefuse, HandleComplete, Authenticated, server,
         SameSession
<1>2. inv \in [Invocation -> InvocationRecord] /\ linked \in BOOLEAN /\ v \in InvocationRecord
  BY DEF IInv, TypeOK
<1>3. CASE inv' = inv
  BY <1>1, <1>2, <1>3 DEF OrdinaryStep, Plain, Reclaim
<1>4. CASE HandleAck(i, n) /\ AckGate(v)
  BY <1>1, <1>2, <1>4 DEF HandleAck, OrdinaryStep, Plain, Reclaim
<1>5. CASE HandleRefuse(i, n) /\ AckGate(v)
  <2> DEFINE u == [v EXCEPT !.delivery = "refused"]
  <2>1. u \in InvocationRecord /\ InFlight(u) /\ InFlight(v)
    BY <1>2, <1>5 DEF InvocationRecord, DeliveryState, InFlight, INFLIGHT_STATUSES, AckGate
  <2>2. EndsUncharged(v, Completed(u, "failed"))
    BY <1>2, <2>1, CompletedEnds DEF EndsUncharged, Ends, InvocationRecord
  <2>3. inv' = [inv EXCEPT ![i] = Completed(u, "failed")]
    BY <1>5 DEF HandleRefuse
  <2> QED
    BY <1>1, <1>2, <2>2, <2>3 DEF OrdinaryStep, Plain, Reclaim
<1>6. CASE HandleComplete(i, n) /\ CompleteGate(v)
  <2>1. PICK st \in ReportedStatus(task[i][n].pc) :
            \E w \in {Completed(v, st), Charged(v, st)} : inv' = [inv EXCEPT ![i] = w]
    BY <1>6 DEF HandleComplete
  <2>2. st \in {"succeeded", "failed", "cancelled", "timed_out"} /\ InFlight(v)
    BY <1>6, DeliveryAssumption DEF ReportedStatus, CompleteGate, InFlight, INFLIGHT_STATUSES
  <2>3. Ends(v, inv'[i]) /\ inv'[i].charges \in {v.charges, v.charges + 1}
    BY <1>2, <2>1, <2>2, CompletedEnds, ChargedEnds DEF EndsUncharged
  <2>4. Reports(i)
    BY <1>6, <2>3 DEF Reports
  <2>5. \A j \in Invocation : j # i => inv'[j] = inv[j]
    BY <1>2, <2>1
  <2> QED
    BY <1>1, <1>2, <2>4, <2>5 DEF OrdinaryStep, Plain, Reclaim
<1>7. CASE HandleComplete(i, n) /\ ~CompleteGate(v)
  <2>1. inv' = inv
    BY <1>2, <1>7 DEF HandleComplete
  <2> QED
    BY <1>3, <2>1
<1>8. HandleAck(i, n) /\ ~AckGate(v) => inv' = inv
  BY DEF HandleAck
<1>9. HandleRefuse(i, n) /\ ~AckGate(v) => inv' = inv
  BY DEF HandleRefuse
<1>10. BridgeMove(i, n) => inv' = inv
  BY BridgeMoveFacts
<1> QED
  BY <1>3, <1>4, <1>5, <1>6, <1>7, <1>8, <1>9, <1>10 DEF DeliveryStep, BridgeMove

LEMMA StepKind ==
  ASSUME IInv, [Next]_vars
  PROVE  OrdinaryStep \/ \E s \in Session : NewSession(s) \/ LeaseStepOf(s)
<1>1. CASE DeviceStep \/ SweepOffline \/ UNCHANGED vars
  BY <1>1, DeviceKind
<1>2. ASSUME NEW s \in Session, ProcessStep(s)
      PROVE  OrdinaryStep \/ NewSession(s) \/ LeaseStepOf(s)
  BY <1>2, RegisterKind, PollKind, ExitKind DEF ProcessStep
<1>3. ASSUME NEW i \in Invocation, UserStep(i) \/ SweepStep(i) PROVE OrdinaryStep
  BY <1>3, UserKind
<1>4. ASSUME NEW i \in Invocation, NEW n \in DOMAIN task[i], DeliveryStep(i, n)
      PROVE  OrdinaryStep
  BY <1>4, DeliveryKind
<1> QED
  BY <1>1, <1>2, <1>3, <1>4 DEF Next

-----------------------------------------------------------------------------
(* The properties of one record.                                           *)

\* An interrupted run is being stopped or timed out, and what is not permitted
\* neither waits for a bridge nor was acknowledged.
Sound(v) ==
    /\ v.deadline => v.status \in {"cancelling", "timed_out"}
    /\ v.cancel = "queued_cancelled" => v.status = "cancelled"
    /\ NotPermitted(v) =>
          /\ v.status \in {"waiting_for_local_approval", "rejected", "cancelled"}
          /\ v.delivery # "acknowledged"

\* What an unlinked device may hold.
Idle(v) ==
    /\ v.status \notin {"dispatching", "running"}
    /\ v.status = "queued" => v.delivery = "queued"

LEMMA EndsSound ==
  ASSUME NEW v \in InvocationRecord, Sound(v), NEW w, Ends(v, w)
  PROVE  Sound(w)
<1>1. ~NotPermitted(v)
  BY DEF Ends, Sound, InFlight, INFLIGHT_STATUSES
<1> QED
  BY <1>1 DEF Ends, Sound, NotPermitted

LEMMA ReclaimSound ==
  ASSUME NEW v \in InvocationRecord, Sound(v), NEW w, Reclaim(v, w)
  PROVE  Sound(w)
<1>1. CASE v.status = "dispatching" /\ w = Requeued(v)
  BY <1>1 DEF Requeued, Sound, NotPermitted, InvocationRecord
<1> QED
  BY <1>1, EndsSound DEF Reclaim, EndsUncharged

LEMMA StopSound ==
  ASSUME NEW v \in InvocationRecord, RecordOK(v), Sound(v), NEW w, Stop(v, w)
  PROVE  Sound(w)
<1>1. CASE v.status \in WaitingStatus /\ w = QueuedCancelled(v)
  BY <1>1 DEF QueuedCancelled, Sound, NotPermitted, InvocationRecord, RecordOK, Begun,
              TerminalStatus, WaitingStatus
<1>2. CASE InFlight(v) /\ w = CancelRequested(v)
  BY <1>2 DEF CancelRequested, Sound, NotPermitted, InvocationRecord, InFlight,
              INFLIGHT_STATUSES
<1>3. CASE v.status = "running" /\ w = CancelRequested([v EXCEPT !.deadline = TRUE])
  BY <1>3 DEF CancelRequested, Sound, NotPermitted, InvocationRecord
<1> QED
  BY <1>1, <1>2, <1>3 DEF Stop

LEMMA PlainSound ==
  ASSUME NEW v \in InvocationRecord, RecordOK(v), Sound(v), NEW w, Plain(v, w)
  PROVE  Sound(w)
<1>1. CASE Submit(v, w)
  BY <1>1 DEF Submit, Sound, NotPermitted, InvocationRecord, RecordOK, Begun, TerminalStatus
<1>3. CASE Decision(v, w)
  BY <1>3 DEF Decision, AwaitsDecision, Sound, NotPermitted, InvocationRecord, RecordOK, Begun,
              TerminalStatus
<1>2. CASE AckGate(v) /\ w = Acknowledged(v)
  BY <1>2 DEF AckGate, Acknowledged, Sound, NotPermitted, InvocationRecord
<1> QED
  BY <1>1, <1>2, <1>3, ReclaimSound, StopSound DEF Plain

LEMMA FencedSound ==
  ASSUME NEW v \in InvocationRecord, Sound(v)
  PROVE  Fenced(v) \in InvocationRecord /\ Sound(Fenced(v))
<1>1. CASE v.status = "dispatching"
  BY <1>1 DEF Fenced, Requeued, Sound, NotPermitted, InvocationRecord, Status, WaitingStatus,
              DeliveryState
<1>2. CASE v.status # "dispatching"
  BY <1>2 DEF Fenced, Sound, NotPermitted, InvocationRecord
<1> QED
  BY <1>1, <1>2

LEMMA LeaseSound ==
  ASSUME NEW v \in InvocationRecord, Sound(v), NEW w, Lease(v, w)
  PROVE  Sound(w)
<1>1. PICK u \in InvocationRecord : Reclaim(v, u) /\ u.status = "queued" /\ w = Dispatched(u)
  BY DEF Lease
<1>2. Sound(u)
  BY <1>1, ReclaimSound
<1>3. /\ w.status = "dispatching" /\ w.deadline = u.deadline
      /\ w.approval = u.approval /\ w.cancel = u.cancel
  BY <1>1 DEF Dispatched, InvocationRecord
<1> QED
  BY <1>1, <1>2, <1>3 DEF Sound, NotPermitted

SoundRecords == \A i \in Invocation : Sound(inv[i])

LEMMA NextSound ==
  ASSUME IInv, SoundRecords, [Next]_vars
  PROVE  SoundRecords'
<1> SUFFICES ASSUME NEW i \in Invocation PROVE Sound(inv'[i])
  BY DEF SoundRecords
<1>1. inv[i] \in InvocationRecord /\ RecordOK(inv[i]) /\ Sound(inv[i])
  BY DEF IInv, TypeOK, SoundRecords
<1>2. CASE OrdinaryStep
  BY <1>1, <1>2, PlainSound, EndsSound DEF OrdinaryStep, Reports
<1>3. ASSUME NEW s \in Session, NewSession(s) PROVE Sound(inv'[i])
  BY <1>1, <1>3, FencedSound, ReclaimSound DEF NewSession
<1>4. ASSUME NEW s \in Session, LeaseStepOf(s) PROVE Sound(inv'[i])
  BY <1>1, <1>4, ReclaimSound, LeaseSound DEF LeaseStepOf
<1> QED
  BY <1>2, <1>3, <1>4, StepKind

LEMMA SoundInvariant == Spec => []SoundRecords
<1>1. Init => SoundRecords
  BY DEF Init, SoundRecords, Sound, NotCreated, NotPermitted
<1>2. IInv /\ SoundRecords /\ [Next]_vars => SoundRecords'
  BY NextSound
<1> QED
  BY <1>1, <1>2, Invariant, PTL DEF Spec

\* A run that its runtime deadline interrupted ends as timed out, whoever ends it and
\* whatever a late report says (completion.mjs:44-64).
THEOREM InterruptedTimesOut == Spec => []DeadlineEndsTimedOut
<1>1. SoundRecords => DeadlineEndsTimedOut
  BY DEF SoundRecords, Sound, DeadlineEndsTimedOut, IsTerminal, TerminalStatus
<1> QED
  BY <1>1, SoundInvariant, PTL

\* No permission, no start: an invocation that was rejected, denied or cancelled while
\* it waited was never granted an ack and never is (approval.mjs:164-223,
\* cancellation.mjs:78-110).
THEOREM StartsArePermitted == Spec => []NeverStartsUnpermitted
<1>1. IInv /\ SoundRecords => NeverStartsUnpermitted
  BY DEF IInv, GrantedIsAcknowledged, SoundRecords, Sound, NeverStartsUnpermitted
<1> QED
  BY <1>1, Invariant, SoundInvariant, PTL

LEMMA PlainOnItsWay ==
  ASSUME NEW v \in InvocationRecord, OnItsWay(v), NEW w, Plain(v, w)
  PROVE  OnItsWay(w)
<1>1. CASE Reclaim(v, w)
  BY <1>1 DEF Reclaim, Requeued, EndsUncharged, Ends, OnItsWay, InvocationRecord
<1>2. CASE Submit(v, w) \/ Decision(v, w)
  BY <1>2 DEF Submit, Decision, OnItsWay, AwaitsDecision, InvocationRecord
<1>3. CASE Stop(v, w)
  BY <1>3 DEF Stop, QueuedCancelled, CancelRequested, OnItsWay, InvocationRecord
<1>4. CASE w = Acknowledged(v)
  BY <1>4 DEF Acknowledged, OnItsWay, InvocationRecord
<1> QED
  BY <1>1, <1>2, <1>3, <1>4 DEF Plain

LEMMA FencedOnItsWay ==
  ASSUME NEW v \in InvocationRecord, OnItsWay(v)
  PROVE  Fenced(v) \in InvocationRecord /\ OnItsWay(Fenced(v))
<1>1. CASE v.status = "dispatching"
  BY <1>1 DEF Fenced, Requeued, OnItsWay, InvocationRecord, Status, WaitingStatus, DeliveryState
<1>2. CASE v.status # "dispatching"
  BY <1>2 DEF Fenced, OnItsWay, AwaitsDecision, InvocationRecord
<1> QED
  BY <1>1, <1>2

LEMMA NextOnItsWay ==
  ASSUME IInv, NothingStrands, [Next]_vars
  PROVE  NothingStrands'
<1> SUFFICES ASSUME NEW i \in Invocation PROVE OnItsWay(inv'[i])
  BY DEF NothingStrands, OnItsWay, AwaitsDecision
<1>1. inv[i] \in InvocationRecord /\ OnItsWay(inv[i])
  BY DEF IInv, TypeOK, NothingStrands
<1>2. CASE OrdinaryStep
  <2>1. Ends(inv[i], inv'[i]) => OnItsWay(inv'[i])
    BY DEF Ends, OnItsWay
  <2> QED
    BY <1>1, <1>2, <2>1, PlainOnItsWay DEF OrdinaryStep, Reports
<1>3. ASSUME NEW s \in Session, NewSession(s) PROVE OnItsWay(inv'[i])
  BY <1>1, <1>3, FencedOnItsWay, PlainOnItsWay DEF NewSession, Plain
<1>4. ASSUME NEW s \in Session, LeaseStepOf(s) PROVE OnItsWay(inv'[i])
  <2>1. Lease(inv[i], inv'[i]) => OnItsWay(inv'[i])
    BY DEF Lease, Dispatched, OnItsWay, InvocationRecord
  <2> QED
    BY <1>1, <1>4, <2>1, PlainOnItsWay DEF LeaseStepOf, Plain
<1> QED
  BY <1>2, <1>3, <1>4, StepKind

\* The part of EverythingEnds that no fairness can repair: over any leases, lapses, acks,
\* hand-overs and withdrawals, what has not ended is always where the selector, the
\* reclaim of leases or a gate looks for it (dispatch.mjs:169-178, 223-277).
THEOREM NobodyStrands == Spec => []NothingStrands
<1>1. Init => NothingStrands
  BY DEF Init, NothingStrands, OnItsWay, NotCreated
<1>2. IInv /\ NothingStrands /\ [Next]_vars => NothingStrands'
  BY NextOnItsWay
<1> QED
  BY <1>1, <1>2, Invariant, PTL DEF Spec

LEMMA PlainIdle ==
  ASSUME NEW v \in InvocationRecord, Idle(v), NEW w, Plain(v, w)
  PROVE  Idle(w)
<1>1. CASE Reclaim(v, w)
  BY <1>1 DEF Reclaim, EndsUncharged, Ends, Idle
<1>2. CASE Submit(v, w) \/ Decision(v, w)
  BY <1>2 DEF Submit, Decision, Idle, InvocationRecord
<1>3. CASE Stop(v, w)
  BY <1>3 DEF Stop, QueuedCancelled, CancelRequested, Idle, InvocationRecord
<1> QED
  BY <1>1, <1>2, <1>3 DEF Plain, AckGate, Idle

UnlinkedIdle == ~linked => \A i \in Invocation : Idle(inv[i])

LEMMA NextUnlinked ==
  ASSUME IInv, UnlinkedIdle, [Next]_vars
  PROVE  UnlinkedIdle'
<1> SUFFICES ASSUME ~linked', NEW i \in Invocation PROVE Idle(inv'[i])
  BY DEF UnlinkedIdle, Idle
<1>1. inv[i] \in InvocationRecord
  BY DEF IInv, TypeOK
<1>2. OrdinaryStep
  BY StepKind DEF NewSession, LeaseStepOf
<1>3. CASE Unlink
  <2>1. inv'[i] = Unlinked(inv[i])
    BY <1>3 DEF Unlink
  <2> QED
    BY <1>1, <2>1 DEF Unlinked, QueuedCancelled, CancelRequested, WaitingStatus, Idle,
                      InvocationRecord
<1>4. CASE ~linked
  <2>1. Idle(inv[i])
    BY <1>4 DEF UnlinkedIdle
  <2>2. CASE Plain(inv[i], inv'[i])
    BY <1>1, <2>1, <2>2, PlainIdle
  <2>3. CASE Reports(i)
    BY <2>3 DEF Reports, Ends, Idle
  <2> QED
    BY <1>2, <2>2, <2>3 DEF OrdinaryStep
<1> QED
  BY <1>2, <1>3, <1>4 DEF OrdinaryStep

\* "Device unlinking blocks new dispatch immediately" (STATE_MACHINE.md:341), and an
\* ack, a poll or a registration that was on its way does not undo it
\* (service-composer.mjs:7265-7300).
THEOREM UnlinkedHoldsNothing == Spec => []UnlinkedHoldsNoWork
<1>1. UnlinkedIdle => UnlinkedHoldsNoWork
  BY DEF UnlinkedHoldsNoWork, UnlinkedIdle, Idle
<1>2. Init => UnlinkedIdle
  BY DEF Init, UnlinkedIdle
<1>3. IInv /\ UnlinkedIdle /\ [Next]_vars => UnlinkedIdle'
  BY NextUnlinked
<1> QED
  BY <1>1, <1>2, <1>3, Invariant, PTL DEF Spec

-----------------------------------------------------------------------------
(* The attempts to deliver.                                                *)

\* The bridge processes that count: each but the first allows one more attempt.
Registered == {s \in Session : proc[s] # "starting"} \cup {current}

Bounded(v, k) ==
    /\ v.attempts < MAX_DISPATCH_ATTEMPTS + k
    /\ v.status \in {"none", "queued"} => v.attempts + 1 < MAX_DISPATCH_ATTEMPTS + k

AttemptInv ==
    \A i \in Invocation :
        /\ Bounded(inv[i], Cardinality(Registered))
        /\ inv[i].status = "dispatching" => current \in Session /\ proc[current] # "starting"

LEMMA RegisteredCount ==
  ASSUME IsFiniteSet(Session)
  PROVE  /\ Cardinality(Registered) \in Nat \ {0}
         /\ Cardinality(Registered') \in Nat \ {0}
<1>1. ASSUME NEW S \in SUBSET Session, NEW c
      PROVE  Cardinality(S \cup {c}) \in Nat \ {0}
  <2>1. IsFiniteSet(S) /\ Cardinality(S) \in Nat
    BY <1>1, FS_Subset, FS_CardinalityType
  <2>2. IsFiniteSet(S \cup {c})
    BY <2>1, FS_AddElement
  <2>3. Cardinality(S \cup {c}) \in Nat
    BY <2>2, FS_CardinalityType
  <2>4. Cardinality(S \cup {c}) # 0
    BY <2>2, FS_EmptySet
  <2> QED
    BY <2>3, <2>4
<1> QED
  BY <1>1 DEF Registered

LEMMA SameRegistered ==
  ASSUME SameSession
  PROVE  Registered' = Registered
  BY DEF SameSession, Registered

LEMMA NewRegistered ==
  ASSUME TypeOK, IsFiniteSet(Session), NEW s \in Session, NewSession(s)
  PROVE  /\ Cardinality(Registered) <= Cardinality(Registered')
         /\ current \in Session /\ proc[current] # "starting"
               => Cardinality(Registered') = Cardinality(Registered) + 1
<1> DEFINE S == {t \in Session : proc[t] # "starting"}
<1>1. IsFiniteSet(S) /\ Cardinality(S) \in Nat
  BY FS_Subset, FS_CardinalityType
<1>2. Registered' = S \cup {s} /\ s \notin S
  BY DEF Registered, NewSession, TypeOK
<1>3. Registered = S \cup {current}
  BY DEF Registered
<1>4. current \in Session /\ proc[current] # "starting" => Registered = S
  BY <1>3
<1> HIDE DEF S
<1>5. Cardinality(Registered') = Cardinality(S) + 1
  BY <1>1, <1>2, FS_AddElement
<1>6. Cardinality(Registered) \in {Cardinality(S), Cardinality(S) + 1}
  BY <1>1, <1>3, FS_AddElement
<1> QED
  BY <1>1, <1>4, <1>5, <1>6

LEMMA ReclaimBounded ==
  ASSUME NEW v \in InvocationRecord, NEW k \in Nat \ {0}, Bounded(v, k), NEW w, Reclaim(v, w)
  PROVE  /\ Bounded(w, k)
         /\ w.status = "dispatching" => v.status = "dispatching"
<1>1. v.attempts \in Nat /\ MAX_DISPATCH_ATTEMPTS \in Nat \ {0}
  BY DeliveryAssumption DEF InvocationRecord
<1>2. CASE v.status = "dispatching" /\ v.attempts < MAX_DISPATCH_ATTEMPTS /\ w = Requeued(v)
  <2>1. w.attempts = v.attempts /\ w.status = "queued"
    BY <1>2 DEF Requeued, InvocationRecord
  <2> QED
    BY <1>1, <1>2, <2>1 DEF Bounded
<1>3. CASE EndsUncharged(v, w)
  BY <1>3 DEF EndsUncharged, Ends, Bounded
<1> QED
  BY <1>2, <1>3 DEF Reclaim

LEMMA PlainBounded ==
  ASSUME NEW v \in InvocationRecord, NEW k \in Nat \ {0}, Bounded(v, k), NEW w, Plain(v, w)
  PROVE  /\ Bounded(w, k)
         /\ w.status = "dispatching" => v.status = "dispatching"
<1>1. v.attempts \in Nat /\ MAX_DISPATCH_ATTEMPTS \in Nat \ {0}
  BY DeliveryAssumption DEF InvocationRecord
<1>2. CASE Submit(v, w)
  <2>1. w.attempts = v.attempts /\ w.status # "dispatching" /\ v.status = "none"
    BY <1>2 DEF Submit, InvocationRecord
  <2> QED
    BY <1>1, <2>1 DEF Bounded
<1>3. CASE Decision(v, w)
  <2>1. w.attempts = 0 \/ (w.attempts = v.attempts /\ w.status = "rejected")
    BY <1>3 DEF Decision, InvocationRecord
  <2>2. w.status # "dispatching"
    BY <1>3 DEF Decision, InvocationRecord
  <2> QED
    BY <1>1, <2>1, <2>2 DEF Bounded
<1>4. CASE Stop(v, w) \/ (AckGate(v) /\ w = Acknowledged(v))
  <2>1. w.attempts = v.attempts /\ w.status \in {"cancelled", "cancelling", "running"}
    BY <1>4 DEF Stop, QueuedCancelled, CancelRequested, Acknowledged, InvocationRecord
  <2> QED
    BY <2>1 DEF Bounded
<1> QED
  BY <1>2, <1>3, <1>4, ReclaimBounded DEF Plain

LEMMA LeaseBounded ==
  ASSUME NEW v \in InvocationRecord, NEW k \in Nat \ {0}, Bounded(v, k), NEW w, Lease(v, w)
  PROVE  Bounded(w, k)
<1>1. PICK u \in InvocationRecord : Reclaim(v, u) /\ u.status = "queued" /\ w = Dispatched(u)
  BY DEF Lease
<1>2. Bounded(u, k)
  BY <1>1, ReclaimBounded
<1>3. w.status = "dispatching" /\ w.attempts = u.attempts + 1
  BY <1>1 DEF Dispatched, InvocationRecord
<1> QED
  BY <1>1, <1>2, <1>3 DEF Bounded

\* A hand-over takes the lease back, whatever its attempts.
LEMMA FencedBounded ==
  ASSUME NEW v \in InvocationRecord, NEW k \in Nat \ {0}, NEW l \in Nat \ {0},
         Bounded(v, k), k <= l, v.status = "dispatching" => l = k + 1
  PROVE  /\ Fenced(v) \in InvocationRecord
         /\ Bounded(Fenced(v), l)
         /\ Fenced(v).status # "dispatching"
<1>1. v.attempts \in Nat /\ MAX_DISPATCH_ATTEMPTS \in Nat \ {0}
  BY DeliveryAssumption DEF InvocationRecord
<1>2. /\ Fenced(v) \in InvocationRecord
      /\ Fenced(v).attempts = v.attempts
      /\ Fenced(v).status = IF v.status = "dispatching" THEN "queued" ELSE v.status
  <2>1. CASE v.status = "dispatching"
    BY <2>1 DEF Fenced, Requeued, InvocationRecord, Status, WaitingStatus, DeliveryState
  <2>2. CASE v.status # "dispatching"
    BY <2>2 DEF Fenced, InvocationRecord
  <2> QED
    BY <2>1, <2>2
<1> QED
  BY <1>1, <1>2 DEF Bounded

LEMMA NextAttempts ==
  ASSUME IsFiniteSet(Session), IInv, AttemptInv, [Next]_vars
  PROVE  AttemptInv'
<1> DEFINE k == Cardinality(Registered)
           l == Cardinality(Registered')
           Held == current \in Session /\ proc[current] # "starting"
<1>1. k \in Nat \ {0} /\ l \in Nat \ {0}
  BY RegisteredCount
<1> SUFFICES ASSUME NEW i \in Invocation
             PROVE  Bounded(inv'[i], l) /\ (inv'[i].status = "dispatching" => Held')
  BY DEF AttemptInv, Bounded
<1>2. /\ inv[i] \in InvocationRecord
      /\ Bounded(inv[i], k)
      /\ inv[i].status = "dispatching" => Held
  BY DEF IInv, TypeOK, AttemptInv
<1>3. SameSession => l = k /\ (Held => Held')
  BY SameRegistered DEF SameSession
<1> HIDE DEF Held
<1>4. CASE OrdinaryStep
  <2>1. CASE Plain(inv[i], inv'[i])
    BY <1>1, <1>2, <1>3, <1>4, <2>1, PlainBounded DEF OrdinaryStep
  <2>2. CASE Reports(i)
    BY <1>1, <1>2, <1>3, <1>4, <2>2 DEF OrdinaryStep, Reports, Ends, Bounded
  <2> QED
    BY <1>4, <2>1, <2>2 DEF OrdinaryStep
<1>5. ASSUME NEW s \in Session, NewSession(s)
      PROVE  Bounded(inv'[i], l) /\ (inv'[i].status = "dispatching" => Held')
  <2>1. k <= l /\ (inv[i].status = "dispatching" => l = k + 1)
    BY <1>2, <1>5, NewRegistered DEF IInv, Held
  <2> HIDE DEF k, l
  <2>2. /\ Fenced(inv[i]) \in InvocationRecord
        /\ Bounded(Fenced(inv[i]), l)
        /\ Fenced(inv[i]).status # "dispatching"
    BY <1>1, <1>2, <2>1, FencedBounded
  <2> QED
    BY <1>1, <1>5, <2>2, ReclaimBounded DEF NewSession
<1>6. ASSUME NEW s \in Session, LeaseStepOf(s)
      PROVE  Bounded(inv'[i], l) /\ (inv'[i].status = "dispatching" => Held')
  <2>1. l = k /\ Held'
    BY <1>3, <1>6 DEF LeaseStepOf, Held
  <2> QED
    BY <1>1, <1>2, <1>6, <2>1, ReclaimBounded, LeaseBounded DEF LeaseStepOf
<1> QED
  BY <1>4, <1>5, <1>6, StepKind

LEMMA InitAttempts ==
  ASSUME IsFiniteSet(Session), Init
  PROVE  AttemptInv
<1> SUFFICES ASSUME NEW i \in Invocation
             PROVE  /\ Bounded(inv[i], Cardinality(Registered))
                    /\ inv[i].status # "dispatching"
  BY DEF AttemptInv
<1>1. inv[i].attempts = 0 /\ inv[i].status = "none"
  BY DEF Init, NotCreated
<1>2. Cardinality(Registered) \in Nat \ {0} /\ MAX_DISPATCH_ATTEMPTS \in Nat \ {0}
  BY RegisteredCount, DeliveryAssumption
<1> QED
  BY <1>1, <1>2 DEF Bounded

LEMMA AttemptsInBounds == AttemptInv => AttemptsBounded
  BY DEF AttemptInv, Bounded, Registered, AttemptsBounded

\* Leases that lapse without an ack come to an end (dispatch.mjs:223-227): beyond the
\* configured attempts there is one per further bridge process, for any number of them.
THEOREM AttemptsAreBounded ==
  ASSUME IsFiniteSet(Session)
  PROVE  Spec => []AttemptsBounded
<1>1. Init => AttemptInv
  BY InitAttempts
<1>2. IInv /\ AttemptInv /\ [Next]_vars => AttemptInv'
  BY NextAttempts
<1>3. AttemptInv => AttemptsBounded
  BY AttemptsInBounds
<1> QED
  BY <1>1, <1>2, <1>3, Invariant, PTL DEF Spec
==============================================================================
