------------------------ MODULE ExecutorSafety_proofs ------------------------
(***************************************************************************)
(* What InvocationDelivery guarantees of the agents that run on the device:*)
(* one writer per directory, the concurrency cap, no start after the end,  *)
(* and the promise of RunOnce.  Nothing is assumed of time: any lease,     *)
(* grace or deadline may run out while the agent it is about lives.        *)
(*                                                                         *)
(* The argument: the server's records are exclusive per directory and      *)
(* within the cap (InvocationDelivery_proofs).  A delivery that has an     *)
(* agent, or is about to start one, was acknowledged, and since the ack    *)
(* only its own report or a reclaim ends the record.  The report comes     *)
(* when the agent is gone; a reclaim charges nothing and leaves one of     *)
(* three marks: timed out, cancelled by request, or failed after another   *)
(* session took over.  So an agent that lives is on record as running, or  *)
(* the record is written off and bears its mark.                           *)
(***************************************************************************)
EXTENDS InvocationDelivery_proofs

RunsOn(v) == v.status \in {"running", "cancelling"}

\* What is on record of a delivery of session s that lives, while c is current.
Known(v, s, c) ==
    /\ v.charges = 0
    /\ v.cancel # "queued_cancelled"
    /\ \/ RunsOn(v) /\ (v.superseded => s # c)
       \/ v.status = "timed_out"
       \/ v.status = "cancelled" /\ v.cancel = "applied"
       \/ v.status = "failed" /\ s # c

AgentsKnown ==
    \A i \in Invocation : \A n \in DOMAIN task[i] :
        task[i][n].pc \in Alive => Known(inv[i], task[i][n].session, current)

\* Nothing of a run is on record before the ack.
Fresh(v) ==
    v.status \notin Begun =>
        v.charges = 0 /\ ~v.superseded /\ v.cancel # "queued_cancelled"

AllFresh == \A i \in Invocation : Fresh(inv[i])

\* A process is handed nothing before it has registered.
SessionsStarted ==
    \A i \in Invocation : \A n \in DOMAIN task[i] : proc[task[i][n].session] # "starting"

LiveInv == AgentsKnown /\ AllFresh /\ SessionsStarted

-----------------------------------------------------------------------------
(* The operators on one record.                                            *)

\* What the server makes of the record of a run without a report of it.
Ages(v, w) ==
    /\ w.charges = v.charges
    /\ w.cancel \in {v.cancel, "requested", "applied"}
    /\ \/ w.status = v.status /\ w.cancel = v.cancel /\ w.superseded = v.superseded
       \/ RunsOn(v) /\ RunsOn(w) /\ w.superseded = v.superseded
       \/ RunsOn(v) /\ w.status = "timed_out"
       \/ RunsOn(v) /\ w.status = "cancelled" /\ w.cancel = "applied"
       \/ RunsOn(v) /\ w.status = "failed" /\ v.superseded

LEMMA AgesRefl ==
  ASSUME NEW v
  PROVE  Ages(v, v)
  BY DEF Ages

LEMMA AgesTrans ==
  ASSUME NEW u, NEW v, NEW w, Ages(u, v), Ages(v, w)
  PROVE  Ages(u, w)
  BY DEF Ages, RunsOn

LEMMA KnownAges ==
  ASSUME NEW v, NEW w, NEW s, NEW c, Known(v, s, c), Ages(v, w)
  PROVE  Known(w, s, c)
  BY DEF Known, Ages, RunsOn

LEMMA KnownFenced ==
  ASSUME NEW v \in InvocationRecord, NEW s, NEW c, NEW d, Known(v, s, c), s # d
  PROVE  Known(Fenced(v), s, d)
<1>1. v.status # "dispatching"
  BY DEF Known, RunsOn
<1> QED
  BY <1>1 DEF Known, Fenced, RunsOn, InvocationRecord

LEMMA FencedBegun ==
  ASSUME NEW v \in InvocationRecord
  PROVE  /\ Fenced(v) \in InvocationRecord
         /\ v.status \in Begun => Fenced(v).status \in Begun
<1>1. CASE v.status = "dispatching"
  BY <1>1 DEF Fenced, Requeued, InvocationRecord, Status, WaitingStatus, DeliveryState, Begun,
              TerminalStatus
<1>2. CASE v.status # "dispatching"
  BY <1>2 DEF Fenced, InvocationRecord
<1> QED
  BY <1>1, <1>2

LEMMA EndedAges ==
  ASSUME NEW v \in InvocationRecord, RunsOn(v), NEW st \in {"cancelled", "timed_out"}
  PROVE  Ages(v, Completed(v, st))
  BY DEF Completed, Ages, RunsOn, InvocationRecord, IsTerminal, TerminalStatus

LEMMA StopAges ==
  ASSUME NEW v \in InvocationRecord, RunsOn(v)
  PROVE  Ages(v, Cancelled(v)) /\ Ages(v, Cancelled([v EXCEPT !.deadline = TRUE]))
           /\ Ages(v, Unlinked(v))
  BY DEF RunsOn, Cancelled, Unlinked, CancelRequested, WaitingStatus, InvocationRecord, Ages

\* A hand-over ends what it flagged; a lease is of no run.
LEMMA RedeliveredAges ==
  ASSUME NEW v \in InvocationRecord, v.status \in Begun, NEW i, NEW lapsed, NEW drained,
         i \in lapsed => v.status = "dispatching",
         i \in drained => v.superseded /\ InFlight(v)
  PROVE  Ages(v, Redelivered(v, i, lapsed, drained))
<1>1. CASE i \in drained
  <2>1. RunsOn(v) /\ v.superseded
    BY <1>1 DEF Begun, InFlight, INFLIGHT_STATUSES, RunsOn, TerminalStatus
  <2>2. Ages(v, SupersededReclaimed(v))
    BY <2>1 DEF SupersededReclaimed, Completed, Ages, RunsOn, InvocationRecord, IsTerminal,
                TerminalStatus
  <2> QED
    BY <1>1, <2>2 DEF Redelivered
<1>2. CASE i \notin drained
  <2>1. i \notin lapsed
    BY DEF Begun, TerminalStatus
  <2> QED
    BY <1>2, <2>1, AgesRefl DEF Redelivered
<1> QED
  BY <1>1, <1>2

LEMMA StuckAges ==
  ASSUME NEW v \in InvocationRecord, NEW i, NEW expired
  PROVE  Ages(v, StuckReclaimed(v, i, expired))
  BY EndedAges, AgesRefl DEF StuckReclaimed, RunsOn

-----------------------------------------------------------------------------
(* What a step does to the record of a run.                                *)

\* A report of i is handled: then no delivery of i lives.
Handled(i) == \E n \in DOMAIN task[i] : HandleComplete(i, n)

RunsAge ==
    /\ current' = current
    /\ \A i \in Invocation : inv[i].status \in Begun => Ages(inv[i], inv'[i]) \/ Handled(i)

RunsAreFenced(s) ==
    /\ proc[s] = "starting" /\ current' = s
    /\ \A i \in Invocation : inv[i].status \in Begun => Ages(Fenced(inv[i]), inv'[i])

LEMMA OneAges ==
  ASSUME inv \in [Invocation -> InvocationRecord], NEW i \in Invocation, NEW w,
         inv[i].status \in Begun => Ages(inv[i], w),
         inv' = [inv EXCEPT ![i] = w], current' = current
  PROVE  RunsAge
  BY AgesRefl DEF RunsAge

LEMMA SameAges ==
  ASSUME inv' = inv, current' = current
  PROVE  RunsAge
  BY AgesRefl DEF RunsAge

LEMMA UserAges ==
  ASSUME IInv, NEW i \in Invocation, UserStep(i) \/ SweepStep(i)
  PROVE  RunsAge
<1> DEFINE v == inv[i]
<1>1. inv \in [Invocation -> InvocationRecord] /\ v \in InvocationRecord
  BY DEF IInv, TypeOK
<1>2. current' = current
  BY DEF UserStep, SweepStep, Create, Approve, Deny, Cancel, SweepDeadline, SweepInterrupted,
         SweepOfflineRun
<1>3. CASE Create(i) \/ Approve(i) \/ Deny(i)
  <2>1. v.status \notin Begun
    BY <1>3 DEF Create, Approve, Deny, AwaitsDecision, Begun, TerminalStatus
  <2>2. \A j \in Invocation : j # i => inv'[j] = inv[j]
    BY <1>1, <1>3 DEF Create, Approve, Deny
  <2> QED
    BY <1>2, <2>1, <2>2, AgesRefl DEF RunsAge
<1>4. CASE Cancel(i)
  <2>1. v.status \in Begun => RunsOn(v)
    BY <1>4 DEF Cancel, Begun, IsTerminal, RunsOn
  <2>2. inv' = [inv EXCEPT ![i] = Cancelled(v)]
    BY <1>4 DEF Cancel
  <2> QED
    BY <1>1, <1>2, <2>1, <2>2, StopAges, OneAges
<1>5. CASE SweepDeadline(i)
  <2>1. RunsOn(v)
    BY <1>5 DEF SweepDeadline, RunsOn
  <2>2. inv' = [inv EXCEPT ![i] = Cancelled([v EXCEPT !.deadline = TRUE])]
    BY <1>5 DEF SweepDeadline
  <2> QED
    BY <1>1, <1>2, <2>1, <2>2, StopAges, OneAges
<1>6. CASE SweepInterrupted(i) \/ SweepOfflineRun(i)
  <2>1. RunsOn(v)
    BY <1>6 DEF SweepInterrupted, SweepOfflineRun, RunsOn
  <2>2. inv' = [inv EXCEPT ![i] = Completed(v, "timed_out")]
    BY <1>6 DEF SweepInterrupted, SweepOfflineRun
  <2> QED
    BY <1>1, <1>2, <2>1, <2>2, EndedAges, OneAges
<1> QED
  BY <1>3, <1>4, <1>5, <1>6 DEF UserStep, SweepStep

LEMMA DeviceAges ==
  ASSUME IInv, DeviceStep \/ SweepOffline
  PROVE  RunsAge
<1>1. current' = current
  BY DEF DeviceStep, Unlink, Relink, SweepOffline
<1>2. \A j \in Invocation : inv'[j] = Unlinked(inv[j]) \/ inv'[j] = inv[j]
  BY DEF DeviceStep, Unlink, Relink, SweepOffline
<1>3. ASSUME NEW j \in Invocation, inv[j].status \in Begun
      PROVE  Ages(inv[j], inv'[j])
  <2>1. inv[j] \in InvocationRecord
    BY DEF IInv, TypeOK
  <2>2. CASE RunsOn(inv[j])
    BY <1>2, <2>1, <2>2, StopAges, AgesRefl
  <2>3. CASE ~RunsOn(inv[j])
    <3>1. Unlinked(inv[j]) = inv[j]
      BY <1>3, <2>3 DEF RunsOn, Begun, Unlinked, WaitingStatus, TerminalStatus
    <3> QED
      BY <1>2, <3>1, AgesRefl
  <2> QED
    BY <2>2, <2>3
<1> QED
  BY <1>1, <1>3 DEF RunsAge

LEMMA RegisterAges ==
  ASSUME IInv, NEW s \in Session, Register(s)
  PROVE  RunsAge \/ RunsAreFenced(s)
<1> DEFINE fenced == [i \in Invocation |-> IF current = s THEN inv[i] ELSE Fenced(inv[i])]
<1>1. PICK drained, lapsed :
         /\ \A i \in Invocation : i \in lapsed => fenced[i].status = "dispatching"
         /\ \A i \in Invocation : i \in drained => fenced[i].superseded /\ InFlight(fenced[i])
         /\ inv' = [i \in Invocation |-> Redelivered(fenced[i], i, lapsed, drained)]
  BY DEF Register
<1>2. proc[s] = "starting" /\ current' = s
  BY DEF Register
<1>3. ASSUME NEW i \in Invocation, inv[i].status \in Begun
      PROVE  /\ fenced[i] \in InvocationRecord /\ fenced[i].status \in Begun
             /\ Ages(fenced[i], inv'[i])
  <2>1. inv[i] \in InvocationRecord
    BY DEF IInv, TypeOK
  <2>2. fenced[i] \in InvocationRecord
    BY <2>1, FencedBegun
  <2>3. fenced[i].status \in Begun
    BY <1>3, <2>1, FencedBegun
  <2> HIDE DEF fenced
  <2>4. Ages(fenced[i], Redelivered(fenced[i], i, lapsed, drained))
    BY <1>1, <2>2, <2>3, RedeliveredAges
  <2> QED
    BY <1>1, <2>2, <2>3, <2>4
<1>4. CASE current = s
  BY <1>2, <1>3, <1>4 DEF RunsAge
<1>5. CASE current # s
  BY <1>2, <1>3, <1>5 DEF RunsAreFenced
<1> QED
  BY <1>4, <1>5

LEMMA PollAges ==
  ASSUME IInv, NEW s \in Session, Poll(s)
  PROVE  RunsAge
<1>1. PICK lapsed \in SUBSET MayLapse, drained \in SUBSET MayDrain, expired \in SUBSET MayExpire :
          PollWith(s, Swept(lapsed, drained, expired))
  BY DEF Poll
<1> DEFINE f == Swept(lapsed, drained, expired)
<1>2. ASSUME NEW i \in Invocation, inv[i].status \in Begun
      PROVE  Ages(inv[i], f[i]) /\ f[i].status # "queued"
  <2> DEFINE v == inv[i]
             u == Redelivered(v, i, lapsed, drained)
  <2>1. v \in InvocationRecord
    BY DEF IInv, TypeOK
  <2>2. i \in lapsed => v.status = "dispatching"
    BY DEF MayLapse
  <2>3. i \in drained => v.superseded /\ InFlight(v)
    BY DEF MayDrain
  <2>4. Ages(v, u)
    BY <1>2, <2>1, <2>2, <2>3, RedeliveredAges
  <2>5. u \in InvocationRecord
    <3>1. Reclaim(v, u)
      BY <2>1, <2>2, <2>3, RedeliveredReclaim
    <3>2. v.status # "dispatching"
      BY <1>2 DEF Begun, TerminalStatus
    <3> QED
      BY <2>1, <3>1, <3>2 DEF Reclaim, EndsUncharged, Ends
  <2>6. f[i] = StuckReclaimed(u, i, expired)
    BY DEF Swept
  <2> HIDE DEF u, f
  <2>7. Ages(v, f[i])
    BY <2>4, <2>5, <2>6, StuckAges, AgesTrans
  <2> QED
    BY <1>2, <2>7 DEF Ages, RunsOn, Begun, TerminalStatus
<1>3. PollWith(s, f) /\ f = [i \in Invocation |-> f[i]]
  BY <1>1, SweptShrinks
<1> HIDE DEF f
<1>4. \A i \in Invocation : inv[i].status \in Begun => inv'[i] = f[i]
  <2>1. CASE inv' = f
    BY <2>1
  <2>2. ASSUME NEW i \in Dispatchable(f), inv' = [f EXCEPT ![i] = Dispatched(@)]
        PROVE  \A j \in Invocation : inv[j].status \in Begun => inv'[j] = f[j]
    <3>1. i \in Invocation /\ f[i].status = "queued"
      BY DEF Dispatchable, Eligible
    <3> QED
      BY <1>2, <1>3, <2>2, <3>1
  <2> QED
    BY <1>3, <2>1, <2>2 DEF PollWith
<1>5. current' = current
  BY <1>3 DEF PollWith
<1> QED
  BY <1>2, <1>4, <1>5 DEF RunsAge

LEMMA DeliveryAges ==
  ASSUME IInv, NEW i \in Invocation, NEW n \in DOMAIN task[i], DeliveryStep(i, n)
  PROVE  RunsAge
<1>1. inv \in [Invocation -> InvocationRecord]
  BY DEF IInv, TypeOK
<1>2. current' = current
  BY DEF DeliveryStep, SendAck, SendRefuse, Begin, DeliverCancel, ExecutorEnds, OrphanEnds,
         SendComplete, Lose, HandleAck, HandleRefuse, HandleComplete, Authenticated, server
<1>3. CASE HandleComplete(i, n)
  <2>1. Handled(i)
    BY <1>3 DEF Handled
  <2>2. \A j \in Invocation : j # i => inv'[j] = inv[j]
    BY <1>1, <1>3 DEF HandleComplete
  <2> QED
    BY <1>2, <2>1, <2>2, AgesRefl DEF RunsAge
<1>4. CASE HandleAck(i, n) \/ HandleRefuse(i, n)
  <2>1. inv[i].status \in Begun => ~AckGate(inv[i])
    BY DEF AckGate, Begun, TerminalStatus
  <2>2. \A j \in Invocation : (j # i \/ ~AckGate(inv[i])) => inv'[j] = inv[j]
    BY <1>1, <1>4 DEF HandleAck, HandleRefuse
  <2> QED
    BY <1>2, <2>1, <2>2, AgesRefl DEF RunsAge
<1>5. CASE BridgeMove(i, n)
  BY <1>2, <1>5, BridgeMoveFacts, SameAges
<1> QED
  BY <1>3, <1>4, <1>5 DEF DeliveryStep, BridgeMove

LEMMA StepAges ==
  ASSUME IInv, [Next]_vars
  PROVE  RunsAge \/ \E s \in Session : RunsAreFenced(s)
<1>1. CASE UNCHANGED vars
  BY <1>1, SameAges DEF vars
<1>2. ASSUME NEW s \in Session, ProcessStep(s)
      PROVE  RunsAge \/ RunsAreFenced(s)
  <2>1. CASE ExitBridge(s)
    BY <2>1, SameAges DEF ExitBridge, server
  <2> QED
    BY <1>2, <2>1, RegisterAges, PollAges DEF ProcessStep
<1>3. ASSUME NEW i \in Invocation, UserStep(i) \/ SweepStep(i) PROVE RunsAge
  BY <1>3, UserAges
<1>4. ASSUME NEW i \in Invocation, NEW n \in DOMAIN task[i], DeliveryStep(i, n) PROVE RunsAge
  BY <1>4, DeliveryAges
<1> QED
  BY <1>1, <1>2, <1>3, <1>4, DeviceAges DEF Next

-----------------------------------------------------------------------------
(* What a step does to the deliveries.                                     *)

Grants(i) == AckGate(inv[i]) /\ inv'[i] = Acknowledged(inv[i])

\* The delivery is one that was there, of the same session, and is granted, or lives,
\* only if it was, or did, or its ack is granted now; or it is handed out now, to a
\* process that has registered.
DeliveryKept(i, n) ==
    \/ /\ n \in DOMAIN task[i]
       /\ task'[i][n].session = task[i][n].session
       /\ task'[i][n].pc \in Alive => task[i][n].pc \in Alive \/ Grants(i)
       /\ task'[i][n].pc \in Granted => task[i][n].pc \in Granted \/ Grants(i)
    \/ task'[i][n].pc \notin Granted /\ proc[task'[i][n].session] # "starting"

DeliveriesKept ==
    \A i \in Invocation : /\ DOMAIN task[i] \subseteq DOMAIN task'[i]
                           /\ \A n \in DOMAIN task'[i] : DeliveryKept(i, n)

LEMMA SameDeliveries ==
  ASSUME task' = task
  PROVE  DeliveriesKept
  BY DEF DeliveriesKept, DeliveryKept

LEMMA GotoDeliveries ==
  ASSUME TypeOK, NEW i \in Invocation, NEW n \in DOMAIN task[i], NEW pc \in TaskPc,
         Goto(i, n, pc),
         pc \in Alive => task[i][n].pc \in Alive \/ Grants(i),
         pc \in Granted => task[i][n].pc \in Granted \/ Grants(i)
  PROVE  DeliveriesKept
<1>1. task'[i][n].session = task[i][n].session
  <2>1. task[i] \in Seq(Task) /\ task[i][n] \in Task
    BY DEF TypeOK
  <2>2. task'[i][n] = [task[i][n] EXCEPT !.pc = pc]
    BY <2>1 DEF Goto, TypeOK
  <2> QED
    BY <2>1, <2>2 DEF Task
<1>2. ASSUME NEW j \in Invocation, NEW m \in DOMAIN task'[j]
      PROVE  DeliveryKept(j, m)
  <2>1. m \in DOMAIN task[j]
    BY GotoType
  <2>2. CASE j = i /\ m = n
    BY <1>1, <2>1, <2>2, GotoType DEF DeliveryKept
  <2>3. CASE <<j, m>> # <<i, n>>
    <3>1. task'[j][m] = task[j][m]
      BY <2>1, <2>3, GotoType
    <3> QED
      BY <2>1, <3>1 DEF DeliveryKept
  <2> QED
    BY <2>2, <2>3
<1>3. \A j \in Invocation : DOMAIN task[j] \subseteq DOMAIN task'[j]
  BY GotoType
<1> QED
  BY <1>2, <1>3 DEF DeliveriesKept

LEMMA PollDeliveries ==
  ASSUME IInv, NEW s \in Session, Poll(s)
  PROVE  DeliveriesKept
<1>1. PICK f : PollWith(s, f)
  BY DEF Poll
<1>2. CASE task' = task
  BY <1>2, SameDeliveries
<1>3. ASSUME NEW i \in Invocation, NEW pc \in {"claimed", "dropped"},
             task' = [task EXCEPT ![i] = Append(@, [pc |-> pc, session |-> s])],
             NEW j \in Invocation
      PROVE  /\ DOMAIN task[j] \subseteq DOMAIN task'[j]
             /\ \A n \in DOMAIN task'[j] : DeliveryKept(j, n)
  <2> DEFINE e == [pc |-> pc, session |-> s]
  <2>1. e.pc \notin Granted /\ proc[e.session] # "starting"
    BY DEF Granted, Alive, Poll
  <2> HIDE DEF e
  <2>2. /\ task[i] \in Seq(Task) /\ task'[i] = Append(task[i], e)
        /\ \A k \in Invocation : k # i => task'[k] = task[k]
    BY <1>3 DEF IInv, TypeOK, e
  <2>3. CASE j # i
    BY <1>3, <2>2, <2>3 DEF DeliveryKept
  <2>4. CASE j = i
    <3>1. /\ DOMAIN task'[i] = 1..(Len(task[i]) + 1)
          /\ DOMAIN task[i] = 1..Len(task[i])
          /\ Len(task[i]) \in Nat
          /\ task'[i][Len(task[i]) + 1] = e
          /\ \A m \in 1..Len(task[i]) : task'[i][m] = task[i][m]
      BY <2>2
    <3>2. DOMAIN task[i] \subseteq DOMAIN task'[i]
      BY <3>1
    <3>3. ASSUME NEW n \in DOMAIN task'[i] PROVE DeliveryKept(i, n)
      <4>1. n = Len(task[i]) + 1 \/ n \in DOMAIN task[i]
        BY <3>1, <3>3
      <4>2. CASE n = Len(task[i]) + 1
        BY <2>1, <3>1, <4>2 DEF DeliveryKept
      <4>3. CASE n \in DOMAIN task[i]
        BY <3>1, <4>3 DEF DeliveryKept
      <4> QED
        BY <4>1, <4>2, <4>3
    <3> QED
      BY <2>4, <3>2, <3>3
  <2> QED
    BY <2>3, <2>4
<1> QED
  BY <1>1, <1>2, <1>3 DEF PollWith, Dispatchable, DeliveriesKept

LEMMA ExitDeliveries ==
  ASSUME IInv, NEW s \in Session, ExitBridge(s)
  PROVE  DeliveriesKept
<1>0. \A i \in Invocation : DOMAIN task'[i] = DOMAIN task[i]
  BY DEF ExitBridge
<1> SUFFICES ASSUME NEW i \in Invocation, NEW n \in DOMAIN task'[i]
             PROVE  DeliveryKept(i, n)
  BY <1>0 DEF DeliveriesKept
<1>1. n \in DOMAIN task[i] /\ task[i][n] \in Task
  BY <1>0 DEF IInv, TypeOK
<1>2. task'[i][n] = task[i][n] \/ task'[i][n] = [task[i][n] EXCEPT !.pc = Lost(task[i][n].pc)]
  BY <1>1 DEF ExitBridge
<1>3. /\ Lost(task[i][n].pc) \notin Alive
      /\ Lost(task[i][n].pc) \in Granted => task[i][n].pc \in Granted
  BY DEF Lost, Granted, Alive
<1> QED
  BY <1>1, <1>2, <1>3 DEF Task, DeliveryKept

LEMMA DeliveryDeliveries ==
  ASSUME IInv, NEW i \in Invocation, NEW n \in DOMAIN task[i], DeliveryStep(i, n)
  PROVE  DeliveriesKept
<1> DEFINE from == task[i][n].pc
<1>1. TypeOK /\ inv \in [Invocation -> InvocationRecord] /\ from \in TaskPc
  <2>1. task[i] \in Seq(Task)
    BY DEF IInv, TypeOK
  <2>2. task[i][n] \in Task
    BY <2>1
  <2> QED
    BY <2>2 DEF Task, IInv, TypeOK
<1>2. \E pc \in TaskPc :
         /\ Goto(i, n, pc)
         /\ pc \in Alive => from \in Alive \/ Grants(i)
         /\ pc \in Granted => from \in Granted \/ Grants(i)
  <2>1. CASE SendAck(i, n) \/ SendRefuse(i, n)
    BY <2>1 DEF SendAck, SendRefuse, TaskPc, Granted, Alive
  <2>2. CASE Begin(i, n) \/ DeliverCancel(i, n)
    BY <2>2 DEF Begin, DeliverCancel, At, TaskPc, Granted, Alive
  <2>3. CASE ExecutorEnds(i, n) \/ OrphanEnds(i, n)
    BY <2>3 DEF ExecutorEnds, OrphanEnds, At, TaskPc, Granted, Alive
  <2>4. CASE SendComplete(i, n) \/ HandleComplete(i, n)
    BY <2>4 DEF SendComplete, HandleComplete, At, TaskPc, Granted, Alive
  <2>5. CASE Lose(i, n)
    BY <1>1, <2>5 DEF Lose, Lost, TaskPc, Granted, Alive
  <2>6. CASE HandleRefuse(i, n) \/ (HandleAck(i, n) /\ ~AckGate(inv[i]))
    BY <2>6 DEF HandleRefuse, HandleAck, TaskPc, Granted, Alive
  <2>7. CASE HandleAck(i, n) /\ AckGate(inv[i])
    <3>1. inv'[i] = Acknowledged(inv[i])
      BY <1>1, <2>7 DEF HandleAck
    <3>2. \E pc \in {"granted", "void"} : Goto(i, n, pc)
      BY <2>7 DEF HandleAck
    <3> QED
      BY <2>7, <3>1, <3>2 DEF TaskPc, Granted, Alive, Grants
  <2> QED
    BY <2>1, <2>2, <2>3, <2>4, <2>5, <2>6, <2>7 DEF DeliveryStep
<1> QED
  BY <1>1, <1>2, GotoDeliveries

LEMMA StepDeliveries ==
  ASSUME IInv, [Next]_vars
  PROVE  DeliveriesKept
<1>1. CASE DeviceStep \/ SweepOffline \/ UNCHANGED vars
  BY <1>1, SameDeliveries DEF DeviceStep, Unlink, Relink, SweepOffline, bridge, vars
<1>2. ASSUME NEW s \in Session, ProcessStep(s) PROVE DeliveriesKept
  BY <1>2, SameDeliveries, PollDeliveries, ExitDeliveries DEF ProcessStep, Register
<1>3. ASSUME NEW i \in Invocation, UserStep(i) \/ SweepStep(i) PROVE DeliveriesKept
  BY <1>3, SameDeliveries DEF UserStep, SweepStep, Create, Approve, Deny, Cancel,
     SweepDeadline, SweepInterrupted, SweepOfflineRun, bridge
<1>4. ASSUME NEW i \in Invocation, NEW n \in DOMAIN task[i], DeliveryStep(i, n)
      PROVE  DeliveriesKept
  BY <1>4, DeliveryDeliveries
<1> QED
  BY <1>1, <1>2, <1>3, <1>4 DEF Next

-----------------------------------------------------------------------------
(* The invariant.                                                          *)

LEMMA StartingStays ==
  ASSUME IInv, [Next]_vars, NEW s \in Session, proc'[s] = "starting"
  PROVE  proc[s] = "starting"
<1>1. CASE OrdinaryStep
  BY <1>1 DEF OrdinaryStep, SameSession
<1>2. ASSUME NEW t \in Session, NewSession(t) PROVE proc[s] = "starting"
  <2>1. proc \in [Session -> ProcState]
    BY DEF IInv, TypeOK
  <2> QED
    BY <1>2, <2>1 DEF NewSession
<1>3. ASSUME NEW t \in Session, LeaseStepOf(t) PROVE proc[s] = "starting"
  BY <1>3 DEF LeaseStepOf, SameSession
<1> QED
  BY <1>1, <1>2, <1>3, StepKind

LEMMA NextStarted ==
  ASSUME IInv, SessionsStarted, [Next]_vars
  PROVE  SessionsStarted'
<1> SUFFICES ASSUME NEW i \in Invocation, NEW n \in DOMAIN task'[i]
             PROVE  proc'[task'[i][n].session] # "starting"
  BY DEF SessionsStarted
<1>1. task'[i][n].session \in Session
  <2>1. IInv'
    BY NextInv DEF Preserved
  <2>2. task'[i] \in Seq(Task)
    BY <2>1 DEF IInv, TypeOK
  <2>3. task'[i][n] \in Task
    BY <2>2
  <2> QED
    BY <2>3 DEF Task
<1>2. DeliveryKept(i, n)
  BY StepDeliveries DEF DeliveriesKept
<1>3. proc[task'[i][n].session] # "starting"
  BY <1>2 DEF DeliveryKept, SessionsStarted
<1> QED
  BY <1>1, <1>3, StartingStays

LEMMA FreshEnds ==
  ASSUME NEW v, NEW w, Ends(v, w)
  PROVE  w.status \in Begun
  BY DEF Ends, Begun, TerminalStatus

LEMMA FreshReclaim ==
  ASSUME NEW v \in InvocationRecord, Fresh(v), NEW w, Reclaim(v, w)
  PROVE  Fresh(w)
<1>1. CASE v.status = "dispatching" /\ w = Requeued(v)
  BY <1>1 DEF Requeued, Fresh, InvocationRecord, Begun, TerminalStatus
<1> QED
  BY <1>1, FreshEnds DEF Reclaim, EndsUncharged, Fresh

LEMMA FreshPlain ==
  ASSUME NEW v \in InvocationRecord, Fresh(v), NEW w, Plain(v, w)
  PROVE  Fresh(w)
<1>1. CASE Submit(v, w) \/ Decision(v, w)
  BY <1>1 DEF Submit, Decision, AwaitsDecision, Fresh, InvocationRecord, Begun, TerminalStatus
<1>2. CASE Stop(v, w) \/ (AckGate(v) /\ w = Acknowledged(v))
  <2>1. w.status \in Begun
    BY <1>2 DEF Stop, QueuedCancelled, CancelRequested, AckGate, Acknowledged, InvocationRecord,
                Begun, TerminalStatus
  <2> QED
    BY <2>1 DEF Fresh
<1> QED
  BY <1>1, <1>2, FreshReclaim DEF Plain

LEMMA FreshFenced ==
  ASSUME NEW v \in InvocationRecord, Fresh(v)
  PROVE  Fresh(Fenced(v))
<1>1. CASE v.status = "dispatching"
  BY <1>1 DEF Fenced, Requeued, Fresh, InvocationRecord, Begun, TerminalStatus
<1>2. CASE v.status # "dispatching"
  BY <1>2 DEF Fenced, Fresh, InvocationRecord, Begun, TerminalStatus
<1> QED
  BY <1>1, <1>2

LEMMA FreshLease ==
  ASSUME NEW v \in InvocationRecord, Fresh(v), NEW w, Lease(v, w)
  PROVE  Fresh(w)
<1>1. PICK u \in InvocationRecord : Reclaim(v, u) /\ u.status = "queued" /\ w = Dispatched(u)
  BY DEF Lease
<1>2. Fresh(u)
  BY <1>1, FreshReclaim
<1>3. w.charges = u.charges /\ w.superseded = u.superseded /\ w.cancel = u.cancel
  BY <1>1 DEF Dispatched, InvocationRecord
<1> QED
  BY <1>1, <1>2, <1>3 DEF Fresh, Begun, TerminalStatus

LEMMA NextFresh ==
  ASSUME IInv, AllFresh, [Next]_vars
  PROVE  AllFresh'
<1> SUFFICES ASSUME NEW i \in Invocation PROVE Fresh(inv'[i])
  BY DEF AllFresh
<1>1. inv[i] \in InvocationRecord /\ Fresh(inv[i])
  BY DEF IInv, TypeOK, AllFresh
<1>2. CASE OrdinaryStep
  <2>1. CASE Reports(i)
    BY <2>1, FreshEnds DEF Reports, Fresh
  <2> QED
    BY <1>1, <1>2, <2>1, FreshPlain DEF OrdinaryStep
<1>3. ASSUME NEW s \in Session, NewSession(s) PROVE Fresh(inv'[i])
  BY <1>1, <1>3, FencedBegun, FreshFenced, FreshReclaim DEF NewSession
<1>4. ASSUME NEW s \in Session, LeaseStepOf(s) PROVE Fresh(inv'[i])
  BY <1>1, <1>4, FreshReclaim, FreshLease DEF LeaseStepOf
<1> QED
  BY <1>2, <1>3, <1>4, StepKind

\* The record of a delivery that lives was acknowledged.
LEMMA AliveBegun ==
  ASSUME IInv, NEW i \in Invocation, NEW n \in DOMAIN task[i], task[i][n].pc \in Alive
  PROVE  inv[i].status \in Begun
  BY DEF IInv, GrantedIsAcknowledged, RecordOK, Granted

\* A report is sent when the agent is gone, and no other delivery was granted.
LEMMA HandledIsDead ==
  ASSUME IInv, NEW i \in Invocation, Handled(i), NEW n \in DOMAIN task[i]
  PROVE  task[i][n].pc \notin Alive
<1>1. PICK m \in DOMAIN task[i] : HandleComplete(i, m)
  BY DEF Handled
<1>2. task[i][m].pc \in {"reporting", "reporting_killed"}
  BY <1>1 DEF HandleComplete, At
<1>3. task[i][m].pc \in Granted /\ task[i][m].pc \notin Alive
  BY <1>2 DEF Granted, Alive
<1> QED
  BY <1>3 DEF IInv, AtMostOneExecution, Granted

LEMMA NextKnown ==
  ASSUME IInv, LiveInv, [Next]_vars
  PROVE  AgentsKnown'
<1> SUFFICES ASSUME NEW i \in Invocation, NEW n \in DOMAIN task'[i], task'[i][n].pc \in Alive
             PROVE  Known(inv'[i], task'[i][n].session, current')
  BY DEF AgentsKnown
<1> DEFINE s == task[i][n].session
<1>1. DeliveryKept(i, n)
  BY StepDeliveries DEF DeliveriesKept
<1>2. n \in DOMAIN task[i] /\ task'[i][n].session = s
  BY <1>1 DEF DeliveryKept, Granted
<1>3. inv[i] \in InvocationRecord
  BY DEF IInv, TypeOK
<1>4. CASE task[i][n].pc \in Alive
  <2>1. Known(inv[i], s, current) /\ inv[i].status \in Begun
    BY <1>2, <1>4, AliveBegun DEF LiveInv, AgentsKnown
  <2>2. CASE RunsAge
    <3>1. ~Handled(i)
      BY <1>2, <1>4, HandledIsDead
    <3> QED
      BY <1>2, <2>1, <2>2, <3>1, KnownAges DEF RunsAge
  <2>3. ASSUME NEW t \in Session, RunsAreFenced(t)
        PROVE  Known(inv'[i], s, current')
    <3>1. s # t
      BY <1>2, <2>3 DEF LiveInv, SessionsStarted, RunsAreFenced
    <3>2. Known(Fenced(inv[i]), s, t)
      BY <1>3, <2>1, <3>1, KnownFenced
    <3> QED
      BY <2>1, <2>3, <3>2, KnownAges DEF RunsAreFenced
  <2> QED
    BY <1>2, <2>2, <2>3, StepAges
<1>5. CASE Grants(i)
  <2>1. Fresh(inv[i]) /\ inv[i].status \notin Begun
    BY <1>5 DEF LiveInv, AllFresh, Grants, AckGate, Begun, TerminalStatus
  <2> QED
    BY <1>3, <1>5, <2>1 DEF Grants, Fresh, Acknowledged, Known, RunsOn, InvocationRecord
<1> QED
  BY <1>1, <1>4, <1>5 DEF DeliveryKept, Granted

LEMMA NextLive ==
  ASSUME IInv, LiveInv, [Next]_vars
  PROVE  LiveInv'
  BY NextKnown, NextFresh, NextStarted DEF LiveInv

LEMMA InitLive ==
  ASSUME Init
  PROVE  LiveInv
  BY DEF Init, LiveInv, AgentsKnown, AllFresh, SessionsStarted, Fresh, NotCreated

LEMMA LiveInvariant == Spec => []LiveInv
<1>1. IInv /\ LiveInv /\ [Next]_vars => LiveInv'
  BY NextLive
<1> QED
  BY <1>1, InitLive, Invariant, PTL DEF Spec

-----------------------------------------------------------------------------
(* The theorems about the device.                                          *)

\* A delivery that lives is on record as running, or its record is written off.
LEMMA LiveOrWrittenOff ==
  ASSUME LiveInv, NEW i \in Invocation, NEW n \in DOMAIN task[i], task[i][n].pc \in Alive
  PROVE  RunsOn(inv[i]) \/ WrittenOff(i, n)
  BY DEF LiveInv, AgentsKnown, Known, WrittenOff

LEMMA LiveOneWriter ==
  ASSUME IInv, LiveInv
  PROVE  OneWriterPerDirectory
<1> SUFFICES ASSUME NEW i \in Invocation, NEW j \in Invocation,
                    NEW n \in DOMAIN task[i], NEW m \in DOMAIN task[j],
                    Executing(i, n), Executing(j, m), DirOf[i] = DirOf[j],
                    ~WrittenOff(i, n), ~WrittenOff(j, m)
             PROVE  i = j /\ n = m
  BY DEF OneWriterPerDirectory
<1>1. /\ task[i][n].pc \in Alive /\ task[j][m].pc \in Alive
      /\ task[i][n].pc \in Granted /\ task[j][m].pc \in Granted
  BY DEF Executing, Alive, Granted
<1>2. InFlight(inv[i]) /\ InFlight(inv[j])
  BY <1>1, LiveOrWrittenOff DEF RunsOn, InFlight, INFLIGHT_STATUSES
<1>3. i = j
  BY <1>2 DEF IInv, DirectoryExclusion
<1> QED
  BY <1>1, <1>3 DEF IInv, AtMostOneExecution

\* Two agents never work in the same directory at once (dispatch.mjs:107-110,
\* dispatch-eligibility.mjs:26-28), on the device and not only in the records, through
\* lost answers, cancellations and hand-overs between any number of bridge processes and
\* with no assumption on time, unless a reclaim wrote one of the two off while it lived.
THEOREM OneWriter == Spec => []OneWriterPerDirectory
<1>1. IInv /\ LiveInv => OneWriterPerDirectory
  BY LiveOneWriter
<1> QED
  BY <1>1, Invariant, LiveInvariant, PTL

WithinCap == Cardinality(InFlightSet(inv)) <= MaxConcurrency

LEMMA FiniteInFlight ==
  ASSUME IsFiniteSet(Invocation), NEW S \in SUBSET Invocation
  PROVE  IsFiniteSet(S) /\ Cardinality(S) \in Nat
  BY FS_Subset, FS_CardinalityType

LEMMA NextWithinCap ==
  ASSUME IsFiniteSet(Invocation), WithinCap, RoomForIt
  PROVE  WithinCap'
<1>1. /\ InFlightSet(inv) \in SUBSET Invocation
      /\ InFlightSet(inv') \in SUBSET Invocation
  BY DEF InFlightSet
<1>2. MaxConcurrency \in Nat
  BY DeliveryAssumption
<1>3. CASE InFlightSet(inv') \subseteq InFlightSet(inv)
  <2>1. IsFiniteSet(InFlightSet(inv)) /\ Cardinality(InFlightSet(inv)) \in Nat
    BY <1>1, FiniteInFlight
  <2>2. Cardinality(InFlightSet(inv')) <= Cardinality(InFlightSet(inv))
    BY <1>3, <2>1, FS_Subset
  <2>3. Cardinality(InFlightSet(inv')) \in Nat
    BY <1>1, FiniteInFlight
  <2> QED
    BY <1>2, <2>1, <2>2, <2>3 DEF WithinCap
<1>4. ASSUME NEW S \in SUBSET InFlightSet(inv), NEW i \in Invocation,
             ~(Cardinality(S) >= MaxConcurrency), InFlightSet(inv') = S \cup {i}
      PROVE  WithinCap'
  <2>1. IsFiniteSet(S) /\ Cardinality(S) \in Nat
    BY <1>1, FiniteInFlight
  <2>2. Cardinality(S \cup {i}) \in {Cardinality(S), Cardinality(S) + 1}
    BY <2>1, FS_AddElement
  <2>3. Cardinality(InFlightSet(inv')) = Cardinality(S \cup {i})
    BY <1>4
  <2> HIDE DEF InFlightSet
  <2>4. Cardinality(S \cup {i}) <= MaxConcurrency
    BY <1>2, <1>4, <2>1, <2>2
  <2> QED
    BY <2>3, <2>4 DEF WithinCap
<1> QED
  BY <1>3, <1>4 DEF RoomForIt

LEMMA InitWithinCap ==
  ASSUME Init
  PROVE  WithinCap
<1>1. InFlightSet(inv) = {}
  BY DEF Init, InFlightSet, InFlight, NotCreated, INFLIGHT_STATUSES
<1>2. Cardinality(InFlightSet(inv)) = 0
  BY <1>1, FS_EmptySet
<1>3. MaxConcurrency \in Nat
  BY DeliveryAssumption
<1> QED
  BY <1>2, <1>3 DEF WithinCap

LEMMA LiveWithinCap ==
  ASSUME IsFiniteSet(Invocation), LiveInv, WithinCap
  PROVE  ExecutorsWithinCap
<1> DEFINE E == {i \in Invocation : \E n \in DOMAIN task[i] :
                     Executing(i, n) /\ ~WrittenOff(i, n)}
<1>1. \A i \in E : RunsOn(inv[i])
  BY LiveOrWrittenOff DEF Executing, Alive
<1>2. E \in SUBSET InFlightSet(inv) /\ InFlightSet(inv) \in SUBSET Invocation
  BY <1>1 DEF RunsOn, InFlight, INFLIGHT_STATUSES, InFlightSet
<1>3. ExecutorsWithinCap <=> Cardinality(E) <= MaxConcurrency
  BY DEF ExecutorsWithinCap
<1> HIDE DEF E
<1>4. /\ Cardinality(E) <= Cardinality(InFlightSet(inv))
      /\ Cardinality(E) \in Nat /\ Cardinality(InFlightSet(inv)) \in Nat
  BY <1>2, FiniteInFlight, FS_Subset
<1>5. MaxConcurrency \in Nat
  BY DeliveryAssumption
<1> QED
  BY <1>3, <1>4, <1>5 DEF WithinCap

\* With finitely many invocations, the cap that dispatch.mjs:100-106 puts on the records
\* bounds the agents that run on the device, over any bridge processes and hand-overs,
\* those aside that a reclaim wrote off while they lived.
THEOREM WithinTheCap ==
  ASSUME IsFiniteSet(Invocation)
  PROVE  Spec => []ExecutorsWithinCap
<1>1. Init => WithinCap
  BY InitWithinCap
<1>2. IInv /\ WithinCap /\ [Next]_vars => WithinCap'
  BY NextInv, NextWithinCap DEF Preserved
<1>3. LiveInv /\ WithinCap => ExecutorsWithinCap
  BY LiveWithinCap
<1> QED
  BY <1>1, <1>2, <1>3, Invariant, LiveInvariant, PTL DEF Spec

-----------------------------------------------------------------------------
(* What is over.                                                           *)

\* Only a report charges, and nothing reopens or rewrites an outcome.
Settled(v, w) ==
    /\ w.charges = v.charges
    /\ IsTerminal(v) => w.status = v.status

LEMMA ReclaimSettled ==
  ASSUME NEW v \in InvocationRecord, NEW w, Reclaim(v, w)
  PROVE  Settled(v, w)
  BY DEF Reclaim, Requeued, EndsUncharged, Ends, InFlight, INFLIGHT_STATUSES, IsTerminal,
         TerminalStatus, Settled, InvocationRecord

LEMMA PlainSettled ==
  ASSUME NEW v \in InvocationRecord, NEW w, Plain(v, w)
  PROVE  Settled(v, w)
<1>1. CASE Submit(v, w) \/ Decision(v, w)
  BY <1>1 DEF Submit, Decision, AwaitsDecision, Settled, InvocationRecord, IsTerminal,
              TerminalStatus
<1>2. CASE Stop(v, w) \/ (AckGate(v) /\ w = Acknowledged(v))
  BY <1>2 DEF Stop, QueuedCancelled, CancelRequested, AckGate, Acknowledged, Settled,
              InvocationRecord, IsTerminal, TerminalStatus, InFlight, INFLIGHT_STATUSES,
              WaitingStatus
<1> QED
  BY <1>1, <1>2, ReclaimSettled DEF Plain

LEMMA FencedSettled ==
  ASSUME NEW v \in InvocationRecord
  PROVE  Fenced(v) \in InvocationRecord /\ Settled(v, Fenced(v))
<1>1. CASE v.status = "dispatching"
  BY <1>1 DEF Fenced, Requeued, InvocationRecord, Status, WaitingStatus, DeliveryState, Settled,
              IsTerminal, TerminalStatus
<1>2. CASE v.status # "dispatching"
  BY <1>2 DEF Fenced, InvocationRecord, Settled
<1> QED
  BY <1>1, <1>2

LEMMA LeaseSettled ==
  ASSUME NEW v \in InvocationRecord, NEW w, Lease(v, w)
  PROVE  Settled(v, w)
<1>1. PICK u \in InvocationRecord : Reclaim(v, u) /\ u.status = "queued" /\ w = Dispatched(u)
  BY DEF Lease
<1>2. Settled(v, u)
  BY <1>1, ReclaimSettled
<1>3. w.charges = u.charges
  BY <1>1 DEF Dispatched, InvocationRecord
<1> QED
  BY <1>1, <1>2, <1>3 DEF Settled, IsTerminal, TerminalStatus

LEMMA StepSettles ==
  ASSUME IInv, [Next]_vars, NEW i \in Invocation
  PROVE  Settled(inv[i], inv'[i]) \/ Reports(i)
<1>1. inv[i] \in InvocationRecord
  BY DEF IInv, TypeOK
<1>2. CASE OrdinaryStep
  BY <1>1, <1>2, PlainSettled DEF OrdinaryStep
<1>3. ASSUME NEW s \in Session, NewSession(s) PROVE Settled(inv[i], inv'[i])
  <2>1. Settled(inv[i], Fenced(inv[i])) /\ Settled(Fenced(inv[i]), inv'[i])
    BY <1>1, <1>3, FencedSettled, ReclaimSettled DEF NewSession
  <2> QED
    BY <2>1 DEF Settled, IsTerminal
<1>4. ASSUME NEW s \in Session, LeaseStepOf(s) PROVE Settled(inv[i], inv'[i])
  BY <1>1, <1>4, ReclaimSettled, LeaseSettled DEF LeaseStepOf
<1> QED
  BY <1>2, <1>3, <1>4, StepKind

\* "Terminal invocations must not run again" (STATE_MACHINE.md:338): an outcome and its
\* charges stay, nothing is granted after the end, and no agent is begun after it, but
\* for a start that was granted before and that a reclaim did not wait for
\* (completion.mjs:40-64, routes/bridge.mjs:692-699).
THEOREM OverIsOver == Spec => TerminalStaysOver
<1> DEFINE Over(i) == IsTerminal(inv[i]) =>
              /\ inv'[i].status = inv[i].status
              /\ inv'[i].charges = inv[i].charges
              /\ \A n \in DOMAIN task[i] :
                    /\ At(i, n, "acking") => task'[i][n].pc \notin Granted
                    /\ Begin(i, n) => WrittenOff(i, n)
<1>1. IInv /\ LiveInv /\ [Next]_vars => [\A i \in Invocation : Over(i)]_vars
  <2> SUFFICES ASSUME IInv, LiveInv, [Next]_vars, NEW i \in Invocation, IsTerminal(inv[i])
               PROVE  Over(i)
    OBVIOUS
  <2>1. ~Reports(i)
    BY DEF Reports, Ends, InFlight, INFLIGHT_STATUSES, IsTerminal, TerminalStatus
  <2>2. Settled(inv[i], inv'[i])
    BY <2>1, StepSettles
  <2>3. ASSUME NEW n \in DOMAIN task[i], Begin(i, n) PROVE WrittenOff(i, n)
    <3>1. task[i][n].pc \in Alive
      BY <2>3 DEF Begin, At, Alive
    <3>2. ~RunsOn(inv[i])
      BY DEF RunsOn, IsTerminal, TerminalStatus
    <3> QED
      BY <3>1, <3>2, LiveOrWrittenOff
  <2>4. ASSUME NEW n \in DOMAIN task[i], At(i, n, "acking")
        PROVE  task'[i][n].pc \notin Granted
    <3>1. DeliveryKept(i, n)
      BY StepDeliveries DEF DeliveriesKept
    <3>2. ~Grants(i)
      BY DEF Grants, AckGate, IsTerminal, TerminalStatus
    <3>3. task[i][n].pc \notin Granted
      BY <2>4 DEF At, Granted, Alive
    <3> QED
      BY <3>1, <3>2, <3>3 DEF DeliveryKept
  <2> QED
    BY <2>2, <2>3, <2>4 DEF Settled
<1> QED
  BY <1>1, Invariant, LiveInvariant, PTL DEF Spec, TerminalStaysOver

-----------------------------------------------------------------------------
(* The refinement of RunOnce.                                              *)

OutcomeOf(i) == IF IsTerminal(inv[i]) THEN inv[i].status ELSE "open"

\* What is on record of a permit that is used: still open, or given up.
Usable == {"open", "cancelled", "failed", "timed_out"}

SameCharges(i) == inv'[i].charges = inv[i].charges

\* What a granted delivery is to the promise, and what the deliveries s of an
\* invocation are when one at most is granted.
PermitAt(pc) == IF pc = "granted" THEN "issued" ELSE IF pc = "void" THEN "void" ELSE "used"

PermitIn(s) ==
    LET granted == {s[n].pc : n \in DOMAIN s} \cap Granted
    IN  IF granted = {} THEN "none"
        ELSE IF granted = {"granted"} THEN "issued"
        ELSE IF granted = {"void"} THEN "void"
        ELSE "used"

AtMostOneIn(s) ==
    \A n, m \in DOMAIN s : s[n].pc \in Granted /\ s[m].pc \in Granted => n = m

\* The permit of an invocation in a step: kept, issued, used or void.
PermitStep(i) ==
    \/ PermitOf(i)' = PermitOf(i)
    \/ /\ PermitOf(i) = "none" /\ PermitOf(i)' \in {"issued", "void"}
       /\ AckGate(inv[i]) /\ inv'[i] = Acknowledged(inv[i])
    \/ /\ PermitOf(i) = "issued" /\ PermitOf(i)' = "used"
       /\ OutcomeOf(i) \in Usable /\ inv'[i] = inv[i]
    \/ /\ PermitOf(i) = "issued" /\ PermitOf(i)' = "void"
       /\ inv'[i] = inv[i]

\* What the step is in RunOnce, for one invocation.
PStep(i) ==
    \/ OutcomeOf(i)' = OutcomeOf(i) /\ PermitOf(i)' = PermitOf(i) /\ SameCharges(i)
    \/ /\ OutcomeOf(i) = "open" /\ OutcomeOf(i)' = "open" /\ SameCharges(i)
       /\ PermitOf(i) = "none" /\ PermitOf(i)' \in {"issued", "void"}
    \/ /\ OutcomeOf(i)' = OutcomeOf(i) /\ SameCharges(i)
       /\ PermitOf(i) = "issued"
       /\ \/ OutcomeOf(i) \in Usable /\ PermitOf(i)' = "used"
          \/ PermitOf(i)' = "void"
    \/ /\ OutcomeOf(i) = "open" /\ OutcomeOf(i)' \in TerminalStatus
       /\ PermitOf(i)' = PermitOf(i)
       /\ \/ SameCharges(i)
          \/ PermitOf(i) = "used" /\ inv'[i].charges = inv[i].charges + 1

LEMMA PermitOfTasks ==
  ASSUME NEW i \in Invocation
  PROVE  PermitOf(i) = PermitIn(task[i]) /\ PermitOf(i)' = PermitIn(task'[i])
  BY DEF PermitOf, PermitIn

LEMMA PermitNone ==
  ASSUME NEW s, \A n \in DOMAIN s : s[n].pc \notin Granted
  PROVE  PermitIn(s) = "none"
<1>1. {s[n].pc : n \in DOMAIN s} \cap Granted = {}
  OBVIOUS
<1> QED
  BY <1>1 DEF PermitIn

LEMMA PermitOne ==
  ASSUME NEW s, AtMostOneIn(s), NEW n \in DOMAIN s, s[n].pc \in Granted
  PROVE  PermitIn(s) = PermitAt(s[n].pc)
<1>1. {s[m].pc : m \in DOMAIN s} \cap Granted = {s[n].pc}
  BY DEF AtMostOneIn
<1>2. {s[n].pc} # {}
  OBVIOUS
<1>3. ({s[n].pc} = {"granted"} <=> s[n].pc = "granted")
        /\ ({s[n].pc} = {"void"} <=> s[n].pc = "void")
  OBVIOUS
<1> QED
  BY <1>1, <1>2, <1>3 DEF PermitIn, PermitAt

LEMMA OneInEach ==
  ASSUME AtMostOneExecution, NEW i \in Invocation
  PROVE  AtMostOneIn(task[i])
  BY DEF AtMostOneExecution, AtMostOneIn

\* Deliveries that keep their standing keep the permit.
LEMMA PermitKept ==
  ASSUME NEW s, NEW t, AtMostOneIn(s), AtMostOneIn(t), DOMAIN s \subseteq DOMAIN t,
         \A n \in DOMAIN s : /\ s[n].pc \in Granted <=> t[n].pc \in Granted
                             /\ s[n].pc \in Granted => PermitAt(t[n].pc) = PermitAt(s[n].pc),
         \A n \in DOMAIN t : t[n].pc \in Granted => n \in DOMAIN s
  PROVE  PermitIn(t) = PermitIn(s)
<1>1. CASE \E n \in DOMAIN s : s[n].pc \in Granted
  <2>1. PICK n \in DOMAIN s : s[n].pc \in Granted
    BY <1>1
  <2>2. n \in DOMAIN t /\ t[n].pc \in Granted /\ PermitAt(t[n].pc) = PermitAt(s[n].pc)
    BY <2>1
  <2> QED
    BY <2>1, <2>2, PermitOne
<1>2. CASE ~\E n \in DOMAIN s : s[n].pc \in Granted
  <2>1. \A n \in DOMAIN t : t[n].pc \notin Granted
    BY <1>2
  <2> QED
    BY <1>2, <2>1, PermitNone
<1> QED
  BY <1>1, <1>2

LEMMA GotoPermit ==
  ASSUME TypeOK, AtMostOneExecution, AtMostOneExecution', NEW i \in Invocation,
         NEW n \in DOMAIN task[i], NEW pc \in TaskPc, Goto(i, n, pc)
  PROVE  /\ \A j \in Invocation : j # i => PermitOf(j)' = PermitOf(j)
         /\ task[i][n].pc \in Granted /\ pc \in Granted =>
               PermitOf(i) = PermitAt(task[i][n].pc) /\ PermitOf(i)' = PermitAt(pc)
         /\ task[i][n].pc \notin Granted /\ pc \notin Granted => PermitOf(i)' = PermitOf(i)
<1>1. /\ DOMAIN task'[i] = DOMAIN task[i]
      /\ task'[i][n].pc = pc
      /\ \A m \in DOMAIN task[i] : m # n => task'[i][m] = task[i][m]
  BY GotoType
<1>2. \A j \in Invocation : j # i => task'[j] = task[j]
  BY DEF Goto, TypeOK
<1>3. \A j \in Invocation : AtMostOneIn(task[j]) /\ AtMostOneIn(task'[j])
  BY DEF AtMostOneExecution, AtMostOneIn
<1>4. \A j \in Invocation : j # i => PermitOf(j)' = PermitOf(j)
  BY <1>2, PermitOfTasks
<1>5. CASE task[i][n].pc \in Granted /\ pc \in Granted
  BY <1>1, <1>3, <1>4, <1>5, PermitOne, PermitOfTasks
<1>6. CASE task[i][n].pc \notin Granted /\ pc \notin Granted
  <2>1. \A m \in DOMAIN task[i] :
            /\ task[i][m].pc \in Granted <=> task'[i][m].pc \in Granted
            /\ task[i][m].pc \in Granted => PermitAt(task'[i][m].pc) = PermitAt(task[i][m].pc)
    BY <1>1, <1>6
  <2>2. PermitIn(task'[i]) = PermitIn(task[i])
    BY <1>1, <1>3, <2>1, PermitKept
  <2> QED
    BY <1>4, <1>6, <2>2, PermitOfTasks
<1> QED
  BY <1>4, <1>5, <1>6

LEMMA SameTasksPermit ==
  ASSUME task' = task
  PROVE  \A i \in Invocation : PermitStep(i)
  BY DEF PermitOf, PermitStep

LEMMA PollPermit ==
  ASSUME IInv, AtMostOneExecution', NEW s \in Session, Poll(s)
  PROVE  \A i \in Invocation : PermitStep(i)
<1>1. PICK f : PollWith(s, f)
  BY DEF Poll
<1>2. ASSUME NEW i \in Invocation, NEW pc \in {"claimed", "dropped"},
             task' = [task EXCEPT ![i] = Append(@, [pc |-> pc, session |-> s])],
             NEW j \in Invocation
      PROVE  PermitStep(j)
  <2> DEFINE e == [pc |-> pc, session |-> s]
  <2>1. e.pc \notin Granted
    BY DEF Granted, Alive
  <2> HIDE DEF e
  <2>2. /\ task[i] \in Seq(Task) /\ task'[i] = Append(task[i], e)
        /\ \A k \in Invocation : k # i => task'[k] = task[k]
    BY <1>2 DEF IInv, TypeOK, e
  <2>3. AtMostOneIn(task[i]) /\ AtMostOneIn(task'[i])
    BY DEF IInv, AtMostOneExecution, AtMostOneIn
  <2>4. /\ DOMAIN task'[i] = 1..(Len(task[i]) + 1)
        /\ DOMAIN task[i] = 1..Len(task[i])
        /\ Len(task[i]) \in Nat
        /\ task'[i][Len(task[i]) + 1] = e
        /\ \A n \in 1..Len(task[i]) : task'[i][n] = task[i][n]
    BY <2>2
  <2>5. DOMAIN task[i] \subseteq DOMAIN task'[i]
    BY <2>4
  <2>6. \A n \in DOMAIN task[i] : task'[i][n] = task[i][n]
    BY <2>4
  <2>7. \A n \in DOMAIN task'[i] : task'[i][n].pc \in Granted => n \in DOMAIN task[i]
    <3>1. \A n \in DOMAIN task'[i] : n = Len(task[i]) + 1 \/ n \in DOMAIN task[i]
      BY <2>4
    <3> QED
      BY <2>1, <2>4, <3>1
  <2>8. PermitIn(task'[i]) = PermitIn(task[i])
    BY <2>3, <2>5, <2>6, <2>7, PermitKept
  <2>9. PermitOf(j)' = PermitOf(j)
    BY <2>2, <2>8, PermitOfTasks
  <2> QED
    BY <2>9 DEF PermitStep
<1>3. CASE task' = task
  BY <1>3, SameTasksPermit
<1> QED
  BY <1>1, <1>2, <1>3 DEF PollWith, Dispatchable

LEMMA ExitPermit ==
  ASSUME IInv, AtMostOneExecution', NEW s \in Session, ExitBridge(s), NEW i \in Invocation
  PROVE  PermitStep(i)
<1>1. inv' = inv /\ DOMAIN task'[i] = DOMAIN task[i]
  BY DEF ExitBridge, server
<1>2. \A n \in DOMAIN task[i] : task[i][n] \in Task
  BY DEF IInv, TypeOK
<1>3. \A n \in DOMAIN task[i] :
          task'[i][n].pc = task[i][n].pc
            \/ /\ task[i][n].pc \in {"claimed", "granted", "exited", "killed"}
               /\ task'[i][n].pc = Lost(task[i][n].pc)
  <2> SUFFICES ASSUME NEW n \in DOMAIN task[i]
               PROVE  task'[i][n].pc = task[i][n].pc
                        \/ /\ task[i][n].pc \in {"claimed", "granted", "exited", "killed"}
                           /\ task'[i][n].pc = Lost(task[i][n].pc)
    OBVIOUS
  <2>1. \/ task'[i][n] = task[i][n]
        \/ /\ task[i][n].pc \in {"claimed", "granted", "exited", "killed"}
           /\ task'[i][n] = [task[i][n] EXCEPT !.pc = Lost(task[i][n].pc)]
    BY DEF ExitBridge
  <2> QED
    BY <1>2, <2>1 DEF Task
<1>4. AtMostOneIn(task[i]) /\ AtMostOneIn(task'[i])
  BY DEF IInv, AtMostOneExecution, AtMostOneIn
<1>5. /\ Lost("claimed") \notin Granted /\ "claimed" \notin Granted
      /\ Lost("granted") = "void" /\ "granted" \in Granted /\ "void" \in Granted
      /\ \A pc \in {"exited", "killed"} : pc \in Granted /\ Lost(pc) \in Granted
                                           /\ PermitAt(Lost(pc)) = PermitAt(pc)
  BY DEF Lost, Granted, Alive, PermitAt
<1>6. CASE \E n \in DOMAIN task[i] : task[i][n].pc = "granted" /\ task'[i][n].pc = "void"
  <2>1. PICK n \in DOMAIN task[i] : task[i][n].pc = "granted" /\ task'[i][n].pc = "void"
    BY <1>6
  <2>2. PermitIn(task[i]) = PermitAt("granted") /\ PermitIn(task'[i]) = PermitAt("void")
    BY <1>1, <1>4, <1>5, <2>1, PermitOne
  <2> QED
    BY <1>1, <2>2, PermitOfTasks DEF PermitAt, PermitStep
<1>7. CASE ~\E n \in DOMAIN task[i] : task[i][n].pc = "granted" /\ task'[i][n].pc = "void"
  <2>1. \A n \in DOMAIN task[i] :
            /\ task[i][n].pc \in Granted <=> task'[i][n].pc \in Granted
            /\ task[i][n].pc \in Granted => PermitAt(task'[i][n].pc) = PermitAt(task[i][n].pc)
    BY <1>3, <1>5, <1>7
  <2>2. PermitIn(task'[i]) = PermitIn(task[i])
    BY <1>1, <1>4, <2>1, PermitKept
  <2> QED
    BY <2>2, PermitOfTasks DEF PermitStep
<1> QED
  BY <1>6, <1>7

LEMMA DeliveryPermit ==
  ASSUME IInv, LiveInv, AtMostOneExecution', NEW i \in Invocation, NEW n \in DOMAIN task[i],
         DeliveryStep(i, n), NEW j \in Invocation
  PROVE  PermitStep(j)
<1> DEFINE from == task[i][n].pc
<1>1. TypeOK /\ AtMostOneExecution /\ inv \in [Invocation -> InvocationRecord]
  BY DEF IInv, TypeOK
<1>2. from \in TaskPc
  <2>1. task[i] \in Seq(Task)
    BY <1>1 DEF TypeOK
  <2>2. task[i][n] \in Task
    BY <2>1
  <2> QED
    BY <2>2 DEF Task
<1>3. ASSUME NEW pc \in TaskPc, Goto(i, n, pc),
             \/ from \notin Granted /\ pc \notin Granted
             \/ from \in Granted /\ pc \in Granted /\ PermitAt(pc) = PermitAt(from)
      PROVE  PermitStep(j)
  BY <1>1, <1>3, GotoPermit DEF PermitStep
<1>4. CASE SendAck(i, n) \/ SendRefuse(i, n) \/ HandleRefuse(i, n)
              \/ (HandleAck(i, n) /\ ~AckGate(inv[i]))
  <2>1. from \notin Granted
    BY <1>4 DEF SendAck, SendRefuse, HandleRefuse, HandleAck, At, Granted, Alive
  <2>2. \E pc \in {"acking", "refusing", "dropped"} : Goto(i, n, pc)
    BY <1>4 DEF SendAck, SendRefuse, HandleRefuse, HandleAck
  <2>3. \A pc \in {"acking", "refusing", "dropped"} : pc \in TaskPc /\ pc \notin Granted
    BY DEF TaskPc, Granted, Alive
  <2> QED
    BY <1>3, <2>1, <2>2, <2>3
<1>5. CASE DeliverCancel(i, n) \/ ExecutorEnds(i, n) \/ OrphanEnds(i, n) \/ SendComplete(i, n)
              \/ HandleComplete(i, n)
  <2>1. from \in {"executing", "killing", "exited", "killed", "reporting", "reporting_killed"}
    BY <1>5 DEF DeliverCancel, ExecutorEnds, OrphanEnds, SendComplete, HandleComplete, At
  <2>2. \E pc \in {"killing", "exited", "killed", "reporting", "reporting_killed", "ended"} :
            Goto(i, n, pc)
    BY <1>5 DEF DeliverCancel, ExecutorEnds, OrphanEnds, SendComplete, HandleComplete
  <2>3. \A pc \in {"executing", "killing", "exited", "killed", "reporting",
                   "reporting_killed", "ended"} :
            pc \in TaskPc /\ pc \in Granted /\ PermitAt(pc) = "used"
    BY DEF TaskPc, Granted, Alive, PermitAt
  <2> QED
    BY <1>3, <2>1, <2>2, <2>3
<1>6. CASE Begin(i, n)
  <2>1. from = "granted" /\ Goto(i, n, "executing") /\ inv' = inv
    BY <1>6 DEF Begin, At, server
  <2>2. OutcomeOf(i) \in Usable
    <3>1. RunsOn(inv[i]) \/ WrittenOff(i, n)
      BY <2>1, LiveOrWrittenOff DEF Alive
    <3> QED
      BY <3>1 DEF RunsOn, WrittenOff, OutcomeOf, Usable, IsTerminal, TerminalStatus
  <2>3. "executing" \in TaskPc /\ "executing" \in Granted /\ "granted" \in Granted
    BY DEF TaskPc, Granted, Alive
  <2> QED
    BY <1>1, <2>1, <2>2, <2>3, GotoPermit DEF PermitStep, PermitAt
<1>7. CASE Lose(i, n)
  <2>1. Goto(i, n, Lost(from)) /\ inv' = inv
    BY <1>7 DEF Lose, server
  <2>2. Lost(from) \in TaskPc /\ (Lost(from) \in Granted <=> from \in Granted)
    BY <1>2 DEF Lost, TaskPc, Granted, Alive
  <2>3. from \in Granted => \/ PermitAt(Lost(from)) = PermitAt(from)
                            \/ from = "granted" /\ Lost(from) = "void"
    BY <1>7 DEF Lose, Lost, PermitAt, Granted, Alive
  <2> QED
    BY <1>1, <1>3, <2>1, <2>2, <2>3, GotoPermit DEF PermitStep, PermitAt
<1>8. CASE HandleAck(i, n) /\ AckGate(inv[i])
  <2>1. \A m \in DOMAIN task[i] : task[i][m].pc \notin Granted
    BY <1>8, GateFacts
  <2>2. PermitOf(i) = "none"
    BY <2>1, PermitNone, PermitOfTasks
  <2>3. PICK pc \in {"granted", "void"} : Goto(i, n, pc)
    BY <1>8 DEF HandleAck
  <2>4. pc \in TaskPc /\ pc \in Granted /\ PermitAt(pc) \in {"issued", "void"}
    BY DEF TaskPc, Granted, Alive, PermitAt
  <2>5. DOMAIN task'[i] = DOMAIN task[i] /\ task'[i][n].pc = pc
    BY <1>1, <2>3, <2>4, GotoType
  <2>6. PermitOf(i)' = PermitAt(pc)
    <3>1. AtMostOneIn(task'[i])
      BY DEF AtMostOneExecution, AtMostOneIn
    <3> QED
      BY <2>4, <2>5, <3>1, PermitOne, PermitOfTasks
  <2>7. inv'[i] = Acknowledged(inv[i])
    BY <1>1, <1>8 DEF HandleAck
  <2>8. j # i => PermitOf(j)' = PermitOf(j)
    BY <1>1, <2>3, <2>4, GotoPermit
  <2> QED
    BY <1>8, <2>2, <2>4, <2>6, <2>7, <2>8 DEF PermitStep
<1> QED
  BY <1>4, <1>5, <1>6, <1>7, <1>8 DEF DeliveryStep

LEMMA NextPermit ==
  ASSUME IInv, LiveInv, [Next]_vars, NEW j \in Invocation
  PROVE  PermitStep(j)
<1>1. AtMostOneExecution'
  BY NextInv DEF Preserved, IInv
<1>2. CASE DeviceStep \/ SweepOffline \/ UNCHANGED vars
  BY <1>2, SameTasksPermit DEF DeviceStep, Unlink, Relink, SweepOffline, bridge, vars
<1>3. ASSUME NEW s \in Session, ProcessStep(s) PROVE PermitStep(j)
  BY <1>1, <1>3, SameTasksPermit, PollPermit, ExitPermit DEF ProcessStep, Register
<1>4. ASSUME NEW i \in Invocation, UserStep(i) \/ SweepStep(i) PROVE PermitStep(j)
  BY <1>4, SameTasksPermit DEF UserStep, SweepStep, Create, Approve, Deny, Cancel,
     SweepDeadline, SweepInterrupted, SweepOfflineRun, bridge
<1>5. ASSUME NEW i \in Invocation, NEW n \in DOMAIN task[i], DeliveryStep(i, n)
      PROVE  PermitStep(j)
  BY <1>1, <1>5, DeliveryPermit
<1> QED
  BY <1>2, <1>3, <1>4, <1>5 DEF Next

\* The report of a delivery that was used decides the outcome.
LEMMA ReportsPStep ==
  ASSUME IInv, AtMostOneExecution', NEW i \in Invocation, Reports(i)
  PROVE  PStep(i)
<1>1. PICK n \in DOMAIN task[i] : HandleComplete(i, n)
  BY DEF Reports
<1>2. task[i][n].pc \in {"reporting", "reporting_killed"} /\ Goto(i, n, "ended")
  BY <1>1 DEF HandleComplete, At
<1>3. \A pc \in {"reporting", "reporting_killed", "ended"} :
          pc \in TaskPc /\ pc \in Granted /\ PermitAt(pc) = "used"
  BY DEF TaskPc, Granted, Alive, PermitAt
<1>4. PermitOf(i) = "used" /\ PermitOf(i)' = "used"
  BY <1>2, <1>3, GotoPermit DEF IInv
<1>5. OutcomeOf(i) = "open" /\ OutcomeOf(i)' \in TerminalStatus
  BY DEF Reports, Ends, OutcomeOf, IsTerminal, InFlight, INFLIGHT_STATUSES, TerminalStatus
<1>6. inv'[i].charges \in {inv[i].charges, inv[i].charges + 1}
  BY DEF Reports
<1> QED
  BY <1>4, <1>5, <1>6 DEF PStep, SameCharges

LEMMA NextPStep ==
  ASSUME IInv, LiveInv, [Next]_vars, NEW i \in Invocation
  PROVE  PStep(i)
<1>1. inv[i] \in InvocationRecord /\ AtMostOneExecution'
  BY NextInv DEF Preserved, IInv, TypeOK
<1>2. CASE Reports(i)
  BY <1>1, <1>2, ReportsPStep
<1>3. CASE Settled(inv[i], inv'[i])
  <2>1. SameCharges(i)
    BY <1>3 DEF Settled, SameCharges
  <2>2. OutcomeOf(i)' = OutcomeOf(i)
          \/ (OutcomeOf(i) = "open" /\ OutcomeOf(i)' \in TerminalStatus)
    BY <1>3 DEF Settled, OutcomeOf, IsTerminal
  <2>3. CASE PermitOf(i)' = PermitOf(i)
    BY <2>1, <2>2, <2>3 DEF PStep
  <2>4. CASE /\ PermitOf(i) = "none" /\ PermitOf(i)' \in {"issued", "void"}
             /\ AckGate(inv[i]) /\ inv'[i] = Acknowledged(inv[i])
    <3>1. inv[i].status = "dispatching" /\ inv'[i].status = "running"
      BY <1>1, <2>4 DEF AckGate, Acknowledged, InvocationRecord
    <3>2. OutcomeOf(i) = "open" /\ OutcomeOf(i)' = "open"
      BY <3>1 DEF OutcomeOf, IsTerminal, TerminalStatus
    <3> QED
      BY <2>1, <2>4, <3>2 DEF PStep
  <2>5. CASE /\ PermitOf(i) = "issued" /\ PermitOf(i)' = "used"
             /\ OutcomeOf(i) \in Usable /\ inv'[i] = inv[i]
    <3>1. OutcomeOf(i)' = OutcomeOf(i)
      BY <2>5 DEF OutcomeOf, IsTerminal
    <3> QED
      BY <2>1, <2>5, <3>1 DEF PStep
  <2>6. CASE /\ PermitOf(i) = "issued" /\ PermitOf(i)' = "void"
             /\ inv'[i] = inv[i]
    <3>1. OutcomeOf(i)' = OutcomeOf(i)
      BY <2>6 DEF OutcomeOf, IsTerminal
    <3> QED
      BY <2>1, <2>6, <3>1 DEF PStep
  <2> QED
    BY <2>3, <2>4, <2>5, <2>6, NextPermit DEF PermitStep
<1> QED
  BY <1>2, <1>3, StepSettles

LEMMA PromiseStep ==
  ASSUME \A i \in Invocation : PStep(i)
  PROVE  Promise!Next
<1> SUFFICES ASSUME NEW i \in Invocation
             PROVE  \/ Promise!Issue(i) \/ Promise!Use(i) \/ Promise!Void(i)
                    \/ Promise!Decide(i) \/ Promise!Same(i)
  BY DEF Promise!Next
<1>1. CASE OutcomeOf(i)' = OutcomeOf(i) /\ PermitOf(i)' = PermitOf(i) /\ SameCharges(i)
  BY <1>1 DEF Promise!Same, SameCharges, OutcomeOf
<1>2. CASE /\ OutcomeOf(i) = "open" /\ OutcomeOf(i)' = "open" /\ SameCharges(i)
           /\ PermitOf(i) = "none" /\ PermitOf(i)' \in {"issued", "void"}
  BY <1>2 DEF Promise!Issue, SameCharges, OutcomeOf
<1>3. CASE /\ OutcomeOf(i)' = OutcomeOf(i) /\ SameCharges(i) /\ OutcomeOf(i) \in Usable
           /\ PermitOf(i) = "issued" /\ PermitOf(i)' = "used"
  BY <1>3 DEF Promise!Use, SameCharges, OutcomeOf, Usable
<1>4. CASE /\ OutcomeOf(i)' = OutcomeOf(i) /\ SameCharges(i)
           /\ PermitOf(i) = "issued" /\ PermitOf(i)' = "void"
  BY <1>4 DEF Promise!Void, SameCharges, OutcomeOf
<1>5. CASE /\ OutcomeOf(i) = "open" /\ OutcomeOf(i)' \in TerminalStatus
           /\ PermitOf(i)' = PermitOf(i)
           /\ \/ SameCharges(i)
              \/ PermitOf(i) = "used" /\ inv'[i].charges = inv[i].charges + 1
  BY <1>5 DEF Promise!Decide, SameCharges, OutcomeOf
<1> QED
  BY <1>1, <1>2, <1>3, <1>4, <1>5 DEF PStep

\* The delivery to a bridge keeps the promise of RunOnce, for any invocations, bridge
\* processes, attempts and lost messages, and whenever its timers run out: one permit,
\* used once, and after the outcome only when the run was given up; one outcome; one
\* charge, recorded with the outcome and for a permit in use (dispatch.mjs, completion.mjs:40-117,
\* routes/bridge.mjs:640-720).
THEOREM DeliveryKeepsPromise == Spec => KeepsPromise
<1>1. Init => Promise!Init
  <2> SUFFICES ASSUME Init PROVE Promise!Init
    OBVIOUS
  <2>1. ASSUME NEW i \in Invocation
        PROVE  /\ ~IsTerminal(inv[i]) /\ inv[i].charges = 0
               /\ PermitOf(i) = "none"
    <3>1. task[i] = <<>> /\ inv[i] = NotCreated
      BY DEF Init
    <3>2. \A n \in DOMAIN task[i] : task[i][n].pc \notin Granted
      BY <3>1
    <3> QED
      BY <3>1, <3>2, PermitNone, PermitOfTasks DEF NotCreated, IsTerminal, TerminalStatus
  <2> QED
    BY <2>1 DEF Promise!Init
<1>2. IInv /\ LiveInv /\ [Next]_vars => [Promise!Next]_(Promise!vars)
  BY NextPStep, PromiseStep
<1> QED
  BY <1>1, <1>2, Invariant, LiveInvariant, PTL DEF Spec, KeepsPromise, Promise!Spec
==============================================================================
