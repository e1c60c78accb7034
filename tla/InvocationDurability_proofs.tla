--------------------- MODULE InvocationDurability_proofs ---------------------
(***************************************************************************)
(* Theorems about InvocationDurability for any number of crashes: what the *)
(* store must hold so that a restart neither forgets nor repeats, and that *)
(* the invariants of the delivery hold over restarts as well.              *)
(*                                                                         *)
(* The argument: the store is always a past state of the memory, so it is  *)
(* as sound as the memory ever was (InvocationDelivery_proofs); and each   *)
(* change of a record that must not be lost is one that commits at once,   *)
(* with all that was still waiting for the timer.  A restart thus leads to *)
(* a state that the invariants of the delivery already allow.              *)
(*                                                                         *)
(* The promise of RunOnce is kept by the store: as it is of an earlier     *)
(* state, it knows every permit and every charge, and calls nothing over   *)
(* that the memory does not.                                               *)
(***************************************************************************)
EXTENDS InvocationDurability, ExecutorSafety_proofs

\* The store is a state that the memory could be in.
StoreOK ==
    /\ DOMAIN durable = {"inv", "current", "linked", "paired"}
    /\ durable.inv \in [Invocation -> InvocationRecord]
    /\ durable.current \in Session \cup {NoSession}
    /\ durable.linked \in BOOLEAN /\ durable.paired \in BOOLEAN
    /\ \A i \in Invocation : RecordOK(durable.inv[i])
    /\ \A i, j \in Invocation :
          InFlight(durable.inv[i]) /\ InFlight(durable.inv[j]) /\ DirOf[i] = DirOf[j] => i = j

AcksAreDurable ==
    \A i \in Invocation :
        inv[i].delivery = "acknowledged" => durable.inv[i].delivery = "acknowledged"

CountsOK == crashes \in 0..MaxCrashes /\ withdrawn \subseteq Invocation

DInv ==
    /\ IInv
    /\ StoreOK
    /\ AcksAreDurable
    /\ OutcomesAreDurable
    /\ AcceptanceIsDurable
    /\ CountsOK

-----------------------------------------------------------------------------
(* What a step does to one record commits, or loses nothing.               *)

Onward(v, w) ==
    \/ Commits(v, w)
    \/ /\ IsTerminal(w) /\ w.cancel # "queued_cancelled" =>
             /\ IsTerminal(v) /\ v.cancel # "queued_cancelled"
             /\ w.status = v.status /\ w.charges = v.charges
       /\ w.status # "none" => v.status # "none"
       /\ \/ w.approval = v.approval
          \/ v.status \in WaitingStatus /\ w.status = "cancelled"
       /\ w.delivery = "acknowledged" => v.delivery = "acknowledged"

LEMMA EndsOnward ==
  ASSUME NEW v, NEW w, Ends(v, w)
  PROVE  Onward(v, w)
  BY DEF Ends, Onward, Commits, Ended, IsTerminal, TerminalStatus

LEMMA ReclaimOnward ==
  ASSUME NEW v \in InvocationRecord, NEW w, Reclaim(v, w)
  PROVE  Onward(v, w)
<1>1. CASE w = v
  BY <1>1 DEF Onward
<1>2. CASE v.status = "dispatching" /\ w = Requeued(v)
  BY <1>2 DEF Requeued, Onward, InvocationRecord, IsTerminal, TerminalStatus
<1> QED
  BY <1>1, <1>2, EndsOnward DEF Reclaim, EndsUncharged

LEMMA StopOnward ==
  ASSUME NEW v \in InvocationRecord, RecordOK(v), NEW w, Stop(v, w)
  PROVE  Onward(v, w)
<1>1. CASE v.status \in WaitingStatus /\ w = QueuedCancelled(v)
  BY <1>1 DEF QueuedCancelled, Onward, InvocationRecord, IsTerminal, TerminalStatus, WaitingStatus
<1>2. CASE InFlight(v) /\ w = CancelRequested(v)
  BY <1>2 DEF CancelRequested, Onward, InvocationRecord, IsTerminal, TerminalStatus, InFlight,
              INFLIGHT_STATUSES
<1>3. CASE v.status = "running" /\ w = CancelRequested([v EXCEPT !.deadline = TRUE])
  BY <1>3 DEF CancelRequested, Onward, InvocationRecord, IsTerminal, TerminalStatus
<1> QED
  BY <1>1, <1>2, <1>3 DEF Stop

LEMMA PlainOnward ==
  ASSUME NEW v \in InvocationRecord, RecordOK(v), NEW w, Plain(v, w)
  PROVE  Onward(v, w)
<1>1. CASE Submit(v, w)
  BY <1>1 DEF Submit, Onward, Commits, Accepted, InvocationRecord
<1>2. CASE Decision(v, w)
  BY <1>2 DEF Decision, Onward, Commits, Decided, InvocationRecord
<1>3. CASE AckGate(v) /\ w = Acknowledged(v)
  BY <1>3 DEF AckGate, Acknowledged, Onward, Commits, Acked, InvocationRecord
<1> QED
  BY <1>1, <1>2, <1>3, ReclaimOnward, StopOnward DEF Plain

\* A hand-over alone commits nothing, and nothing that must survive is lost with it.
LEMMA HandOverOnward ==
  ASSUME NEW v \in InvocationRecord, NEW w, Reclaim(Fenced(v), w)
  PROVE  Onward(v, w)
<1>1. CASE v.status = "dispatching"
  <2>1. Fenced(v) = Requeued(v)
    BY <1>1 DEF Fenced
  <2>2. Requeued(v).status = "queued"
    BY DEF Requeued, InvocationRecord
  <2>3. w = Requeued(v)
    BY <2>1, <2>2 DEF Reclaim, EndsUncharged, Ends, InFlight, INFLIGHT_STATUSES
  <2> QED
    BY <1>1, <2>3, ReclaimOnward DEF Requeued, Onward, InvocationRecord, IsTerminal, TerminalStatus
<1>2. CASE v.status # "dispatching"
  <2> DEFINE u == Fenced(v)
  <2>1. /\ u.status = v.status /\ u.cancel = v.cancel /\ u.charges = v.charges
        /\ u.approval = v.approval /\ u.delivery = v.delivery
    BY <1>2 DEF Fenced, InvocationRecord
  <2> HIDE DEF u
  <2>2. w = u \/ Ends(u, w)
    BY <1>2, <2>1 DEF u, Reclaim, EndsUncharged
  <2>3. Ends(u, w) => Ended(v, w)
    BY <2>1 DEF Ends, Ended, InFlight, IsTerminal, TerminalStatus
  <2> QED
    BY <2>1, <2>2, <2>3 DEF Onward, Commits, IsTerminal
<1> QED
  BY <1>1, <1>2

LEMMA LeaseOnward ==
  ASSUME NEW v \in InvocationRecord, NEW w, Lease(v, w)
  PROVE  Onward(v, w)
<1>1. PICK u \in InvocationRecord : Reclaim(v, u) /\ u.status = "queued" /\ w = Dispatched(u)
  BY DEF Lease
<1>2. u.attempts = v.attempts /\ v.attempts \in Nat
  BY <1>1 DEF Reclaim, Requeued, EndsUncharged, Ends, InvocationRecord
<1>3. w.attempts = u.attempts + 1
  BY <1>1 DEF Dispatched, InvocationRecord
<1>4. w.attempts > v.attempts
  BY <1>2, <1>3
<1> QED
  BY <1>4 DEF Onward, Commits, Leased

LEMMA EveryRecordOnward ==
  ASSUME IInv, [Next]_vars, NEW i \in Invocation
  PROVE  Onward(inv[i], inv'[i])
<1>1. inv[i] \in InvocationRecord /\ RecordOK(inv[i])
  BY DEF IInv, TypeOK
<1>2. CASE OrdinaryStep
  BY <1>1, <1>2, PlainOnward, EndsOnward DEF OrdinaryStep, Reports
<1>3. ASSUME NEW s \in Session, NewSession(s) PROVE Onward(inv[i], inv'[i])
  BY <1>1, <1>3, HandOverOnward DEF NewSession
<1>4. ASSUME NEW s \in Session, LeaseStepOf(s) PROVE Onward(inv[i], inv'[i])
  BY <1>1, <1>4, ReclaimOnward, LeaseOnward DEF LeaseStepOf
<1> QED
  BY <1>2, <1>3, <1>4, StepKind

-----------------------------------------------------------------------------
(* The steps.                                                              *)

\* After a write the store is the memory.
LEMMA WrittenOK ==
  ASSUME IInv', durable' = Snapshot'
  PROVE  StoreOK' /\ AcksAreDurable' /\ OutcomesAreDurable' /\ AcceptanceIsDurable'
<1>1. /\ durable'.inv = inv' /\ durable'.current = current'
      /\ durable'.linked = linked' /\ durable'.paired = paired'
      /\ DOMAIN durable' = {"inv", "current", "linked", "paired"}
  BY DEF Snapshot
<1>2. StoreOK'
  BY <1>1 DEF StoreOK, IInv, TypeOK, DirectoryExclusion
<1>3. AcksAreDurable' /\ OutcomesAreDurable' /\ AcceptanceIsDurable'
  BY <1>1 DEF AcksAreDurable, OutcomesAreDurable, AcceptanceIsDurable
<1> QED
  BY <1>2, <1>3

LEMMA StepDInv ==
  ASSUME DInv, ServerOrBridgeStep
  PROVE  DInv'
<1>1. IInv'
  BY NextInv DEF DInv, ServerOrBridgeStep, Preserved
<1>2. CountsOK'
  BY DEF DInv, CountsOK, ServerOrBridgeStep
<1>3. CASE durable' = Snapshot'
  BY <1>1, <1>2, <1>3, WrittenOK DEF DInv
<1>4. CASE durable' = durable /\ ~\E i \in Invocation : Commits(inv[i], inv'[i])
  <2>1. ASSUME NEW i \in Invocation
        PROVE  Onward(inv[i], inv'[i]) /\ ~Commits(inv[i], inv'[i])
    BY <1>4, EveryRecordOnward DEF DInv, ServerOrBridgeStep
  <2>2. StoreOK'
    BY <1>4 DEF DInv, StoreOK
  <2>3. AcksAreDurable'
    BY <1>4, <2>1 DEF DInv, AcksAreDurable, Onward
  <2>4. OutcomesAreDurable'
    BY <1>4, <2>1 DEF DInv, OutcomesAreDurable, Onward
  <2>5. AcceptanceIsDurable'
    <3> SUFFICES ASSUME NEW i \in Invocation
                 PROVE  /\ inv'[i].status # "none" => durable'.inv[i].status # "none"
                        /\ inv'[i].approval \in {"approved", "denied"} /\ i \notin withdrawn'
                              => durable'.inv[i].approval = inv'[i].approval
      BY DEF AcceptanceIsDurable
    <3>1. withdrawn' = withdrawn \cup
              {j \in Invocation : inv[j].status \in WaitingStatus /\ inv'[j].status = "cancelled"}
      BY DEF ServerOrBridgeStep
    <3>2. i \notin withdrawn' => /\ i \notin withdrawn
                                 /\ inv'[i].approval = inv[i].approval
      BY <2>1, <3>1 DEF Onward
    <3> QED
      BY <1>4, <2>1, <3>2 DEF DInv, AcceptanceIsDurable, Onward
  <2> QED
    BY <1>1, <1>2, <2>2, <2>3, <2>4, <2>5 DEF DInv
<1> QED
  BY <1>3, <1>4 DEF ServerOrBridgeStep

LEMMA SameMemory ==
  ASSUME IInv, UNCHANGED vars
  PROVE  IInv'
  BY NextInv DEF Preserved

LEMMA FlushDInv ==
  ASSUME DInv, Flush
  PROVE  DInv'
<1>1. IInv'
  BY SameMemory DEF DInv, Flush
<1>2. durable' = Snapshot'
  BY DEF Flush, Snapshot, vars
<1>3. CountsOK'
  BY DEF DInv, Flush, CountsOK
<1> QED
  BY <1>1, <1>2, <1>3, WrittenOK DEF DInv

\* What the crash leaves of the deliveries.
LEMMA CrashTasks ==
  ASSUME IInv, CrashRestart
  PROVE  TasksKeep
<1> DEFINE Entry(i, n) ==
             IF task[i][n].pc \in {"acking", "refusing", "reporting", "reporting_killed"}
             THEN [task[i][n] EXCEPT !.pc = Lost(task[i][n].pc)]
             ELSE task[i][n]
<1>1. task' = [i \in Invocation |-> [n \in DOMAIN task[i] |-> Entry(i, n)]]
  BY DEF CrashRestart
<1>2. ASSUME NEW i \in Invocation, NEW n \in DOMAIN task[i]
      PROVE  /\ Entry(i, n) \in Task
             /\ Entry(i, n).pc \in Granted => task[i][n].pc \in Granted
  <2>1. task[i][n] \in Task
    BY DEF IInv, TypeOK
  <2>2. \A pc \in TaskPc : Lost(pc) \in TaskPc /\ (Lost(pc) \in Granted => pc \in Granted)
    BY DEF Lost, TaskPc, Granted, Alive
  <2> QED
    BY <2>1, <2>2 DEF Task
<1> HIDE DEF Entry
<1>3. ASSUME NEW i \in Invocation
      PROVE  [n \in DOMAIN task[i] |-> Entry(i, n)] \in Seq(Task)
  <2>1. task[i] \in Seq(Task)
    BY DEF IInv, TypeOK
  <2>2. DOMAIN task[i] = 1..Len(task[i]) /\ Len(task[i]) \in Nat
    BY <2>1
  <2> QED
    BY <1>2, <2>2
<1> QED
  BY <1>1, <1>2, <1>3 DEF TasksKeep

LEMMA CrashDInv ==
  ASSUME DInv, CrashRestart
  PROVE  DInv'
<1>1. TasksKeep
  BY CrashTasks DEF DInv
<1>2. /\ inv' = durable.inv /\ durable' = durable /\ withdrawn' = withdrawn
      /\ current' = durable.current /\ linked' = durable.linked /\ paired' = durable.paired
      /\ online' = FALSE /\ proc' = proc
  BY DEF CrashRestart
<1>3. TypeOK'
  BY <1>1, <1>2 DEF DInv, StoreOK, IInv, TypeOK, TasksKeep
<1>4. /\ \A i \in Invocation : RecordOK(inv'[i])
      /\ DirectoryExclusion'
  BY <1>2 DEF DInv, StoreOK, DirectoryExclusion
<1>5. GrantedIsAcknowledged'
  BY <1>1, <1>2 DEF DInv, IInv, GrantedIsAcknowledged, AcksAreDurable, TasksKeep
<1>6. AtMostOneExecution'
  BY <1>1 DEF DInv, IInv, AtMostOneExecution, TasksKeep
<1>7. StoreOK' /\ AcksAreDurable' /\ OutcomesAreDurable' /\ AcceptanceIsDurable'
  BY <1>2 DEF DInv, StoreOK, AcksAreDurable, OutcomesAreDurable, AcceptanceIsDurable
<1>8. CountsOK'
  <2>1. crashes \in 0..MaxCrashes /\ crashes < MaxCrashes /\ crashes' = crashes + 1
    BY DEF DInv, CountsOK, CrashRestart
  <2>2. crashes' \in 0..MaxCrashes
    BY <2>1, CrashAssumption
  <2> QED
    BY <1>2, <2>2 DEF DInv, CountsOK
<1> QED
  BY <1>3, <1>4, <1>5, <1>6, <1>7, <1>8 DEF DInv, IInv

LEMMA InitDInv == DurableInit => DInv
<1> SUFFICES ASSUME DurableInit PROVE DInv
  OBVIOUS
<1>1. IInv
  BY InitInv DEF DurableInit
<1>2. /\ durable.inv = inv /\ durable.current = current
      /\ durable.linked = linked /\ durable.paired = paired
      /\ DOMAIN durable = {"inv", "current", "linked", "paired"}
  BY DEF DurableInit, Snapshot
<1>3. StoreOK
  BY <1>1, <1>2 DEF StoreOK, IInv, TypeOK, DirectoryExclusion
<1>4. AcksAreDurable /\ OutcomesAreDurable /\ AcceptanceIsDurable
  BY <1>2 DEF AcksAreDurable, OutcomesAreDurable, AcceptanceIsDurable
<1>5. CountsOK
  BY CrashAssumption DEF DurableInit, CountsOK
<1> QED
  BY <1>1, <1>3, <1>4, <1>5 DEF DInv

LEMMA DurableInvariant == DurableSpec => []DInv
<1>1. DInv /\ [DurableNext]_durabilityVars => DInv'
  <2> SUFFICES ASSUME DInv, [DurableNext]_durabilityVars PROVE DInv'
    OBVIOUS
  <2>1. CASE UNCHANGED durabilityVars
    <3>1. UNCHANGED vars /\ UNCHANGED <<durable, crashes, withdrawn>>
      BY <2>1 DEF durabilityVars
    <3>2. IInv'
      BY <3>1, SameMemory DEF DInv
    <3>3. inv' = inv
      BY <3>1 DEF vars
    <3> QED
      BY <3>1, <3>2, <3>3 DEF DInv, StoreOK, AcksAreDurable, OutcomesAreDurable,
                              AcceptanceIsDurable, CountsOK
  <2> QED
    BY <2>1, StepDInv, FlushDInv, CrashDInv DEF DurableNext
<1> QED
  BY <1>1, InitDInv, PTL DEF DurableSpec

-----------------------------------------------------------------------------
(* The theorems.                                                           *)

\* The store and the memory keep their types over any number of crashes.
THEOREM RestartKeepsTypes == DurableSpec => []DurableTypeOK
<1>1. DInv => DurableTypeOK
  BY DEF DInv, IInv, StoreOK, CountsOK, DurableTypeOK
<1> QED
  BY <1>1, DurableInvariant, PTL

\* No restart makes a server hand an invocation out for a second execution, although
\* leases, hand-overs and cancellations may be forgotten (dispatch.mjs:169-178, 240-277).
THEOREM OneExecutionOverRestarts == DurableSpec => []AtMostOneExecution
<1>1. DInv => AtMostOneExecution
  BY DEF DInv, IInv
<1> QED
  BY <1>1, DurableInvariant, PTL

\* A delivery that may be running is acknowledged in the store (STATE_MACHINE.md:344).
THEOREM StartsAreDurable == DurableSpec => []StartedIsDurable
<1>1. DInv => StartedIsDurable
  BY DEF DInv, IInv, GrantedIsAcknowledged, AcksAreDurable, StartedIsDurable
<1> QED
  BY <1>1, DurableInvariant, PTL

\* An outcome that a bridge was told is accepted, and its charge, survive the next
\* crash, whoever decided it (completion.mjs:32-38, 65-66).
THEOREM DecidedIsDurable == DurableSpec => []OutcomesAreDurable
<1>1. DInv => OutcomesAreDurable
  BY DEF DInv
<1> QED
  BY <1>1, DurableInvariant, PTL

\* An invocation whose creation was answered exists after a crash, and so does the
\* approver's decision about it (creation.mjs:467-470, approval.mjs:119, 169).
THEOREM AcceptedIsDurable == DurableSpec => []AcceptanceIsDurable
<1>1. DInv => AcceptanceIsDurable
  BY DEF DInv
<1> QED
  BY <1>1, DurableInvariant, PTL

-----------------------------------------------------------------------------
(* What holds of the memory at every step, and of the store with it.       *)

\* A step of the server leaves the store or writes it; a crash goes back to it.
LEMMA StoreKind ==
  ASSUME [DurableNext]_durabilityVars
  PROVE  \/ [Next]_vars /\ durable' \in {durable, Snapshot'}
         \/ CrashRestart
<1>1. CASE ServerOrBridgeStep
  BY <1>1 DEF ServerOrBridgeStep
<1>2. CASE Flush
  <2>1. UNCHANGED vars /\ durable' = Snapshot
    BY <1>2 DEF Flush
  <2>2. Snapshot' = Snapshot
    BY <2>1 DEF Snapshot, vars
  <2> QED
    BY <2>1, <2>2
<1>3. CASE UNCHANGED durabilityVars
  BY <1>3 DEF durabilityVars
<1> QED
  BY <1>1, <1>2, <1>3 DEF DurableNext

LEMMA WrittenFields ==
  ASSUME durable' = Snapshot'
  PROVE  /\ durable'.inv = inv' /\ durable'.current = current'
         /\ durable'.linked = linked' /\ durable'.paired = paired'
  BY DEF Snapshot

LEMMA CrashFields ==
  ASSUME CrashRestart
  PROVE  /\ durable' = durable /\ proc' = proc
         /\ inv' = durable.inv /\ current' = durable.current
         /\ linked' = durable.linked /\ paired' = durable.paired
  BY DEF CrashRestart

LEMMA InitFields ==
  ASSUME DurableInit
  PROVE  /\ Init
         /\ durable.inv = inv /\ durable.current = current
         /\ durable.linked = linked /\ durable.paired = paired
  BY DEF DurableInit, Snapshot

SoundStore == \A i \in Invocation : Sound(durable.inv[i])

LEMMA SoundOverRestarts == DurableSpec => [](SoundRecords /\ SoundStore)
<1>1. DurableInit => SoundRecords /\ SoundStore
  BY InitFields DEF Init, SoundRecords, SoundStore, Sound, NotCreated, NotPermitted
<1>2. ASSUME DInv, SoundRecords, SoundStore, [DurableNext]_durabilityVars
      PROVE  SoundRecords' /\ SoundStore'
  <2>1. CASE [Next]_vars /\ durable' \in {durable, Snapshot'}
    <3>1. SoundRecords'
      BY <1>2, <2>1, NextSound DEF DInv
    <3> QED
      BY <1>2, <2>1, <3>1, WrittenFields DEF SoundRecords, SoundStore
  <2>2. CASE CrashRestart
    BY <1>2, <2>2, CrashFields DEF SoundRecords, SoundStore
  <2> QED
    BY <1>2, <2>1, <2>2, StoreKind
<1> QED
  BY <1>1, <1>2, DurableInvariant, PTL DEF DurableSpec

\* What was rejected, denied or withdrawn does not start while the server has it so; a
\* restart may forget a withdrawal, but never one that comes after a start
\* (cancellation.mjs:78-110, approval.mjs:164-223).
THEOREM PermittedOverRestarts == DurableSpec => []NeverStartsUnpermitted
<1>1. DInv /\ SoundRecords => NeverStartsUnpermitted
  BY DEF DInv, IInv, GrantedIsAcknowledged, SoundRecords, Sound, NeverStartsUnpermitted
<1> QED
  BY <1>1, DurableInvariant, SoundOverRestarts, PTL

\* Although the request of a deadline is only written by the timer, no restart lets an
\* interrupted run end as anything but timed out while the request is on record
\* (completion.mjs:44-64).
THEOREM TimedOutOverRestarts == DurableSpec => []DeadlineEndsTimedOut
<1>1. SoundRecords => DeadlineEndsTimedOut
  BY DEF SoundRecords, Sound, DeadlineEndsTimedOut, IsTerminal, TerminalStatus
<1> QED
  BY <1>1, SoundOverRestarts, PTL

StoreOnItsWay == \A i \in Invocation : OnItsWay(durable.inv[i])

\* A restart strands nobody either: status and delivery are stored together, so that what
\* it brings back is where a poll or a person looks for it (persistence.mjs:
\* persistStateNow, dispatch.mjs:169-178, 223-277).
THEOREM NobodyStrandsOverRestarts == DurableSpec => []NothingStrands
<1>1. DurableInit => NothingStrands /\ StoreOnItsWay
  BY InitFields DEF Init, NothingStrands, StoreOnItsWay, OnItsWay, NotCreated
<1>2. ASSUME DInv, NothingStrands, StoreOnItsWay, [DurableNext]_durabilityVars
      PROVE  NothingStrands' /\ StoreOnItsWay'
  <2>1. CASE [Next]_vars /\ durable' \in {durable, Snapshot'}
    <3>1. NothingStrands'
      BY <1>2, <2>1, NextOnItsWay DEF DInv
    <3> QED
      BY <1>2, <2>1, <3>1, WrittenFields DEF NothingStrands, StoreOnItsWay, OnItsWay, AwaitsDecision
  <2>2. CASE CrashRestart
    BY <1>2, <2>2, CrashFields DEF NothingStrands, StoreOnItsWay, OnItsWay, AwaitsDecision
  <2> QED
    BY <1>2, <2>1, <2>2, StoreKind
<1> QED
  BY <1>1, <1>2, DurableInvariant, PTL DEF DurableSpec

IdleStore == ~durable.linked => \A i \in Invocation : Idle(durable.inv[i])

\* The unlink and the end of the work it takes away are stored together, so that a
\* restart finds both or neither (service-composer.mjs:7265-7300).
THEOREM UnlinkedOverRestarts == DurableSpec => []UnlinkedHoldsNoWork
<1>1. DurableInit => UnlinkedIdle /\ IdleStore
  BY InitFields DEF Init, UnlinkedIdle, IdleStore
<1>2. ASSUME DInv, UnlinkedIdle, IdleStore, [DurableNext]_durabilityVars
      PROVE  UnlinkedIdle' /\ IdleStore'
  <2>1. CASE [Next]_vars /\ durable' \in {durable, Snapshot'}
    <3>1. UnlinkedIdle'
      BY <1>2, <2>1, NextUnlinked DEF DInv
    <3> QED
      BY <1>2, <2>1, <3>1, WrittenFields DEF UnlinkedIdle, IdleStore
  <2>2. CASE CrashRestart
    BY <1>2, <2>2, CrashFields DEF UnlinkedIdle, IdleStore
  <2> QED
    BY <1>2, <2>1, <2>2, StoreKind
<1>3. UnlinkedIdle => UnlinkedHoldsNoWork
  BY DEF UnlinkedIdle, UnlinkedHoldsNoWork, Idle
<1> QED
  BY <1>1, <1>2, <1>3, DurableInvariant, PTL DEF DurableSpec

\* The bridge processes that count for the attempts in the store.
StoredRegistered == {s \in Session : proc[s] # "starting"} \cup {durable.current}

AttemptStore ==
    \A i \in Invocation :
        /\ Bounded(durable.inv[i], Cardinality(StoredRegistered))
        /\ durable.inv[i].status = "dispatching" =>
               durable.current \in Session /\ proc[durable.current] # "starting"

\* A process that has started does not start again.
LEMMA ProcessesStart ==
  ASSUME IInv, [Next]_vars, NEW s \in Session, proc[s] # "starting"
  PROVE  proc'[s] # "starting"
<1>1. proc \in [Session -> ProcState]
  BY DEF IInv, TypeOK
<1> QED
  BY <1>1, StepKind DEF OrdinaryStep, NewSession, LeaseStepOf, SameSession

LEMMA MoreRegistered ==
  ASSUME IsFiniteSet(Session), IInv, [Next]_vars, durable' = durable
  PROVE  /\ Cardinality(StoredRegistered) \in Nat /\ Cardinality(StoredRegistered') \in Nat
         /\ Cardinality(StoredRegistered) <= Cardinality(StoredRegistered')
<1> DEFINE S == {s \in Session : proc[s] # "starting"} \cup {durable.current}
           T == {s \in Session : proc'[s] # "starting"} \cup {durable.current}
<1>1. S \subseteq T
  BY ProcessesStart
<1>2. ASSUME NEW Q \in SUBSET Session, NEW c PROVE IsFiniteSet(Q \cup {c})
  BY <1>2, FS_Subset, FS_AddElement
<1>3. IsFiniteSet(S) /\ IsFiniteSet(T)
  BY <1>2
<1>4. StoredRegistered = S /\ StoredRegistered' = T
  BY DEF StoredRegistered
<1> HIDE DEF S, T
<1> QED
  BY <1>1, <1>3, <1>4, FS_Subset, FS_CardinalityType

\* Leases that lapse come to an end over restarts as well: a lease is stored with the
\* session it was given to, so no crash gives an attempt back (dispatch.mjs:169-178,
\* 223-227).
THEOREM AttemptsOverRestarts ==
  ASSUME IsFiniteSet(Session)
  PROVE  DurableSpec => []AttemptsBounded
<1>1. DurableInit => AttemptInv /\ AttemptStore
  <2> SUFFICES ASSUME DurableInit PROVE AttemptInv /\ AttemptStore
    OBVIOUS
  <2>1. AttemptInv
    BY InitFields, InitAttempts
  <2>2. StoredRegistered = Registered
    BY InitFields DEF StoredRegistered, Registered
  <2> QED
    BY <2>1, <2>2, InitFields DEF AttemptInv, AttemptStore
<1>2. ASSUME DInv, AttemptInv, AttemptStore, [DurableNext]_durabilityVars
      PROVE  AttemptInv' /\ AttemptStore'
  <2>1. CASE [Next]_vars /\ durable' = Snapshot'
    <3>1. AttemptInv'
      BY <1>2, <2>1, NextAttempts DEF DInv
    <3>2. StoredRegistered' = Registered'
      BY <2>1, WrittenFields DEF StoredRegistered, Registered
    <3> QED
      BY <2>1, <3>1, <3>2, WrittenFields DEF AttemptInv, AttemptStore
  <2>2. CASE [Next]_vars /\ durable' = durable
    <3>1. AttemptInv'
      BY <1>2, <2>2, NextAttempts DEF DInv
    <3> DEFINE k == Cardinality(StoredRegistered)
               l == Cardinality(StoredRegistered')
    <3>2. k \in Nat /\ l \in Nat /\ k <= l
      BY <1>2, <2>2, MoreRegistered DEF DInv
    <3> HIDE DEF k, l
    <3>3. ASSUME NEW i \in Invocation, Bounded(durable.inv[i], k) PROVE Bounded(durable.inv[i], l)
      <4>1. durable.inv[i].attempts \in Nat /\ MAX_DISPATCH_ATTEMPTS \in Nat
        BY <1>2, DeliveryAssumption DEF DInv, StoreOK, InvocationRecord
      <4> QED
        BY <3>2, <3>3, <4>1 DEF Bounded
    <3>4. \A s \in Session : proc[s] # "starting" => proc'[s] # "starting"
      BY <1>2, <2>2, ProcessesStart DEF DInv
    <3>5. AttemptStore'
      BY <1>2, <2>2, <3>3, <3>4 DEF AttemptStore, k, l
    <3> QED
      BY <3>1, <3>5
  <2>3. CASE CrashRestart
    <3>1. Registered' = StoredRegistered /\ StoredRegistered' = StoredRegistered
      BY <2>3, CrashFields DEF Registered, StoredRegistered
    <3> QED
      BY <1>2, <2>3, <3>1, CrashFields DEF AttemptInv, AttemptStore
  <2> QED
    BY <1>2, <2>1, <2>2, <2>3, StoreKind
<1>3. AttemptInv => AttemptsBounded
  BY AttemptsInBounds
<1> QED
  BY <1>1, <1>2, <1>3, DurableInvariant, PTL DEF DurableSpec

-----------------------------------------------------------------------------
(* The agents on the device.                                               *)

\* The store knows of no other end than the memory, and charges nothing else.
StoreBehind ==
    \A i \in Invocation :
        /\ IsTerminal(durable.inv[i]) => inv[i].status = durable.inv[i].status
        /\ inv[i].charges = durable.inv[i].charges

LEMMA NextBehind ==
  ASSUME DInv, StoreBehind, ServerOrBridgeStep
  PROVE  StoreBehind'
<1>1. CASE durable' = Snapshot'
  BY <1>1, WrittenFields DEF StoreBehind
<1>2. CASE durable' = durable /\ ~\E i \in Invocation : Commits(inv[i], inv'[i])
  <2>1. ASSUME NEW i \in Invocation PROVE Settled(inv[i], inv'[i])
    <3>1. ~Reports(i)
      BY <1>2 DEF Reports, Ends, Commits, Ended, IsTerminal, TerminalStatus
    <3> QED
      BY <3>1, StepSettles DEF DInv, ServerOrBridgeStep
  <2> QED
    BY <1>2, <2>1 DEF StoreBehind, Settled, IsTerminal
<1> QED
  BY <1>1, <1>2 DEF ServerOrBridgeStep

\* The store, too, knows what the memory must know of a delivery that lives.
StoreLive ==
    /\ \A i \in Invocation : \A n \in DOMAIN task[i] :
          task[i][n].pc \in Alive => Known(durable.inv[i], task[i][n].session, durable.current)
    /\ \A i \in Invocation : Fresh(durable.inv[i])

LiveStore == LiveInv /\ StoreLive /\ StoreBehind

LEMMA WrittenLive ==
  ASSUME LiveInv', durable' = Snapshot'
  PROVE  StoreLive'
  BY WrittenFields DEF LiveInv, AgentsKnown, AllFresh, StoreLive

\* A step that does not write grants nothing.
LEMMA NextStoreLive ==
  ASSUME DInv, LiveInv, LiveInv', StoreLive, ServerOrBridgeStep
  PROVE  StoreLive'
<1>1. CASE durable' = Snapshot'
  BY <1>1, WrittenLive
<1>2. CASE durable' = durable /\ ~\E i \in Invocation : Commits(inv[i], inv'[i])
  <2> SUFFICES ASSUME NEW i \in Invocation, NEW n \in DOMAIN task'[i], task'[i][n].pc \in Alive
               PROVE  Known(durable.inv[i], task'[i][n].session, durable.current)
    BY <1>2 DEF StoreLive
  <2>1. DeliveryKept(i, n)
    BY StepDeliveries DEF DInv, ServerOrBridgeStep, DeliveriesKept
  <2>2. ~Grants(i)
    <3>1. inv[i] \in InvocationRecord
      BY DEF DInv, IInv, TypeOK
    <3> QED
      BY <1>2, <3>1, AcknowledgedType DEF Grants, AckGate, Commits, Acked
  <2>3. n \in DOMAIN task[i] /\ task[i][n].pc \in Alive /\ task'[i][n].session = task[i][n].session
    BY <2>1, <2>2 DEF DeliveryKept, Granted
  <2> QED
    BY <2>3 DEF StoreLive
<1> QED
  BY <1>1, <1>2 DEF ServerOrBridgeStep

\* A crash starts no agent and moves no delivery to another process.
LEMMA CrashDeliveries ==
  ASSUME IInv, CrashRestart, NEW i \in Invocation, NEW n \in DOMAIN task'[i]
  PROVE  /\ n \in DOMAIN task[i]
         /\ task'[i][n].session = task[i][n].session
         /\ task'[i][n].pc \in Alive => task[i][n].pc \in Alive
<1>1. n \in DOMAIN task[i] /\ task[i][n] \in Task
  BY DEF CrashRestart, IInv, TypeOK
<1>2. \A pc \in {"acking", "refusing", "reporting", "reporting_killed"} : Lost(pc) \notin Alive
  BY DEF Lost, Granted, Alive
<1>3. \/ task'[i][n] = task[i][n]
      \/ /\ task[i][n].pc \in {"acking", "refusing", "reporting", "reporting_killed"}
         /\ task'[i][n] = [task[i][n] EXCEPT !.pc = Lost(task[i][n].pc)]
  BY <1>1 DEF CrashRestart
<1> QED
  BY <1>1, <1>2, <1>3 DEF Task

LEMMA CrashLive ==
  ASSUME DInv, LiveInv, StoreLive, CrashRestart
  PROVE  LiveInv' /\ StoreLive'
<1>1. ASSUME NEW i \in Invocation, NEW n \in DOMAIN task'[i]
      PROVE  /\ proc'[task'[i][n].session] # "starting"
             /\ task'[i][n].pc \in Alive =>
                   Known(durable.inv[i], task'[i][n].session, durable.current)
  BY CrashDeliveries, CrashFields DEF DInv, LiveInv, SessionsStarted, StoreLive
<1>2. LiveInv'
  BY <1>1, CrashFields DEF LiveInv, AgentsKnown, AllFresh, SessionsStarted, StoreLive
<1>3. StoreLive'
  BY <1>1, CrashFields DEF StoreLive
<1> QED
  BY <1>2, <1>3

LEMMA LiveOverRestarts == DurableSpec => []LiveStore
<1>1. DurableInit => LiveStore
  <2> SUFFICES ASSUME DurableInit PROVE LiveStore
    OBVIOUS
  <2>1. LiveInv /\ StoreBehind
    BY InitFields, InitLive DEF StoreBehind
  <2>2. StoreLive
    BY <2>1, InitFields DEF LiveInv, AgentsKnown, AllFresh, StoreLive
  <2> QED
    BY <2>1, <2>2 DEF LiveStore
<1>2. ASSUME DInv, LiveStore, [DurableNext]_durabilityVars
      PROVE  LiveStore'
  <2>1. CASE ServerOrBridgeStep
    <3>1. LiveInv' /\ StoreBehind'
      BY <1>2, <2>1, NextLive, NextBehind DEF DInv, LiveStore, ServerOrBridgeStep
    <3> QED
      BY <1>2, <2>1, <3>1, NextStoreLive DEF LiveStore
  <2>2. CASE Flush
    <3>1. durable' = Snapshot' /\ UNCHANGED vars
      BY <2>2 DEF Flush, Snapshot, vars
    <3>2. LiveInv'
      BY <1>2, <3>1, NextLive DEF DInv, LiveStore
    <3> QED
      BY <3>1, <3>2, WrittenLive, WrittenFields DEF LiveStore, StoreBehind
  <2>3. CASE CrashRestart
    BY <1>2, <2>3, CrashLive, CrashFields DEF LiveStore, StoreBehind
  <2>4. CASE UNCHANGED durabilityVars
    <3>1. UNCHANGED <<inv, current, proc, task, durable>>
      BY <2>4 DEF durabilityVars, vars
    <3> QED
      BY <1>2, <3>1 DEF LiveStore, LiveInv, AgentsKnown, AllFresh, SessionsStarted, StoreLive,
         StoreBehind
  <2> QED
    BY <1>2, <2>1, <2>2, <2>3, <2>4 DEF DurableNext
<1> QED
  BY <1>1, <1>2, DurableInvariant, PTL DEF DurableSpec

\* A restart forgets leases, hand-overs and requests to stop, and may take an earlier
\* session for the current one, but not which directories have a running agent: two write
\* in the same one only when a reclaim wrote one of them off while it lived
\* (dispatch.mjs:107-110, persistence of the ack: dispatch.mjs:198).
THEOREM OneWriterOverRestarts == DurableSpec => []OneWriterPerDirectory
<1>1. DInv /\ LiveStore => OneWriterPerDirectory
  BY LiveOneWriter DEF DInv, LiveStore
<1> QED
  BY <1>1, DurableInvariant, LiveOverRestarts, PTL

StoreWithinCap == Cardinality(InFlightSet(durable.inv)) <= MaxConcurrency

\* Nor how many agents there are, those aside that were written off (dispatch.mjs:100-106).
THEOREM CapOverRestarts ==
  ASSUME IsFiniteSet(Invocation)
  PROVE  DurableSpec => []ExecutorsWithinCap
<1>1. DurableInit => WithinCap /\ StoreWithinCap
  BY InitFields, InitWithinCap DEF WithinCap, StoreWithinCap
<1>2. ASSUME DInv, WithinCap, StoreWithinCap, [DurableNext]_durabilityVars
      PROVE  WithinCap' /\ StoreWithinCap'
  <2>1. CASE [Next]_vars /\ durable' \in {durable, Snapshot'}
    <3>1. WithinCap'
      BY <1>2, <2>1, NextInv, NextWithinCap DEF DInv, Preserved
    <3>2. InFlightSet(durable'.inv) \in {InFlightSet(durable.inv), InFlightSet(inv')}
      BY <2>1, WrittenFields
    <3> QED
      BY <1>2, <2>1, <3>1, <3>2 DEF WithinCap, StoreWithinCap
  <2>2. CASE CrashRestart
    BY <1>2, <2>2, CrashFields DEF WithinCap, StoreWithinCap
  <2> QED
    BY <1>2, <2>1, <2>2, StoreKind
<1>3. LiveStore /\ WithinCap => ExecutorsWithinCap
  BY LiveWithinCap DEF LiveStore
<1> QED
  BY <1>1, <1>2, <1>3, DurableInvariant, LiveOverRestarts, PTL DEF DurableSpec
-----------------------------------------------------------------------------
(* The refinement of RunOnce by what is stored.                             *)

StoredOutcomeOf(i) == IF IsTerminal(durable.inv[i]) THEN durable.inv[i].status ELSE "open"

SameStoredCharges(i) == durable'.inv[i].charges = durable.inv[i].charges

\* What the step is in RunOnce, for what a restart would read about one invocation.
StoredPStep(i) ==
    \/ /\ StoredOutcomeOf(i)' = StoredOutcomeOf(i) /\ PermitOf(i)' = PermitOf(i)
       /\ SameStoredCharges(i)
    \/ /\ StoredOutcomeOf(i) = "open" /\ StoredOutcomeOf(i)' = "open" /\ SameStoredCharges(i)
       /\ PermitOf(i) = "none" /\ PermitOf(i)' \in {"issued", "void"}
    \/ /\ StoredOutcomeOf(i)' = StoredOutcomeOf(i) /\ SameStoredCharges(i)
       /\ PermitOf(i) = "issued"
       /\ \/ StoredOutcomeOf(i) \in Usable /\ PermitOf(i)' = "used"
          \/ PermitOf(i)' = "void"
    \/ /\ StoredOutcomeOf(i) = "open" /\ StoredOutcomeOf(i)' \in TerminalStatus
       /\ PermitOf(i)' = PermitOf(i)
       /\ \/ SameStoredCharges(i)
          \/ PermitOf(i) = "used" /\ durable'.inv[i].charges = durable.inv[i].charges + 1

\* The store lags behind an outcome, but not of an invocation that may still start: that
\* was ended by a reclaim, and what a reclaim ends is written at once.
LEMMA StoredOutcomes ==
  ASSUME DInv, LiveStore, NEW i \in Invocation
  PROVE  /\ StoredOutcomeOf(i) \in {"open", OutcomeOf(i)}
         /\ OutcomeOf(i) \in TerminalStatus \cup {"open"}
         /\ PermitOf(i) = "issued" =>
               StoredOutcomeOf(i) = OutcomeOf(i) /\ OutcomeOf(i) \in Usable
<1>1. StoredOutcomeOf(i) \in {"open", OutcomeOf(i)} /\ OutcomeOf(i) \in TerminalStatus \cup {"open"}
  BY DEF LiveStore, StoreBehind, StoredOutcomeOf, OutcomeOf, IsTerminal
<1>2. ASSUME PermitOf(i) = "issued"
      PROVE  StoredOutcomeOf(i) = OutcomeOf(i) /\ OutcomeOf(i) \in Usable
  <2>1. {task[i][n].pc : n \in DOMAIN task[i]} \cap Granted = {"granted"}
    BY <1>2 DEF PermitOf
  <2>2. PICK n \in DOMAIN task[i] : task[i][n].pc = "granted"
    BY <2>1
  <2>3. Known(inv[i], task[i][n].session, current)
    BY <2>2 DEF LiveStore, LiveInv, AgentsKnown, Alive
  <2>4. OutcomeOf(i) \in Usable
    BY <2>3 DEF Known, RunsOn, OutcomeOf, Usable, IsTerminal, TerminalStatus
  <2>5. IsTerminal(inv[i]) => durable.inv[i].status = inv[i].status
    BY <2>3 DEF Known, DInv, OutcomesAreDurable
  <2> QED
    BY <1>1, <2>4, <2>5 DEF StoredOutcomeOf, OutcomeOf, IsTerminal
<1> QED
  BY <1>1, <1>2

\* A step of the server leaves the store as it was, or brings it up to date.
LEMMA ServerStoredPStep ==
  ASSUME DInv, LiveStore, [Next]_vars, durable' \in {durable, Snapshot'}, NEW i \in Invocation
  PROVE  StoredPStep(i)
<1>1. /\ StoredOutcomeOf(i) \in {"open", OutcomeOf(i)}
      /\ OutcomeOf(i) \in TerminalStatus \cup {"open"}
      /\ PermitOf(i) = "issued" =>
            StoredOutcomeOf(i) = OutcomeOf(i) /\ OutcomeOf(i) \in Usable
  BY StoredOutcomes
<1>2. inv[i].charges = durable.inv[i].charges
  BY DEF LiveStore, StoreBehind
<1>3. PStep(i)
  BY NextPStep DEF DInv, LiveStore
<1>4. CASE durable' = durable
  <2>1. StoredOutcomeOf(i)' = StoredOutcomeOf(i) /\ SameStoredCharges(i)
    BY <1>4 DEF StoredOutcomeOf, SameStoredCharges
  <2> QED
    BY <1>1, <1>3, <2>1 DEF PStep, StoredPStep
<1>5. CASE durable' = Snapshot'
  <2>1. StoredOutcomeOf(i)' = OutcomeOf(i)' /\ durable'.inv[i].charges = inv'[i].charges
    BY <1>5, WrittenFields DEF StoredOutcomeOf, OutcomeOf
  <2>2. SameStoredCharges(i) <=> SameCharges(i)
    BY <1>2, <2>1 DEF SameStoredCharges, SameCharges
  <2> QED
    BY <1>1, <1>2, <1>3, <2>1, <2>2 DEF PStep, StoredPStep
<1> QED
  BY <1>4, <1>5

\* A crash takes no permit away: a request it loses was of a delivery that has been
\* used, or has none.
LEMMA CrashStoredPStep ==
  ASSUME DInv, CrashRestart, NEW i \in Invocation
  PROVE  StoredPStep(i)
<1>1. AtMostOneIn(task[i]) /\ AtMostOneIn(task'[i])
  BY CrashDInv, OneInEach DEF DInv, IInv, AtMostOneExecution, AtMostOneIn
<1>2. DOMAIN task'[i] = DOMAIN task[i]
  BY DEF CrashRestart
<1>3. ASSUME NEW n \in DOMAIN task[i]
      PROVE  /\ task[i][n].pc \in Granted <=> task'[i][n].pc \in Granted
             /\ task[i][n].pc \in Granted => PermitAt(task'[i][n].pc) = PermitAt(task[i][n].pc)
  <2>1. task[i][n] \in Task
    BY DEF DInv, IInv, TypeOK
  <2>2. \/ task'[i][n] = task[i][n]
        \/ /\ task[i][n].pc \in {"acking", "refusing", "reporting", "reporting_killed"}
           /\ task'[i][n] = [task[i][n] EXCEPT !.pc = Lost(task[i][n].pc)]
    BY DEF CrashRestart
  <2>3. \A pc \in {"acking", "refusing", "reporting", "reporting_killed"} :
            /\ pc \in Granted <=> Lost(pc) \in Granted
            /\ pc \in Granted => PermitAt(Lost(pc)) = PermitAt(pc)
    BY DEF Lost, Granted, Alive, PermitAt
  <2> QED
    BY <2>1, <2>2, <2>3 DEF Task
<1>4. PermitOf(i)' = PermitOf(i)
  BY <1>1, <1>2, <1>3, PermitKept, PermitOfTasks
<1> QED
  BY <1>4, CrashFields DEF StoredPStep, StoredOutcomeOf, SameStoredCharges

LEMMA StoredPromiseStep ==
  ASSUME \A i \in Invocation : StoredPStep(i)
  PROVE  StoredPromise!Next
<1> SUFFICES ASSUME NEW i \in Invocation
             PROVE  \/ StoredPromise!Issue(i) \/ StoredPromise!Use(i) \/ StoredPromise!Void(i)
                    \/ StoredPromise!Decide(i) \/ StoredPromise!Same(i)
  BY DEF StoredPromise!Next
<1>1. CASE /\ StoredOutcomeOf(i)' = StoredOutcomeOf(i) /\ PermitOf(i)' = PermitOf(i)
           /\ SameStoredCharges(i)
  BY <1>1 DEF StoredPromise!Same, SameStoredCharges, StoredOutcomeOf
<1>2. CASE /\ StoredOutcomeOf(i) = "open" /\ StoredOutcomeOf(i)' = "open" /\ SameStoredCharges(i)
           /\ PermitOf(i) = "none" /\ PermitOf(i)' \in {"issued", "void"}
  BY <1>2 DEF StoredPromise!Issue, SameStoredCharges, StoredOutcomeOf
<1>3. CASE /\ StoredOutcomeOf(i)' = StoredOutcomeOf(i) /\ SameStoredCharges(i)
           /\ StoredOutcomeOf(i) \in Usable
           /\ PermitOf(i) = "issued" /\ PermitOf(i)' = "used"
  BY <1>3 DEF StoredPromise!Use, SameStoredCharges, StoredOutcomeOf, Usable
<1>4. CASE /\ StoredOutcomeOf(i)' = StoredOutcomeOf(i) /\ SameStoredCharges(i)
           /\ PermitOf(i) = "issued" /\ PermitOf(i)' = "void"
  BY <1>4 DEF StoredPromise!Void, SameStoredCharges, StoredOutcomeOf
<1>5. CASE /\ StoredOutcomeOf(i) = "open" /\ StoredOutcomeOf(i)' \in TerminalStatus
           /\ PermitOf(i)' = PermitOf(i)
           /\ \/ SameStoredCharges(i)
              \/ PermitOf(i) = "used" /\ durable'.inv[i].charges = durable.inv[i].charges + 1
  BY <1>5 DEF StoredPromise!Decide, SameStoredCharges, StoredOutcomeOf
<1> QED
  BY <1>1, <1>2, <1>3, <1>4, <1>5 DEF StoredPStep

\* Over any number of crashes, and whenever the timers run out, what is stored keeps the
\* promise of RunOnce: an invocation has one permit, used once, and after its stored
\* outcome only when the run was given up; one stored outcome that no restart takes back;
\* and one charge, stored with it (creation.mjs:467, dispatch.mjs:169-198,
\* completion.mjs:32-66).
THEOREM StoredPromiseKept == DurableSpec => KeepsStoredPromise
<1>1. DurableInit => StoredPromise!Init
  <2> SUFFICES ASSUME DurableInit PROVE StoredPromise!Init
    OBVIOUS
  <2>1. ASSUME NEW i \in Invocation
        PROVE  /\ ~IsTerminal(durable.inv[i]) /\ durable.inv[i].charges = 0
               /\ PermitOf(i) = "none"
    <3>1. task[i] = <<>> /\ durable.inv[i] = NotCreated
      BY InitFields DEF Init
    <3>2. \A n \in DOMAIN task[i] : task[i][n].pc \notin Granted
      BY <3>1
    <3> QED
      BY <3>1, <3>2, PermitNone, PermitOfTasks DEF NotCreated, IsTerminal, TerminalStatus
  <2> QED
    BY <2>1 DEF StoredPromise!Init
<1>2. DInv /\ LiveStore /\ [DurableNext]_durabilityVars
        => [StoredPromise!Next]_(StoredPromise!vars)
  BY StoreKind, ServerStoredPStep, CrashStoredPStep, StoredPromiseStep
<1> QED
  BY <1>1, <1>2, DurableInvariant, LiveOverRestarts, PTL
     DEF DurableSpec, KeepsStoredPromise, StoredPromise!Spec

-----------------------------------------------------------------------------
(* What the promise is worth: nobody pays twice, or for nothing.            *)

LEMMA PromiseChargesOnce == StoredPromise!Spec => []StoredPromise!ChargedOnce
<1>1. StoredPromise!Init => StoredPromise!ChargedOnce
  BY DEF StoredPromise!Init, StoredPromise!ChargedOnce, StoredPromise!Paid
<1>2. ASSUME StoredPromise!ChargedOnce, [StoredPromise!Next]_(StoredPromise!vars)
      PROVE  StoredPromise!ChargedOnce'
  <2>1. CASE UNCHANGED StoredPromise!vars
    BY <1>2, <2>1 DEF StoredPromise!vars, StoredPromise!ChargedOnce, StoredPromise!Paid
  <2>2. CASE StoredPromise!Next
    <3> SUFFICES ASSUME NEW i \in Invocation PROVE StoredPromise!Paid(i)'
      BY DEF StoredPromise!ChargedOnce
    <3>1. StoredPromise!Paid(i)
      BY <1>2 DEF StoredPromise!ChargedOnce
    <3>2. CASE StoredPromise!Issue(i)
      BY <3>1, <3>2 DEF StoredPromise!Paid, StoredPromise!Issue
    <3>3. CASE StoredPromise!Use(i)
      BY <3>1, <3>3 DEF StoredPromise!Paid, StoredPromise!Use
    <3>4. CASE StoredPromise!Void(i)
      BY <3>1, <3>4 DEF StoredPromise!Paid, StoredPromise!Void
    <3>5. CASE StoredPromise!Decide(i)
      BY <3>1, <3>5 DEF StoredPromise!Paid, StoredPromise!Decide, TerminalStatus
    <3>6. CASE StoredPromise!Same(i)
      BY <3>1, <3>6 DEF StoredPromise!Paid, StoredPromise!Same
    <3> QED
      BY <2>2, <3>2, <3>3, <3>4, <3>5, <3>6 DEF StoredPromise!Next
  <2> QED
    BY <1>2, <2>1, <2>2
<1> QED
  BY <1>1, <1>2, PTL DEF StoredPromise!Spec

\* Over any number of restarts, a stored charge is the only one of its invocation and is
\* stored with the outcome of a run that began (completion.mjs:66-117).
THEOREM PaidOnceOverRestarts == DurableSpec => []StoredPromise!ChargedOnce
  BY PromiseChargesOnce, StoredPromiseKept, PTL DEF KeepsStoredPromise
=============================================================================
