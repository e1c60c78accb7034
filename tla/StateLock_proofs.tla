-------------------------- MODULE StateLock_proofs --------------------------
(***************************************************************************)
(* The single-writer property of StateLock for any number of processes     *)
(* whose starts do not overlap.                                            *)
(***************************************************************************)
EXTENDS StateLock, TLAPS

\* Whoever is served by the lock, or has not removed it yet.
Holding(p) ==
    \/ pc[p] \in {"owner", "releasing", "releasing2"}
    \/ pc[p] = "exiting" /\ ReadLock = p

AtMostOneStarter ==
    \A p, q \in Process : pc[p] \in Acquiring /\ pc[q] \in Acquiring => p = q

HolderOnRecord == \A p \in Process : Holding(p) => creator = p /\ written

WriterOwnsFile ==
    \A p \in Process : pc[p] \in {"write", "rewrite"} => creator = p /\ ~written

\* A starter that read the lock read the holder's record, if there is a holder.
DeciderSawHolder ==
    \A p, q \in Process : pc[p] = "decide" /\ Holding(q) => seen[p] = q

ReclaimerAlone ==
    \A p, q \in Process : pc[p] \in {"unlink", "reopen", "retry"} => ~Holding(q)

IInv ==
    /\ TypeOK
    /\ AtMostOneStarter
    /\ HolderOnRecord
    /\ WriterOwnsFile
    /\ DeciderSawHolder
    /\ ReclaimerAlone

LEMMA InitInv == Init => IInv
  BY ProcessAssumption
  DEF Init, IInv, TypeOK, PcValue, Acquiring, AtMostOneStarter, HolderOnRecord,
      WriterOwnsFile, DeciderSawHolder, ReclaimerAlone, Holding, ReadLock

\* Every step of a process keeps the invariant when starts are serial.
LEMMA NextInv ==
  ASSUME SerialStarts, IInv, [Next]_vars
  PROVE  IInv'
<1> USE ProcessAssumption DEF IInv, TypeOK, PcValue, Acquiring, AtMostOneStarter,
          HolderOnRecord, WriterOwnsFile, DeciderSawHolder, ReclaimerAlone,
          Holding, ReadLock, Goto
<1>1. CASE UNCHANGED vars
  BY <1>1 DEF vars
<1>2. ASSUME NEW p \in Process, Start(p) PROVE IInv'
  BY <1>2 DEF Start
<1>3. ASSUME NEW p \in Process, Open(p) PROVE IInv'
  <2>1. CASE creator = None /\ creator' = p /\ written' = FALSE
             /\ pc' = [pc EXCEPT ![p] = IF pc[p] = "open" THEN "write" ELSE "rewrite"]
    BY <1>3, <2>1 DEF Open
  <2>2. CASE creator # None /\ UNCHANGED <<creator, written>>
             /\ pc' = [pc EXCEPT ![p] = IF pc[p] = "open" THEN "read" ELSE "refused"]
    BY <1>3, <2>2 DEF Open
  <2>3. CASE UNCHANGED <<creator, written>> /\ pc' = [pc EXCEPT ![p] = "unlocked"]
    BY <1>3, <2>3 DEF Open
  <2> QED
    BY <1>3, <2>1, <2>2, <2>3 DEF Open
<1>4. ASSUME NEW p \in Process, WriteOwner(p) PROVE IInv'
  <2>1. CASE written' = TRUE /\ pc' = [pc EXCEPT ![p] = "owner"]
    BY <1>4, <2>1 DEF WriteOwner
  <2>2. CASE UNCHANGED written /\ pc' = [pc EXCEPT ![p] = "unlocked"]
    BY <1>4, <2>2 DEF WriteOwner
  <2> QED
    BY <1>4, <2>1, <2>2 DEF WriteOwner
<1>5. ASSUME NEW p \in Process, ReadHolder(p) PROVE IInv'
  BY <1>5 DEF ReadHolder, ReadLock
<1>6. ASSUME NEW p \in Process, Decide(p) PROVE IInv'
  BY <1>6 DEF Decide, Reclaimable, PidIsAlive
<1>7. ASSUME NEW p \in Process, UnlinkStale(p) PROVE IInv'
  <2>1. CASE RemoveFile /\ Goto(p, "reopen")
    BY <1>7, <2>1 DEF UnlinkStale, RemoveFile
  <2>2. CASE UNCHANGED <<creator, written>> /\ Goto(p, "retry")
    BY <1>7, <2>2 DEF UnlinkStale
  <2> QED
    BY <1>7, <2>1, <2>2 DEF UnlinkStale
<1>8. ASSUME NEW p \in Process, ReadOwn(p) PROVE IInv'
  <2>1. CASE pc[p] = "owner"
    BY <1>8, <2>1 DEF ReadOwn, OwnLock, ReadLock
  <2>2. CASE pc[p] = "exiting"
    BY <1>8, <2>2 DEF ReadOwn, OwnLock, ReadLock
  <2> QED
    BY <1>8, <2>1, <2>2 DEF ReadOwn
<1>9. ASSUME NEW p \in Process, UnlinkOwn(p) PROVE IInv'
  BY <1>9 DEF UnlinkOwn, RemoveFile
<1>10. ASSUME NEW p \in Process, ExitWithoutLock(p) \/ Crash(p) PROVE IInv'
  BY <1>10 DEF ExitWithoutLock, Crash
<1>11. ASSUME NEW p \in Process, Recycle(p) PROVE IInv'
  BY <1>11 DEF Recycle
<1> QED
  BY <1>1, <1>2, <1>3, <1>4, <1>5, <1>6, <1>7, <1>8, <1>9, <1>10, <1>11
  DEF Next, Step

\* Of servers started one after the other, however many, crashed, killed,
\* released or restarted with the same pid, two never hold the lock
\* (acquireStateLock, state-lock.mjs:55-117).
THEOREM SerialSingleWriter ==
  ASSUME SerialStarts
  PROVE  Spec => []SingleWriter
<1>1. IInv => SingleWriter
  BY DEF IInv, HolderOnRecord, Holding, SingleWriter
<1> QED
  BY <1>1, InitInv, NextInv, PTL DEF Spec

\* Under the same assumption what a starter reads names the serving owner.
THEOREM SerialOwnerIsOnRecord ==
  ASSUME SerialStarts
  PROVE  Spec => []OwnerIsOnRecord
<1>1. IInv => OwnerIsOnRecord
  BY DEF IInv, HolderOnRecord, Holding, OwnerIsOnRecord
<1> QED
  BY <1>1, InitInv, NextInv, PTL DEF Spec

\* A lock of another host stays while it is read, and nobody creates one between the
\* two calls of a reclaim.
CauseOnRecord ==
    \A p \in Process : /\ pc[p] = "decide" /\ seen[p] = Foreign => creator = Foreign
                       /\ pc[p] = "reopen" => creator = None

LEMMA NextCause ==
  ASSUME SerialStarts, IInv, CauseOnRecord, [Next]_vars
  PROVE  CauseOnRecord'
<1> USE ProcessAssumption DEF IInv, TypeOK, PcValue, Acquiring, AtMostOneStarter,
          HolderOnRecord, WriterOwnsFile, ReclaimerAlone, Holding, ReadLock, Goto,
          CauseOnRecord
<1>1. CASE UNCHANGED vars
  BY <1>1 DEF vars
<1>2. ASSUME NEW p \in Process, Start(p) \/ Open(p) PROVE CauseOnRecord'
  BY <1>2 DEF Start, Open
<1>3. ASSUME NEW p \in Process, WriteOwner(p) PROVE CauseOnRecord'
  BY <1>3 DEF WriteOwner
<1>4. ASSUME NEW p \in Process, ReadHolder(p) PROVE CauseOnRecord'
  BY <1>4 DEF ReadHolder, ReadLock
<1>5. ASSUME NEW p \in Process, Decide(p) PROVE CauseOnRecord'
  BY <1>5 DEF Decide
<1>6. ASSUME NEW p \in Process, UnlinkStale(p) PROVE CauseOnRecord'
  BY <1>6 DEF UnlinkStale, RemoveFile
<1>7. ASSUME NEW p \in Process, ReadOwn(p) PROVE CauseOnRecord'
  BY <1>7 DEF ReadOwn
<1>8. ASSUME NEW p \in Process, UnlinkOwn(p) PROVE CauseOnRecord'
  BY <1>8 DEF UnlinkOwn, RemoveFile
<1>9. ASSUME NEW p \in Process, ExitWithoutLock(p) \/ Crash(p) \/ Recycle(p)
      PROVE  CauseOnRecord'
  BY <1>9 DEF ExitWithoutLock, Crash, Recycle
<1> QED
  BY <1>1, <1>2, <1>3, <1>4, <1>5, <1>6, <1>7, <1>8, <1>9 DEF Next, Step

\* A start is refused at its decision, about a holder that another host or a living
\* pid is, and never for a lock left by a crash alone; at the second create only after
\* a failing unlink (state-lock.mjs:11-12, 101-116).
THEOREM SerialRefusedForACause ==
  ASSUME SerialStarts
  PROVE  Spec => RefusedForACause
<1> DEFINE Cause(p) == pc[p] \notin {"refused", "retry"} /\ pc'[p] = "refused"
                         => creator = Foreign \/ \E q \in Process \ {p} : PidIsAlive(q)
<1>1. Init => CauseOnRecord
  BY DEF Init, CauseOnRecord
<1>2. IInv /\ CauseOnRecord /\ [Next]_vars => CauseOnRecord'
  BY NextCause
<1>3. IInv /\ CauseOnRecord /\ [Next]_vars => [\A p \in Process : Cause(p)]_vars
  <2> SUFFICES ASSUME IInv, CauseOnRecord, [Next]_vars, NEW p \in Process,
                      pc[p] \notin {"refused", "retry"}, pc'[p] = "refused"
               PROVE  creator = Foreign \/ \E q \in Process \ {p} : PidIsAlive(q)
    OBVIOUS
  <2>1. PICK q \in Process : \/ Start(q) \/ Step(q) \/ ReadOwn(q) \/ UnlinkOwn(q)
                             \/ ExitWithoutLock(q) \/ Crash(q) \/ Recycle(q)
    BY DEF Next, vars
  <2>2. pc \in [Process -> PcValue] /\ seen \in [Process -> Process \cup {Foreign, None}]
    BY DEF IInv, TypeOK
  <2>3. Open(p) \/ Decide(p)
    BY <2>1, <2>2 DEF Start, Step, Open, Decide, WriteOwner, ReadHolder, UnlinkStale, ReadOwn,
       UnlinkOwn, ExitWithoutLock, Crash, Recycle, Goto
  <2>4. CASE Open(p)
    <3>1. pc[p] = "reopen" /\ creator # None
      BY <2>2, <2>4 DEF Open, Goto
    <3> QED
      BY <3>1 DEF CauseOnRecord
  <2>5. CASE Decide(p)
    <3>1. pc[p] = "decide" /\ ~Reclaimable(p)
      BY <2>2, <2>5 DEF Decide, Goto
    <3> QED
      BY <2>2, <3>1 DEF Reclaimable, CauseOnRecord
  <2> QED
    BY <2>3, <2>4, <2>5
<1>4. IInv /\ [Next]_vars => IInv'
  BY NextInv
<1> QED
  BY <1>1, <1>2, <1>3, <1>4, InitInv, PTL DEF Spec, RefusedForACause

\* The lock file and the processes keep their types, also when starts overlap.
THEOREM LockTypeOK == Spec => []TypeOK
<1>1. Init => TypeOK
  BY ProcessAssumption DEF Init, TypeOK, PcValue, Acquiring
<1>2. TypeOK /\ [Next]_vars => TypeOK'
  <2> SUFFICES ASSUME TypeOK, [Next]_vars PROVE TypeOK'
    OBVIOUS
  <2> USE ProcessAssumption DEF TypeOK, PcValue, Acquiring, Goto
  <2>1. CASE UNCHANGED vars
    BY <2>1 DEF vars
  <2>2. ASSUME NEW p \in Process, Start(p) \/ Decide(p) PROVE TypeOK'
    BY <2>2 DEF Start, Decide
  <2>3. ASSUME NEW p \in Process, Open(p) PROVE TypeOK'
    <3>1. CASE creator = None /\ creator' = p /\ written' = FALSE
               /\ pc' = [pc EXCEPT ![p] = IF pc[p] = "open" THEN "write" ELSE "rewrite"]
      BY <2>3, <3>1 DEF Open
    <3>2. CASE creator # None /\ UNCHANGED <<creator, written>>
               /\ pc' = [pc EXCEPT ![p] = IF pc[p] = "open" THEN "read" ELSE "refused"]
      BY <2>3, <3>2 DEF Open
    <3>3. CASE UNCHANGED <<creator, written>> /\ pc' = [pc EXCEPT ![p] = "unlocked"]
      BY <2>3, <3>3 DEF Open
    <3> QED
      BY <2>3, <3>1, <3>2, <3>3 DEF Open
  <2>4. ASSUME NEW p \in Process, WriteOwner(p) PROVE TypeOK'
    <3>1. CASE written' = (written \/ creator = p) /\ pc' = [pc EXCEPT ![p] = "owner"]
      <4>1. written' \in BOOLEAN /\ (creator = None => ~written')
        BY <2>4, <3>1
      <4> QED
        BY <2>4, <3>1, <4>1 DEF WriteOwner
    <3>2. CASE written' = written /\ pc' = [pc EXCEPT ![p] = "unlocked"]
      BY <2>4, <3>2 DEF WriteOwner
    <3> QED
      BY <2>4, <3>1, <3>2 DEF WriteOwner
  <2>5. ASSUME NEW p \in Process, ReadHolder(p) PROVE TypeOK'
    BY <2>5 DEF ReadHolder, ReadLock
  <2>6. ASSUME NEW p \in Process, UnlinkStale(p) \/ UnlinkOwn(p) PROVE TypeOK'
    <3>1. /\ RemoveFile \/ UNCHANGED <<creator, written>>
          /\ UNCHANGED <<seen, recycled>>
      BY <2>6 DEF UnlinkStale, UnlinkOwn
    <3>2. PICK to \in PcValue : Goto(p, to)
      BY <2>6 DEF UnlinkStale, UnlinkOwn
    <3>3. /\ creator' \in Process \cup {Foreign, None}
          /\ written' \in BOOLEAN
          /\ creator' = None => ~written'
      <4>1. CASE RemoveFile
        BY <4>1 DEF RemoveFile
      <4>2. CASE UNCHANGED <<creator, written>>
        BY <4>2
      <4> QED
        BY <3>1, <4>1, <4>2
    <3> QED
      BY <3>1, <3>2, <3>3
  <2>7. ASSUME NEW p \in Process, ReadOwn(p) PROVE TypeOK'
    BY <2>7 DEF ReadOwn
  <2>8. ASSUME NEW p \in Process, ExitWithoutLock(p) \/ Crash(p) \/ Recycle(p) PROVE TypeOK'
    BY <2>8 DEF ExitWithoutLock, Crash, Recycle
  <2> QED
    BY <2>1, <2>2, <2>3, <2>4, <2>5, <2>6, <2>7, <2>8 DEF Next, Step
<1> QED
  BY <1>1, <1>2, PTL DEF Spec
=============================================================================
