--------------------------- MODULE MailSend_proofs ---------------------------
(***************************************************************************)
(* Theorems about MailSend for any numbers of grants, revisions, runs and  *)
(* crashes.                                                                *)
(*                                                                         *)
(* The argument: a grant that is still good for the revision the draft has *)
(* was issued for the text it has, and the handler that consumed it is the *)
(* only one that runs until its run is recorded.  A run is hot while its   *)
(* mail may leave or has left; a run that failed is not counted; each      *)
(* step that makes the draft sendable again removes a hot run or adds to   *)
(* the runs the draft was not told of.  And a draft that is being sent has *)
(* a run that has not ended.                                               *)
(***************************************************************************)
EXTENDS MailSend, FiniteSetTheorems, TLAPS

\* What the handler has done when it stands between two commits.
HandlerOK ==
    /\ handler.at \in {"granted", "created"} =>
          handler.grant \in Grant /\ draft.status = "draft"
    /\ handler.at \in {"created", "denied"} => handler.run \in Run

\* An unused grant is for a revision that has been, and for the text of this one.
GrantsFit ==
    \A g \in Grant : grants[g].state = "issued" /\ grants[g].scope \in Nat =>
        /\ grants[g].scope <= draft.revision
        /\ grants[g].scope = draft.revision => seen[g] = draft.text

\* The grant of the handler is used up, by nobody else, for the text it will send.
PendingGrant ==
    handler.at = "granted" =>
        /\ grants[handler.grant].state = "consumed"
        /\ seen[handler.grant] = draft.text
        /\ \A r \in Run : Created(r) => run[r].grant # handler.grant

SentHasLeft == draft.status = "sent" => \E r \in Run : run[r].left

ApprovalInv ==
    TypeOK /\ HandlerOK /\ GrantsFit /\ PendingGrant /\ EveryMailApproved /\ SentHasLeft

-----------------------------------------------------------------------------
(* Types.                                                                  *)

LEMMA RunSet == Run \subseteq Nat \ {0} /\ IsFiniteSet(Run)
<1>1. Run \subseteq Nat \ {0}
  BY MailAssumption DEF Run
<1>2. IsFiniteSet(Run)
  BY MailAssumption, FS_Interval DEF Run
<1> QED BY <1>1, <1>2

LEMMA RunUpdated ==
  ASSUME TypeOK, NEW r \in Run, NEW v \in RunRecord
  PROVE  [run EXCEPT ![r] = v] \in [Run -> RunRecord]
  BY DEF TypeOK

LEMMA SettleType ==
  ASSUME TypeOK, NEW status \in DraftStatus
  PROVE  Settle(status) \in Draft
  BY DEF TypeOK, Settle, Draft

LEMMA EndingTypes ==
  ASSUME NEW ending \in Ending
  PROVE  StatusOf(ending) \in OverStatus /\ Folded(ending) \in DraftStatus
  BY DEF Ending, StatusOf, Folded, OverStatus, DraftStatus

LEMMA IdleType == Idle \in Handler /\ Idle.at = "none"
  BY MailAssumption DEF Idle, Handler

LEMMA TypeStep ==
  ASSUME TypeOK, HandlerOK, [Next]_vars
  PROVE  TypeOK' /\ HandlerOK'
<1>1. CASE Edit
  <2>1. draft.text + 1 \in Nat /\ draft.revision + 1 \in 0..MaxRevision
    BY <1>1, MailAssumption DEF Edit, TypeOK, Draft
  <2>2. draft' \in Draft
    BY <1>1, <2>1 DEF Edit, Edited, TypeOK, Draft
  <2> QED
    BY <1>1, <2>2 DEF Edit, Free, TypeOK, HandlerOK
<1>2. CASE Delete
  <2>1. draft' \in Draft
    BY <1>2 DEF Delete, TypeOK, Draft, DraftStatus
  <2> QED
    BY <1>2, <2>1 DEF Delete, Free, TypeOK, HandlerOK
<1>3. CASE Dispatched
  <2>1. handler.run \in 0..MaxRuns
    BY DEF TypeOK, Handler
  <2>2. draft' \in Draft
    BY <1>3, <2>1 DEF Dispatched, TypeOK, Draft, DraftStatus
  <2> QED
    BY <1>3, <2>2, IdleType DEF Dispatched, TypeOK, HandlerOK
<1>4. CASE AfterDenial
  <2>1. draft' \in Draft
    BY <1>4, SettleType DEF AfterDenial, Termination, DraftStatus
  <2> QED
    BY <1>4, <2>1, IdleType DEF AfterDenial, TypeOK, HandlerOK
<1>5. CASE Crash
  <2>1. crashes' \in 0..MaxCrashes
    BY <1>5, MailAssumption DEF Crash, TypeOK
  <2>2. untold' \subseteq Run
    BY <1>5 DEF Crash, TypeOK, HandlerOK
  <2> QED
    BY <1>5, <2>1, <2>2, IdleType DEF Crash, TypeOK, HandlerOK
<1>6. ASSUME NEW g \in Grant, Issue(g)
      PROVE  TypeOK' /\ HandlerOK'
  <2>1. draft.revision \in Scope /\ Foreign \in Scope /\ draft.text \in Nat
    BY MailAssumption DEF TypeOK, Draft
  <2>2. grants' \in [Grant -> [state : GrantState, scope : Scope \cup {NoScope}]]
    BY <1>6, <2>1 DEF Issue, Issued, TypeOK, GrantState
  <2> QED
    BY <1>6, <2>1, <2>2 DEF Issue, Free, TypeOK, HandlerOK
<1>7. ASSUME NEW g \in Grant, Confirm(g)
      PROVE  TypeOK' /\ HandlerOK'
  <2>1. grants' \in [Grant -> [state : GrantState, scope : Scope \cup {NoScope}]]
    BY <1>7 DEF Confirm, Consumed, TypeOK, GrantState
  <2>2. /\ handler' \in Handler
        /\ handler'.at = "granted" /\ handler'.grant = g
    BY <1>7, IdleType DEF Confirm, Idle, Handler
  <2> QED
    BY <1>7, <2>1, <2>2 DEF Confirm, TypeOK, HandlerOK
<1>8. ASSUME NEW r \in Run, CreateRun(r)
      PROVE  TypeOK' /\ HandlerOK'
  <2>1. PICK status \in {"rejected", "waiting_for_local_approval", "queued"} :
          run' = [run EXCEPT ![r] = NewRun(status)]
    BY <1>8 DEF CreateRun
  <2>2. run' \in [Run -> RunRecord]
    <3>1. handler.grant \in Grant /\ draft.text \in Nat
      BY <1>8 DEF CreateRun, TypeOK, HandlerOK, Draft
    <3>2. NewRun(status) \in RunRecord
      BY <3>1 DEF NewRun, RunRecord, OpenStatus, OverStatus
    <3> QED
      BY <2>1, <3>2, RunUpdated
  <2>3. /\ handler' \in Handler
        /\ handler'.at = "created" /\ handler'.grant = handler.grant /\ handler'.run = r
    <3>1. r \in 0..MaxRuns
      BY MailAssumption DEF Run
    <3> QED
      BY <1>8, <3>1 DEF CreateRun, TypeOK, Handler
  <2> QED
    BY <1>8, <2>2, <2>3 DEF CreateRun, TypeOK, HandlerOK
<1>9. ASSUME NEW r \in Run, RunStep(r)
      PROVE  TypeOK' /\ HandlerOK'
  <2>1. CASE Approve(r)
    <3>1. run' \in [Run -> RunRecord]
      BY <2>1 DEF Approve, TypeOK, RunRecord, OpenStatus
    <3> QED
      BY <2>1, <3>1 DEF Approve, TypeOK, HandlerOK
  <2>2. CASE Deny(r)
    <3>1. run' \in [Run -> RunRecord]
      BY <2>2 DEF Deny, TypeOK, RunRecord, OverStatus
    <3>2. handler' \in Handler /\ handler'.at = "denied" /\ handler'.run = r
      <4>1. r \in 0..MaxRuns
        BY MailAssumption DEF Run
      <4> QED
        BY <2>2, <4>1 DEF Deny, Idle, Handler
    <3> QED
      BY <2>2, <3>1, <3>2 DEF Deny, TypeOK, HandlerOK
  <2>3. CASE Withdraw(r)
    <3>1. run' \in [Run -> RunRecord]
      BY <2>3 DEF Withdraw, TypeOK, RunRecord, OverStatus
    <3> QED
      BY <2>3, <3>1 DEF Withdraw, TypeOK, HandlerOK
  <2>4. CASE Begin(r)
    <3>1. run' \in [Run -> RunRecord]
      <4>1. [run[r] EXCEPT !.status = "active", !.exec = "begun"] \in RunRecord
        BY DEF TypeOK, RunRecord, OpenStatus
      <4> QED
        BY <2>4, <4>1, RunUpdated DEF Begin
    <3> QED
      BY <2>4, <3>1 DEF Begin, TypeOK, HandlerOK
  <2>5. CASE Leave(r)
    <3>1. run' \in [Run -> RunRecord]
      BY <2>5 DEF Leave, TypeOK, RunRecord
    <3> QED
      BY <2>5, <3>1 DEF Leave, TypeOK, HandlerOK
  <2>6. ASSUME NEW ending \in Ending, End(r, ending)
        PROVE  TypeOK' /\ HandlerOK'
    <3>1. StatusOf(ending) \in OverStatus /\ Folded(ending) \in DraftStatus
      BY EndingTypes
    <3>2. run' \in [Run -> RunRecord]
      <4>1. Ended(run[r], ending) \in RunRecord
        BY <3>1 DEF Ended, TypeOK, RunRecord
      <4> QED
        BY <2>6, <4>1, RunUpdated DEF End
    <3>3. draft' \in Draft
      BY <2>6, <3>1, SettleType DEF End
    <3> QED
      BY <2>6, <3>2, <3>3 DEF End, Free, TypeOK, HandlerOK
  <2> QED
    BY <1>9, <2>1, <2>2, <2>3, <2>4, <2>5, <2>6 DEF RunStep
<1>10. CASE UNCHANGED vars
  BY <1>10 DEF vars, TypeOK, HandlerOK
<1> QED
  BY <1>1, <1>2, <1>3, <1>4, <1>5, <1>6, <1>7, <1>8, <1>9, <1>10 DEF Next

LEMMA TypeInit ==
  ASSUME Init
  PROVE  TypeOK /\ HandlerOK
<1>1. PICK revision \in 0..1 :
        draft = [status |-> "draft", revision |-> revision, text |-> 0, run |-> 0]
  BY DEF Init
<1>2. draft \in Draft
  BY <1>1, MailAssumption DEF Draft, DraftStatus
<1>3. grants \in [Grant -> [state : GrantState, scope : Scope \cup {NoScope}]]
  BY DEF Init, NotIssued, GrantState
<1>4. run \in [Run -> RunRecord]
  BY MailAssumption DEF Init, RunRecord
<1>5. seen \in [Grant -> Nat] /\ untold = {} /\ crashes \in 0..MaxCrashes /\ handler = Idle
  BY MailAssumption DEF Init
<1> QED
  BY <1>2, <1>3, <1>4, <1>5, IdleType DEF TypeOK, HandlerOK

-----------------------------------------------------------------------------
(* Every mail was approved, and what is settled stays so.                  *)

\* What a step of the runs keeps of every run.
RunsKept ==
    \A s \in Run :
        /\ run'[s].grant = run[s].grant /\ run'[s].text = run[s].text
        /\ run'[s].status = "none" <=> run[s].status = "none"
        /\ run[s].left => run'[s].left

DraftKept == draft'.revision = draft.revision /\ draft'.text = draft.text

\* What becomes of the draft, other than by its handler and its author.
DraftSettles ==
    /\ draft.status \in {"sent", "send_unconfirmed"} => draft' = draft
    /\ draft'.status = "sent" => \E r \in Run : run[r].left

LEMMA SettleFacts ==
  ASSUME TypeOK, SentHasLeft, RunsKept, NEW status, draft' = Settle(status),
         status = "sent" => \E r \in Run : run[r].left
  PROVE  DraftKept /\ DraftSettles
  BY DEF Settle, DraftKept, DraftSettles, TypeOK, Draft, SentHasLeft, RunsKept

LEMMA RunStepFacts ==
  ASSUME TypeOK, SentHasLeft, NEW r \in Run, RunStep(r)
  PROVE  /\ RunsKept /\ DraftKept /\ DraftSettles
         /\ grants' = grants /\ seen' = seen
         /\ handler'.at = "granted" => handler' = handler
<1>0. run[r] \in RunRecord /\ run \in [Run -> RunRecord]
  BY DEF TypeOK
<1>1. CASE Approve(r)
  BY <1>0, <1>1 DEF Approve, RunsKept, DraftKept, DraftSettles, SentHasLeft, RunRecord
<1>2. CASE Deny(r)
  <2>1. handler'.at # "granted"
    BY <1>2 DEF Deny, Idle
  <2> QED
    BY <1>0, <1>2, <2>1 DEF Deny, RunsKept, DraftKept, DraftSettles, SentHasLeft, RunRecord
<1>3. CASE Withdraw(r)
  BY <1>0, <1>3 DEF Withdraw, RunsKept, DraftKept, DraftSettles, SentHasLeft, RunRecord
<1>4. CASE Begin(r)
  <2> DEFINE v == [run[r] EXCEPT !.status = "active", !.exec = "begun"]
  <2>1. /\ v.grant = run[r].grant /\ v.text = run[r].text /\ v.left = run[r].left
        /\ v.status = "active"
    BY <1>0 DEF RunRecord
  <2>2. run' = [run EXCEPT ![r] = v] /\ run[r].status = "queued"
    BY <1>4 DEF Begin
  <2>3. RunsKept
    BY <1>0, <2>1, <2>2 DEF RunsKept
  <2> QED
    BY <1>4, <2>3 DEF Begin, RunsKept, DraftKept, DraftSettles, SentHasLeft
<1>5. CASE Leave(r)
  BY <1>0, <1>5 DEF Leave, RunsKept, DraftKept, DraftSettles, SentHasLeft, RunRecord
<1>6. ASSUME NEW ending \in Ending, End(r, ending)
      PROVE  /\ RunsKept /\ DraftKept /\ DraftSettles
             /\ grants' = grants /\ seen' = seen /\ handler' = handler
  <2> DEFINE v == Ended(run[r], ending)
  <2>1. /\ v.grant = run[r].grant /\ v.text = run[r].text /\ v.left = run[r].left
        /\ v.status = StatusOf(ending)
    BY <1>0 DEF RunRecord, Ended
  <2>2. run' = [run EXCEPT ![r] = v] /\ run[r].status \in {"queued", "active"}
    BY <1>6 DEF End
  <2>3. RunsKept
    BY <1>0, <2>1, <2>2, EndingTypes DEF RunsKept, OverStatus
  <2>4. Folded(ending) = "sent" => \E s \in Run : run[s].left
    <3>1. SUFFICES ASSUME Folded(ending) = "sent"
                   PROVE  run[r].left
      OBVIOUS
    <3>2. ending = "receipt"
      BY <3>1 DEF Folded, Ending
    <3> QED
      BY <1>6, <3>2 DEF End, May
  <2>5. draft' = Settle(Folded(ending)) /\ grants' = grants /\ seen' = seen
        /\ handler' = handler
    BY <1>6 DEF End
  <2> QED
    BY <2>3, <2>4, <2>5, SettleFacts
<1> QED
  BY <1>1, <1>2, <1>3, <1>4, <1>5, <1>6 DEF RunStep

LEMMA QuietStep ==
  ASSUME ApprovalInv, RunsKept, DraftKept, grants' = grants, seen' = seen,
         handler'.at = "granted" => handler' = handler
  PROVE  GrantsFit' /\ PendingGrant' /\ EveryMailApproved'
<1>1. GrantsFit'
  BY DEF ApprovalInv, GrantsFit, DraftKept
<1>2. PendingGrant'
  BY DEF ApprovalInv, PendingGrant, DraftKept, RunsKept, Created
<1>3. EveryMailApproved'
  BY DEF ApprovalInv, EveryMailApproved, RunsKept, Created
<1> QED BY <1>1, <1>2, <1>3

Quiet ==
    /\ RunsKept /\ DraftKept /\ grants' = grants /\ seen' = seen
    /\ handler'.at = "granted" => handler' = handler
    /\ DraftSettles

LEMMA OtherQuietSteps ==
  ASSUME TypeOK, HandlerOK, SentHasLeft,
         Delete \/ Dispatched \/ AfterDenial \/ Crash \/ UNCHANGED vars
  PROVE  Quiet
<1>1. CASE Delete
  BY <1>1 DEF Delete, Quiet, RunsKept, DraftKept, DraftSettles, TypeOK, Draft
<1>2. CASE Dispatched
  <2>1. handler.at = "created" /\ draft.status = "draft"
    BY <1>2 DEF Dispatched, HandlerOK
  <2>2. DraftKept /\ draft'.status # "sent"
    BY <1>2 DEF Dispatched, DraftKept, TypeOK, Draft
  <2> QED
    BY <1>2, <2>1, <2>2 DEF Dispatched, Quiet, RunsKept, DraftSettles, Idle
<1>3. CASE AfterDenial
  <2>1. RunsKept
    BY <1>3 DEF AfterDenial, RunsKept
  <2>2. draft' = Settle("send_unconfirmed")
    BY <1>3 DEF AfterDenial, Termination
  <2>3. DraftKept /\ DraftSettles
    BY <2>1, <2>2, SettleFacts
  <2> QED
    BY <1>3, <2>1, <2>3 DEF AfterDenial, Quiet, Idle
<1>4. CASE Crash
  BY <1>4 DEF Crash, Quiet, RunsKept, DraftKept, DraftSettles, SentHasLeft, Idle
<1>5. CASE UNCHANGED vars
  BY <1>5 DEF vars, Quiet, RunsKept, DraftKept, DraftSettles, SentHasLeft
<1> QED
  BY <1>1, <1>2, <1>3, <1>4, <1>5

LEMMA EditStep ==
  ASSUME ApprovalInv, Edit
  PROVE  GrantsFit' /\ PendingGrant' /\ EveryMailApproved'
<1>1. draft'.revision = draft.revision + 1 /\ draft.revision \in Nat
  BY MailAssumption DEF ApprovalInv, TypeOK, Draft, Edit, Edited
<1>2. /\ handler'.at # "granted"
      /\ grants' = grants /\ seen' = seen /\ run' = run
  BY DEF Edit, Free
<1>3. GrantsFit'
  BY <1>1, <1>2 DEF ApprovalInv, GrantsFit
<1>4. EveryMailApproved'
  BY <1>2 DEF ApprovalInv, EveryMailApproved, Created
<1> QED
  BY <1>2, <1>3, <1>4 DEF PendingGrant

LEMMA IssueStep ==
  ASSUME ApprovalInv, NEW g \in Grant, Issue(g)
  PROVE  GrantsFit' /\ PendingGrant' /\ EveryMailApproved'
<1>1. PICK scope \in {draft.revision, Foreign} : grants' = [grants EXCEPT ![g] = Issued(scope)]
  BY DEF Issue
<1>2. /\ grants[g].state = "none"
      /\ seen' = [seen EXCEPT ![g] = draft.text]
      /\ draft' = draft /\ run' = run /\ handler' = handler /\ handler.at = "none"
  BY DEF Issue, IsNext, Free
<1>3. DOMAIN grants = Grant /\ DOMAIN seen = Grant /\ draft.revision \in Nat
  BY MailAssumption DEF ApprovalInv, TypeOK, Draft
<1>4. grants'[g].scope = scope
  BY <1>1, <1>3 DEF Issued
<1>5. \A h \in Grant : h # g => grants'[h] = grants[h] /\ seen'[h] = seen[h]
  BY <1>1, <1>2, <1>3
<1>6. GrantsFit'
  <2>1. SUFFICES ASSUME NEW h \in Grant, grants'[h].state = "issued", grants'[h].scope \in Nat
                 PROVE  /\ grants'[h].scope <= draft'.revision
                        /\ grants'[h].scope = draft'.revision => seen'[h] = draft'.text
    BY DEF GrantsFit
  <2>2. CASE h = g
    BY <1>2, <1>3, <1>4, <2>1, <2>2, MailAssumption
  <2>3. CASE h # g
    BY <1>2, <1>5, <2>1, <2>3 DEF ApprovalInv, GrantsFit
  <2> QED BY <2>2, <2>3
<1>7. EveryMailApproved'
  BY <1>2, <1>5 DEF ApprovalInv, EveryMailApproved, Created
<1> QED
  BY <1>2, <1>6, <1>7 DEF PendingGrant

LEMMA ConfirmStep ==
  ASSUME ApprovalInv, NEW g \in Grant, Confirm(g)
  PROVE  GrantsFit' /\ PendingGrant' /\ EveryMailApproved'
<1>1. /\ grants[g].state = "issued" /\ grants[g].scope = draft.revision
      /\ grants' = [grants EXCEPT ![g] = Consumed(@)]
      /\ handler' = [Idle EXCEPT !.at = "granted", !.grant = g]
      /\ draft' = draft /\ seen' = seen /\ run' = run
  BY DEF Confirm, Approves
<1>2. /\ DOMAIN grants = Grant /\ draft.revision \in Nat
      /\ grants[g] \in [state : GrantState, scope : Scope \cup {NoScope}]
  BY MailAssumption DEF ApprovalInv, TypeOK, Draft
<1>3. grants'[g].state = "consumed" /\ \A h \in Grant : h # g => grants'[h] = grants[h]
  BY <1>1, <1>2 DEF Consumed
<1>4. GrantsFit'
  BY <1>1, <1>3 DEF ApprovalInv, GrantsFit
<1>5. PendingGrant'
  <2>1. handler'.grant = g
    BY <1>1 DEF Idle
  <2>2. seen[g] = draft.text
    BY <1>1, <1>2 DEF ApprovalInv, GrantsFit
  <2>3. \A r \in Run : Created(r) => run[r].grant # g
    BY <1>1 DEF ApprovalInv, EveryMailApproved
  <2> QED
    BY <1>1, <1>3, <2>1, <2>2, <2>3 DEF PendingGrant, Created
<1>6. EveryMailApproved'
  BY <1>1, <1>3 DEF ApprovalInv, EveryMailApproved, Created
<1> QED BY <1>4, <1>5, <1>6

LEMMA CreateRunStep ==
  ASSUME ApprovalInv, NEW r \in Run, CreateRun(r)
  PROVE  GrantsFit' /\ PendingGrant' /\ EveryMailApproved'
<1>1. PICK status \in {"rejected", "waiting_for_local_approval", "queued"} :
        run' = [run EXCEPT ![r] = NewRun(status)]
  BY DEF CreateRun
<1>2. /\ handler.at = "granted" /\ handler.grant \in Grant
      /\ handler'.at = "created"
      /\ draft' = draft /\ grants' = grants /\ seen' = seen
  BY DEF CreateRun, ApprovalInv, HandlerOK, TypeOK, Handler
<1>3. /\ grants[handler.grant].state = "consumed" /\ seen[handler.grant] = draft.text
      /\ \A s \in Run : Created(s) => run[s].grant # handler.grant
  BY <1>2 DEF ApprovalInv, PendingGrant
<1>4. /\ run'[r].grant = handler.grant /\ run'[r].text = draft.text
      /\ \A s \in Run : s # r => run'[s] = run[s]
  BY <1>1 DEF ApprovalInv, TypeOK, NewRun
<1>5. GrantsFit' /\ PendingGrant'
  BY <1>2 DEF ApprovalInv, GrantsFit, PendingGrant
<1>6. EveryMailApproved'
  <2>1. SUFFICES ASSUME NEW s \in Run, Created(s)'
                 PROVE  /\ run'[s].grant \in Grant
                        /\ grants'[run'[s].grant].state = "consumed"
                        /\ run'[s].text = seen'[run'[s].grant]
                        /\ \A t \in Run : Created(t)' /\ run'[t].grant = run'[s].grant => t = s
    BY DEF EveryMailApproved
  <2>2. CASE s = r
    BY <1>2, <1>3, <1>4, <2>2 DEF Created
  <2>3. CASE s # r
    <3>1. Created(s) /\ run'[s] = run[s] /\ run[s].grant # handler.grant
      BY <1>3, <1>4, <2>1, <2>3 DEF Created
    <3> QED
      BY <1>2, <1>4, <3>1 DEF ApprovalInv, EveryMailApproved, Created
  <2> QED BY <2>2, <2>3
<1> QED BY <1>5, <1>6

LEMMA ApprovalStep ==
  ASSUME ApprovalInv, [Next]_vars
  PROVE  ApprovalInv' /\ DraftSettles
<1>1. TypeOK' /\ HandlerOK'
  BY TypeStep DEF ApprovalInv
<1>2. TypeOK /\ HandlerOK /\ SentHasLeft
  BY DEF ApprovalInv
<1>3. CASE Delete \/ Dispatched \/ AfterDenial \/ Crash \/ UNCHANGED vars
  <2>1. Quiet
    BY <1>2, <1>3, OtherQuietSteps
  <2> QED
    BY <1>1, <2>1, QuietStep DEF Quiet, ApprovalInv, DraftSettles, SentHasLeft, RunsKept
<1>4. ASSUME NEW r \in Run, RunStep(r)
      PROVE  ApprovalInv' /\ DraftSettles
  <2>1. Quiet
    BY <1>2, <1>4, RunStepFacts DEF Quiet
  <2> QED
    BY <1>1, <2>1, QuietStep DEF Quiet, ApprovalInv, DraftSettles, SentHasLeft, RunsKept
<1>5. CASE Edit
  <2>1. draft.status = "draft" /\ draft'.status = "draft"
    BY <1>2, <1>5 DEF Edit, Edited, TypeOK, Draft
  <2> QED
    BY <1>1, <1>5, <2>1, EditStep DEF ApprovalInv, DraftSettles, SentHasLeft
<1>6. ASSUME NEW g \in Grant, Issue(g) \/ Confirm(g)
      PROVE  ApprovalInv' /\ DraftSettles
  <2>1. draft' = draft /\ run' = run
    BY <1>6 DEF Issue, Confirm
  <2>2. GrantsFit' /\ PendingGrant' /\ EveryMailApproved'
    BY <1>6, IssueStep, ConfirmStep
  <2> QED
    BY <1>1, <1>2, <2>1, <2>2 DEF ApprovalInv, DraftSettles, SentHasLeft
<1>7. ASSUME NEW r \in Run, CreateRun(r)
      PROVE  ApprovalInv' /\ DraftSettles
  <2>1. draft' = draft /\ draft.status = "draft"
    BY <1>2, <1>7 DEF CreateRun, HandlerOK
  <2>2. GrantsFit' /\ PendingGrant' /\ EveryMailApproved'
    BY <1>7, CreateRunStep
  <2> QED
    BY <1>1, <2>1, <2>2 DEF ApprovalInv, DraftSettles, SentHasLeft
<1> QED
  BY <1>3, <1>4, <1>5, <1>6, <1>7 DEF Next

LEMMA ApprovalInit ==
  ASSUME Init
  PROVE  ApprovalInv
<1>1. TypeOK /\ HandlerOK
  BY TypeInit
<1>2. /\ draft.status = "draft" /\ handler.at = "none"
      /\ \A g \in Grant : grants[g].state = "none"
      /\ \A r \in Run : run[r].status = "none"
  BY DEF Init, Idle, NotIssued
<1> QED
  BY <1>1, <1>2 DEF ApprovalInv, GrantsFit, PendingGrant, EveryMailApproved, SentHasLeft, Created

\* The values of the variables are always of their types.
THEOREM MailTypeOK == Spec => []TypeOK
<1>1. Init => ApprovalInv
  BY ApprovalInit
<1>2. ApprovalInv /\ [Next]_vars => ApprovalInv'
  BY ApprovalStep
<1>3. ApprovalInv => TypeOK
  BY DEF ApprovalInv
<1> QED
  BY <1>1, <1>2, <1>3, PTL DEF Spec

\* "a grant binds to the current revision", "single-use" (mail-send.mjs:14, 105-108):
\* each run used up a grant of its own and sends what its issuer was shown.
THEOREM MailApproved == Spec => []EveryMailApproved
<1>1. Init => ApprovalInv
  BY ApprovalInit
<1>2. ApprovalInv /\ [Next]_vars => ApprovalInv'
  BY ApprovalStep
<1>3. ApprovalInv => EveryMailApproved
  BY DEF ApprovalInv
<1> QED
  BY <1>1, <1>2, <1>3, PTL DEF Spec

\* A draft that is sent or unconfirmed stays so, and is sent only when its mail left
\* (mail-send.mjs:22-24, 183-184).
THEOREM MailResolvedForGood == Spec => ResolvedForGood
<1>1. Init => ApprovalInv
  BY ApprovalInit
<1>2. ApprovalInv /\ [Next]_vars => ApprovalInv'
  BY ApprovalStep
<1>3. ApprovalInv /\ [Next]_vars =>
        [/\ draft.status \in {"sent", "send_unconfirmed"} => draft' = draft
         /\ draft'.status = "sent" => \E r \in Run : run[r].left]_vars
  BY ApprovalStep DEF DraftSettles
<1> QED
  BY <1>1, <1>2, <1>3, PTL DEF Spec, ResolvedForGood

-----------------------------------------------------------------------------
(* How often a draft is mailed.                                            *)

\* The mail of a hot run left or may leave still, and the run has not failed.
IsHot(v) ==
    v.status # "failed" /\ (v.left \/ v.exec = "begun" \/ v.status \in OpenStatus)

HotRuns == {r \in Run : IsHot(run[r])}

\* The draft is offered, and no run of the handler is on its way to it.
Sendable == draft.status = "draft" /\ handler.at # "created"

RunsOK ==
    \A r \in Run :
        /\ run[r].exec = "over" => run[r].status \in OverStatus
        /\ run[r].exec = "none" => ~run[r].left

\* No run is counted twice.
UntoldOK ==
    /\ handler.at = "created" => Created(handler.run)
    /\ \A r \in untold : Created(r) /\ ~(handler.at = "created" /\ handler.run = r)

Few == Cardinality(HotRuns) <= Cardinality(untold) + (IF Sendable THEN 0 ELSE 1)

CountInv == TypeOK /\ HandlerOK /\ RunsOK /\ UntoldOK /\ Few

LEMMA FiniteSets ==
  /\ IsFiniteSet(HotRuns) /\ Cardinality(HotRuns) \in Nat
  /\ TypeOK => IsFiniteSet(untold) /\ Cardinality(untold) \in Nat
<1>1. IsFiniteSet(HotRuns)
  BY RunSet, FS_Subset DEF HotRuns, IsHot
<1>2. TypeOK => IsFiniteSet(untold)
  BY RunSet, FS_Subset DEF TypeOK
<1> QED BY <1>1, <1>2, FS_CardinalityType

\* Nothing gets hot, and the draft does not get sendable.
LEMMA FewKept ==
  ASSUME CountInv, HotRuns' \subseteq HotRuns, untold \subseteq untold', TypeOK',
         Sendable' => Sendable
  PROVE  Few'
<1>1. Cardinality(HotRuns') <= Cardinality(HotRuns)
  BY FiniteSets, FS_Subset
<1>2. Cardinality(untold) <= Cardinality(untold')
  <2>1. IsFiniteSet(untold)'
    BY FiniteSets, PTL
  <2> QED BY <2>1, FS_Subset
<1>3. /\ Cardinality(HotRuns) \in Nat /\ Cardinality(HotRuns') \in Nat
      /\ Cardinality(untold) \in Nat /\ Cardinality(untold') \in Nat
  <2>1. (Cardinality(HotRuns) \in Nat /\ Cardinality(untold) \in Nat)'
    BY FiniteSets, PTL
  <2> QED BY <2>1, FiniteSets DEF CountInv
<1> QED
  BY <1>1, <1>2, <1>3 DEF CountInv, Few

\* The draft may get sendable when a run gets cold.
LEMMA FewByCooling ==
  ASSUME CountInv, NEW r \in HotRuns, HotRuns' \subseteq HotRuns \ {r}, untold' = untold
  PROVE  Few'
<1>1. /\ IsFiniteSet(HotRuns \ {r})
      /\ Cardinality(HotRuns \ {r}) = Cardinality(HotRuns) - 1
  BY FiniteSets, FS_RemoveElement
<1>2. Cardinality(HotRuns') <= Cardinality(HotRuns) - 1
  BY <1>1, FS_Subset
<1>3. Cardinality(HotRuns) \in Nat /\ Cardinality(HotRuns') \in Nat /\ Cardinality(untold) \in Nat
  <2>1. (Cardinality(HotRuns) \in Nat)'
    BY FiniteSets, PTL
  <2> QED BY <2>1, FiniteSets DEF CountInv
<1> QED
  BY <1>2, <1>3 DEF CountInv, Few

\* Or when there is one more run it was not told of.
LEMMA FewByCrash ==
  ASSUME CountInv, NEW x, x \notin untold, untold' = untold \cup {x}, HotRuns' \subseteq HotRuns
  PROVE  Few'
<1>1. Cardinality(untold') = Cardinality(untold) + 1
  BY FiniteSets, FS_AddElement DEF CountInv
<1>2. Cardinality(HotRuns') <= Cardinality(HotRuns)
  BY FiniteSets, FS_Subset
<1>3. Cardinality(HotRuns) \in Nat /\ Cardinality(HotRuns') \in Nat /\ Cardinality(untold) \in Nat
  <2>1. (Cardinality(HotRuns) \in Nat)'
    BY FiniteSets, PTL
  <2> QED BY <2>1, FiniteSets DEF CountInv
<1> QED
  BY <1>1, <1>2, <1>3 DEF CountInv, Few

\* A run is created for a draft that is not sendable from then on.
LEMMA FewByCreation ==
  ASSUME CountInv, NEW r, HotRuns' \subseteq HotRuns \cup {r}, untold' = untold,
         Sendable, ~Sendable'
  PROVE  Few'
<1>1. /\ IsFiniteSet(HotRuns \cup {r})
      /\ Cardinality(HotRuns \cup {r}) <= Cardinality(HotRuns) + 1
  BY FiniteSets, FS_AddElement
<1>2. Cardinality(HotRuns') <= Cardinality(HotRuns \cup {r})
  BY <1>1, FS_Subset
<1>3. /\ Cardinality(HotRuns) \in Nat /\ Cardinality(HotRuns') \in Nat
      /\ Cardinality(untold) \in Nat /\ Cardinality(HotRuns \cup {r}) \in Nat
  <2>1. (Cardinality(HotRuns) \in Nat)'
    BY FiniteSets, PTL
  <2> QED BY <1>1, <2>1, FiniteSets, FS_CardinalityType DEF CountInv
<1> QED
  BY <1>1, <1>2, <1>3 DEF CountInv, Few

LEMMA CountByDraft ==
  ASSUME CountInv, TypeOK', run' = run, untold' = untold,
         Sendable' => Sendable,
         handler'.at = "created" => handler' = handler
  PROVE  RunsOK' /\ UntoldOK' /\ Few'
<1>1. RunsOK' /\ UntoldOK'
  BY DEF CountInv, RunsOK, UntoldOK, Created
<1>2. HotRuns' = HotRuns
  BY DEF HotRuns, IsHot
<1> QED BY <1>1, <1>2, FewKept

LEMMA CountOfDraftSteps ==
  ASSUME CountInv, TypeOK',
         \/ Edit \/ Delete \/ Dispatched \/ AfterDenial \/ UNCHANGED vars
         \/ \E g \in Grant : Issue(g) \/ Confirm(g)
  PROVE  RunsOK' /\ UntoldOK' /\ Few'
<1>0. draft \in Draft /\ handler \in Handler
  BY DEF CountInv, TypeOK
<1>1. CASE Edit \/ Delete
  BY <1>0, <1>1, CountByDraft DEF Edit, Delete, Free, Sendable
<1>2. CASE Dispatched
  <2>1. draft'.status # "draft" /\ handler'.at = "none"
    BY <1>0, <1>2 DEF Dispatched, Idle, Draft
  <2> QED
    BY <1>2, <2>1, CountByDraft DEF Dispatched, Sendable
<1>3. CASE AfterDenial
  <2>1. draft'.status = "draft" => draft.status = "draft"
    BY <1>0, <1>3 DEF AfterDenial, Termination, Settle, Draft
  <2>2. handler.at = "denied" /\ handler'.at = "none"
    BY <1>3 DEF AfterDenial, Idle
  <2> QED
    BY <1>3, <2>1, <2>2, CountByDraft DEF AfterDenial, Sendable
<1>4. CASE UNCHANGED vars
  BY <1>4, CountByDraft DEF vars, Sendable
<1>5. ASSUME NEW g \in Grant, Issue(g) \/ Confirm(g)
      PROVE  RunsOK' /\ UntoldOK' /\ Few'
  <2>1. /\ handler.at = "none" /\ handler'.at # "created"
        /\ draft' = draft /\ run' = run /\ untold' = untold
    BY <1>5 DEF Issue, Confirm, Free, Idle
  <2> QED
    BY <2>1, CountByDraft DEF Sendable
<1> QED
  BY <1>1, <1>2, <1>3, <1>4, <1>5

LEMMA CountOfCrash ==
  ASSUME CountInv, TypeOK', Crash
  PROVE  RunsOK' /\ UntoldOK' /\ Few'
<1>1. handler'.at = "none" /\ run' = run /\ draft' = draft
  BY DEF Crash, Idle
<1>2. RunsOK' /\ HotRuns' = HotRuns
  BY <1>1 DEF CountInv, RunsOK, HotRuns, IsHot
<1>3. CASE handler.at = "created"
  <2>1. handler.run \in Run /\ untold' = untold \cup {handler.run}
    BY <1>3 DEF Crash, CountInv, HandlerOK
  <2>2. handler.run \notin untold
    BY <1>3, <2>1 DEF CountInv, UntoldOK
  <2>3. Few'
    BY <1>2, <2>1, <2>2, FewByCrash
  <2>4. Created(handler.run)
    BY <1>3 DEF CountInv, UntoldOK
  <2>5. UntoldOK'
    BY <1>1, <2>1, <2>4 DEF CountInv, UntoldOK, Created
  <2> QED BY <1>2, <2>3, <2>5
<1>4. CASE handler.at # "created"
  <2>1. untold' = untold
    BY <1>4 DEF Crash
  <2> QED
    BY <1>1, <1>4, <2>1, CountByDraft DEF Sendable
<1> QED BY <1>3, <1>4

LEMMA CountOfCreation ==
  ASSUME CountInv, TypeOK', NEW r \in Run, CreateRun(r)
  PROVE  RunsOK' /\ UntoldOK' /\ Few'
<1>1. PICK status \in {"rejected", "waiting_for_local_approval", "queued"} :
        run' = [run EXCEPT ![r] = NewRun(status)]
  BY DEF CreateRun
<1>2. /\ handler.at = "granted" /\ draft.status = "draft" /\ draft' = draft
      /\ untold' = untold /\ ~Created(r)
      /\ handler' = [handler EXCEPT !.at = "created", !.run = r]
  BY DEF CreateRun, CountInv, HandlerOK, IsNextRun, Created
<1>3. handler'.at = "created" /\ handler'.run = r
  BY <1>2 DEF CountInv, TypeOK, Handler
<1>4. /\ \A s \in Run : s # r => run'[s] = run[s]
      /\ run'[r].status = status /\ run'[r].exec = "none" /\ run'[r].left = FALSE
  BY <1>1 DEF CountInv, TypeOK, NewRun
<1>5. RunsOK'
  BY <1>4 DEF CountInv, RunsOK
<1>6. UntoldOK'
  <2>1. r \notin untold
    BY <1>2 DEF CountInv, UntoldOK
  <2> QED
    BY <1>2, <1>3, <1>4, <2>1 DEF CountInv, TypeOK, UntoldOK, Created
<1>7. HotRuns' \subseteq HotRuns \cup {r}
  BY <1>4 DEF HotRuns, IsHot
<1>8. Few'
  BY <1>2, <1>3, <1>7, FewByCreation DEF Sendable
<1> QED BY <1>5, <1>6, <1>8

\* A step of a run that keeps the draft and is not one of a handler.
LEMMA CountByRun ==
  ASSUME CountInv, TypeOK', NEW r \in Run, NEW v \in RunRecord, run' = [run EXCEPT ![r] = v],
         untold' = untold, draft' = draft, handler'.at # "created",
         v.status # "none",
         v.exec = "over" => v.status \in OverStatus,
         v.exec = "none" => ~v.left,
         IsHot(v) => r \in HotRuns,
         handler.at # "created"
  PROVE  RunsOK' /\ UntoldOK' /\ Few'
<1>1. run'[r] = v /\ \A s \in Run : s # r => run'[s] = run[s]
  BY DEF CountInv, TypeOK
<1>2. RunsOK' /\ UntoldOK'
  BY <1>1 DEF CountInv, RunsOK, UntoldOK, Created
<1>3. HotRuns' \subseteq HotRuns
  BY <1>1 DEF HotRuns, IsHot
<1> QED
  BY <1>2, <1>3, FewKept DEF Sendable

LEMMA CountOfLeave ==
  ASSUME CountInv, TypeOK', NEW r \in Run, Leave(r)
  PROVE  RunsOK' /\ UntoldOK' /\ Few'
<1>1. /\ \A s \in Run : s # r => run'[s] = run[s]
      /\ run'[r].status = run[r].status /\ run'[r].exec = "begun" /\ run[r].exec = "begun"
      /\ draft' = draft /\ handler' = handler /\ untold' = untold
  BY DEF Leave, CountInv, TypeOK, RunRecord
<1>2. HotRuns' \subseteq HotRuns
  BY <1>1 DEF HotRuns, IsHot
<1>3. RunsOK'
  BY <1>1 DEF CountInv, RunsOK
<1>4. \A s \in Run : run'[s].status = run[s].status
  BY <1>1
<1>5. UntoldOK'
  BY <1>1, <1>4 DEF CountInv, TypeOK, UntoldOK, Created, HandlerOK
<1> QED
  BY <1>1, <1>2, <1>3, <1>5, FewKept DEF Sendable

LEMMA CountOfRunSteps ==
  ASSUME CountInv, TypeOK', NEW r \in Run, Approve(r) \/ Deny(r) \/ Withdraw(r) \/ Begin(r)
  PROVE  RunsOK' /\ UntoldOK' /\ Few'
<1>0. run[r] \in RunRecord /\ run \in [Run -> RunRecord]
  BY DEF CountInv, TypeOK
<1>1. /\ run[r].status \in {"waiting_for_local_approval", "queued"} /\ r \in HotRuns
      /\ run[r].exec # "over" /\ (run[r].exec = "none" => ~run[r].left)
      /\ untold' = untold /\ draft' = draft /\ handler.at # "created" /\ handler'.at # "created"
  BY DEF Approve, Deny, Withdraw, Begin, Free, Idle, HotRuns, IsHot, OpenStatus, OverStatus,
     CountInv, RunsOK
<1>2. ASSUME NEW status \in {"queued", "rejected", "cancelled"},
             run' = [run EXCEPT ![r].status = status]
      PROVE  RunsOK' /\ UntoldOK' /\ Few'
  <2> DEFINE v == [run[r] EXCEPT !.status = status]
  <2>1. /\ v \in RunRecord /\ v.status = status /\ v.exec = run[r].exec
        /\ v.left = run[r].left
    BY <1>0 DEF RunRecord, OpenStatus, OverStatus
  <2>2. run' = [run EXCEPT ![r] = v]
    BY <1>2
  <2> HIDE DEF v
  <2> QED
    BY <1>1, <2>1, <2>2, CountByRun DEF OverStatus
<1>3. CASE Begin(r)
  <2> DEFINE v == [run[r] EXCEPT !.status = "active", !.exec = "begun"]
  <2>1. v \in RunRecord /\ v.status = "active" /\ v.exec = "begun"
    BY <1>0 DEF RunRecord, OpenStatus
  <2>2. run' = [run EXCEPT ![r] = v]
    BY <1>3 DEF Begin
  <2> HIDE DEF v
  <2> QED
    BY <1>1, <2>1, <2>2, CountByRun DEF OverStatus
<1> QED
  BY <1>2, <1>3 DEF Approve, Deny, Withdraw

\* The end of a run may make the draft sendable: then the run gets cold.
LEMMA CountOfEnd ==
  ASSUME CountInv, TypeOK', NEW r \in Run, NEW ending \in Ending, End(r, ending)
  PROVE  RunsOK' /\ UntoldOK' /\ Few'
<1> DEFINE v == Ended(run[r], ending)
<1>1. run[r] \in RunRecord /\ run \in [Run -> RunRecord] /\ draft \in Draft
  BY DEF CountInv, TypeOK
<1>2. /\ v.status = StatusOf(ending) /\ v.status \in OverStatus /\ v.left = run[r].left
      /\ v.exec = IF ending \in {"receipt", "refused"} THEN "over" ELSE run[r].exec
  BY <1>1, EndingTypes DEF Ended, RunRecord
<1>3. run'[r] = v /\ \A s \in Run : s # r => run'[s] = run[s]
  BY <1>1 DEF End
<1> HIDE DEF v
<1>4. /\ run[r].status \in {"queued", "active"} /\ r \in HotRuns /\ run[r].exec # "over"
      /\ run[r].exec = "none" => ~run[r].left
      /\ handler.at = "none" /\ handler' = handler /\ untold' = untold
  BY DEF End, Free, HotRuns, IsHot, OpenStatus, OverStatus, CountInv, RunsOK
<1>5. RunsOK'
  BY <1>2, <1>3, <1>4 DEF CountInv, RunsOK
<1>6. HotRuns' \subseteq HotRuns
  BY <1>3, <1>4 DEF HotRuns, IsHot
<1>7. UntoldOK'
  BY <1>2, <1>3, <1>4 DEF CountInv, TypeOK, UntoldOK, Created, OverStatus
<1>8. CASE Sendable' => Sendable
  BY <1>4, <1>5, <1>6, <1>7, <1>8, FewKept
<1>9. CASE Sendable' /\ ~Sendable
  <2>1. ending \in {"refused", "failure"}
    <3>1. draft.status # "draft" /\ draft'.status = "draft"
      BY <1>4, <1>9 DEF Sendable
    <3>2. Folded(ending) = "draft"
      BY <1>1, <3>1 DEF End, Settle, Draft
    <3> QED BY <3>2 DEF Folded, Ending
  <2>2. ~IsHot(v)
    <3>1. CASE ending = "refused"
      BY <1>2, <1>4, <3>1 DEF End, May, IsHot, OpenStatus, OverStatus
    <3>2. CASE ending = "failure"
      BY <1>2, <3>2 DEF StatusOf, IsHot
    <3> QED BY <2>1, <3>1, <3>2
  <2>3. HotRuns' \subseteq HotRuns \ {r}
    BY <1>3, <1>6, <2>2 DEF HotRuns, IsHot
  <2> QED BY <1>4, <1>5, <1>7, <2>3, FewByCooling
<1> QED BY <1>8, <1>9

LEMMA CountStep ==
  ASSUME CountInv, [Next]_vars
  PROVE  CountInv'
<1>1. TypeOK' /\ HandlerOK'
  BY TypeStep DEF CountInv
<1>2. ASSUME NEW r \in Run, CreateRun(r) \/ RunStep(r)
      PROVE  RunsOK' /\ UntoldOK' /\ Few'
  BY <1>1, <1>2, CountOfCreation, CountOfLeave, CountOfRunSteps, CountOfEnd DEF RunStep
<1>3. RunsOK' /\ UntoldOK' /\ Few'
  BY <1>1, <1>2, CountOfDraftSteps, CountOfCrash DEF Next
<1> QED BY <1>1, <1>3 DEF CountInv

LEMMA CountInit ==
  ASSUME Init
  PROVE  CountInv
<1>1. TypeOK /\ HandlerOK
  BY TypeInit
<1>2. /\ \A r \in Run : run[r].status = "none" /\ run[r].exec = "none" /\ ~run[r].left
      /\ untold = {} /\ handler.at = "none"
  BY DEF Init, Idle
<1>3. HotRuns = {}
  BY <1>2 DEF HotRuns, IsHot, OpenStatus
<1>4. Few
  BY <1>2, <1>3, FS_EmptySet DEF Few
<1> QED
  BY <1>1, <1>2, <1>4 DEF CountInv, RunsOK, UntoldOK

\* But for failed runs, which the server takes for mails that did not leave, a draft is
\* mailed once, and once more for each run whose creation it was never told of
\* (mail-send.mjs:20-24, 202-227), however many grants, runs and crashes there are.
THEOREM MailedOnceOnly == Spec => []MailedOnce
<1>1. Init => CountInv
  BY CountInit
<1>2. CountInv /\ [Next]_vars => CountInv'
  BY CountStep
<1>3. CountInv => MailedOnce
  <2>1. SUFFICES ASSUME CountInv PROVE MailedOnce
    OBVIOUS
  <2> DEFINE Left == {r \in Run : run[r].left /\ run[r].status # "failed"}
  <2>2. Left \subseteq HotRuns
    BY DEF HotRuns, IsHot
  <2>3. IsFiniteSet(Left) /\ Cardinality(Left) <= Cardinality(HotRuns)
    BY <2>2, FiniteSets, FS_Subset
  <2>4. Cardinality(Left) \in Nat
    BY <2>3, FS_CardinalityType
  <2> HIDE DEF Left
  <2>5. Cardinality(Left) <= 1 + Cardinality(untold)
    BY <2>1, <2>3, <2>4, FiniteSets DEF CountInv, Few
  <2> QED BY <2>5 DEF MailedOnce, Left
<1> QED
  BY <1>1, <1>2, <1>3, PTL DEF Spec

-----------------------------------------------------------------------------
(* A draft that is being sent has somebody to wait for.                     *)

\* The run of a handler between its last two commits is as it was created.
CreatedAsIs ==
    handler.at = "created" =>
        run[handler.run].status \in {"rejected", "waiting_for_local_approval", "queued"}

AwaitInv == TypeOK /\ HandlerOK /\ CreatedAsIs /\ SendingIsAwaited

LEMMA AwaitOfDraftSteps ==
  ASSUME AwaitInv,
         \/ Edit \/ Delete \/ Dispatched \/ AfterDenial
         \/ \E g \in Grant : Issue(g) \/ Confirm(g)
  PROVE  CreatedAsIs' /\ SendingIsAwaited'
<1>0. draft \in Draft
  BY DEF AwaitInv, TypeOK
<1>1. CASE Edit \/ Delete \/ \E g \in Grant : Confirm(g)
  BY <1>0, <1>1 DEF Edit, Edited, Delete, Confirm, Idle, Free, CreatedAsIs, SendingIsAwaited, Draft
<1>2. CASE Dispatched
  <2>1. handler.run \in Run /\ CreatedAsIs
    BY <1>2 DEF Dispatched, AwaitInv, HandlerOK
  <2> QED
    BY <1>0, <1>2, <2>1 DEF Dispatched, Idle, CreatedAsIs, SendingIsAwaited, OpenStatus, Draft
<1>3. CASE AfterDenial
  BY <1>0, <1>3 DEF AfterDenial, Termination, Settle, Idle, CreatedAsIs, SendingIsAwaited, Draft
<1>4. CASE \E g \in Grant : Issue(g)
  BY <1>4 DEF Issue, AwaitInv, CreatedAsIs, SendingIsAwaited
<1> QED
  BY <1>1, <1>2, <1>3, <1>4

LEMMA AwaitOfCrash ==
  ASSUME AwaitInv, Crash
  PROVE  CreatedAsIs' /\ SendingIsAwaited'
<1>1. crashes' > 0 /\ handler'.at = "none" /\ draft' = draft /\ run' = run
  BY MailAssumption DEF Crash, Idle, AwaitInv, TypeOK
<1> QED
  BY <1>1 DEF AwaitInv, CreatedAsIs, SendingIsAwaited

LEMMA AwaitOfCreation ==
  ASSUME AwaitInv, NEW r \in Run, CreateRun(r)
  PROVE  CreatedAsIs' /\ SendingIsAwaited'
<1>1. draft.status = "draft" /\ draft' = draft
  BY DEF AwaitInv, HandlerOK, CreateRun
<1>2. handler'.run = r
  BY DEF CreateRun, AwaitInv, TypeOK, Handler
<1>3. run'[r].status \in {"rejected", "waiting_for_local_approval", "queued"}
  BY DEF CreateRun, NewRun, AwaitInv, TypeOK
<1> QED
  BY <1>1, <1>2, <1>3 DEF CreatedAsIs, SendingIsAwaited

\* An answer settles the draft, whichever run it is from; no other step ends a run the
\* draft waits for, but those the property names.
LEMMA AwaitOfRunSteps ==
  ASSUME AwaitInv, NEW r \in Run, RunStep(r)
  PROVE  CreatedAsIs' /\ SendingIsAwaited'
<1>0. draft \in Draft /\ run \in [Run -> RunRecord]
  BY DEF AwaitInv, TypeOK
<1>1. CASE Leave(r)
  <2>1. \A s \in Run : run'[s].status = run[s].status
    BY <1>0, <1>1 DEF Leave, RunRecord
  <2>2. UNCHANGED <<draft, handler, crashes>>
    BY <1>1 DEF Leave
  <2>3. handler.at = "created" => handler.run \in Run
    BY DEF AwaitInv, HandlerOK
  <2> QED
    BY <2>1, <2>2, <2>3 DEF AwaitInv, CreatedAsIs, SendingIsAwaited
<1>2. CASE Approve(r) \/ Withdraw(r) \/ Begin(r)
  <2>1. /\ run'[r].status \in {"queued", "cancelled", "active"}
        /\ \A s \in Run : s # r => run'[s] = run[s]
    BY <1>0, <1>2 DEF Approve, Withdraw, Begin, RunRecord
  <2>2. UNCHANGED <<draft, handler, crashes>> /\ handler.at = "none"
    BY <1>2 DEF Approve, Withdraw, Begin, Free
  <2> QED
    BY <2>1, <2>2 DEF AwaitInv, CreatedAsIs, SendingIsAwaited, OpenStatus
<1>3. CASE Deny(r)
  <2>1. /\ run'[r].status = "rejected" /\ handler'.at = "denied"
        /\ \A s \in Run : s # r => run'[s] = run[s]
    BY <1>0, <1>3 DEF Deny, Idle, RunRecord
  <2>2. UNCHANGED <<draft, crashes>> /\ handler.at = "none"
    BY <1>3 DEF Deny, Free
  <2> QED
    BY <2>1, <2>2 DEF AwaitInv, CreatedAsIs, SendingIsAwaited
<1>4. ASSUME NEW ending \in Ending, End(r, ending)
      PROVE  CreatedAsIs' /\ SendingIsAwaited'
  <2>1. Folded(ending) # "sending"
    BY DEF Folded
  <2>2. draft'.status # "sending"
    BY <1>0, <1>4, <2>1 DEF End, Settle, Draft
  <2> QED
    BY <1>4, <2>2 DEF End, Free, CreatedAsIs, SendingIsAwaited
<1> QED
  BY <1>1, <1>2, <1>3, <1>4 DEF RunStep

\* The part of SendingEnds that no scheduling can repair: no answer, denial, withdrawal
\* or crash leaves a draft waiting for a run that has answered already
\* (mail-send.mjs:141-227).
THEOREM SendingAwaited == Spec => []SendingIsAwaited
<1>1. Init => AwaitInv
  <2> SUFFICES ASSUME Init PROVE AwaitInv
    OBVIOUS
  <2>1. draft.status = "draft" /\ handler.at = "none"
    BY DEF Init, Idle
  <2> QED
    BY <2>1, TypeInit DEF AwaitInv, CreatedAsIs, SendingIsAwaited
<1>2. AwaitInv /\ [Next]_vars => AwaitInv'
  <2> SUFFICES ASSUME AwaitInv, [Next]_vars PROVE AwaitInv'
    OBVIOUS
  <2>1. TypeOK' /\ HandlerOK'
    BY TypeStep DEF AwaitInv
  <2>2. CASE UNCHANGED vars
    BY <2>1, <2>2 DEF vars, AwaitInv, CreatedAsIs, SendingIsAwaited
  <2>3. CreatedAsIs' /\ SendingIsAwaited'
    BY <2>2, AwaitOfDraftSteps, AwaitOfCrash, AwaitOfCreation, AwaitOfRunSteps
       DEF Next, AwaitInv
  <2> QED
    BY <2>1, <2>3 DEF AwaitInv
<1> QED
  BY <1>1, <1>2, PTL DEF Spec, AwaitInv
=============================================================================
