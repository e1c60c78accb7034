------------------------------ MODULE MailSend ------------------------------
(***************************************************************************)
(* Sending one reviewed draft (services/mail-send.mjs): a grant for its    *)
(* present revision is used up, a run of the send agent is created, the    *)
(* draft waits for the run, and the end of the run decides what becomes of *)
(* the draft.  The run itself is that of RunOnce: it executes at most once *)
(* and has one outcome, but the mail may leave after the server has        *)
(* decided the outcome, because a reclaimed executor goes on for a while.  *)
(*                                                                         *)
(* The handler is one synchronous function with three commits, and so is a *)
(* denial with two; a crash may come between them.                         *)
(***************************************************************************)
EXTENDS ApprovalGrants, FiniteSets

CONSTANTS
    Foreign,        \* the scope of a grant for something else
    MaxRevision,    \* bound: revisions of the draft
    MaxRuns,        \* bound: runs of the send agent
    MaxCrashes      \* bound: restarts of the server

ASSUME MailAssumption ==
    /\ MaxRevision \in Nat \ {0} /\ MaxRuns \in Nat /\ MaxCrashes \in Nat
    /\ Foreign \notin Nat
    /\ Scope = (0..MaxRevision) \cup {Foreign}

Run == 1..MaxRuns

VARIABLES
    draft,      \* the row of state.mailDrafts
    grants,     \* state.approvalGrants
    seen,       \* observer: what the draft said when each grant was issued
    run,        \* the invocations of the send agent
    handler,    \* the handler that is between two of its commits
    untold,     \* observer: the runs the draft was never told of
    crashes

vars == <<draft, grants, seen, run, handler, untold, crashes>>

-----------------------------------------------------------------------------

DraftStatus == {"draft", "deleted", "sending", "sent", "send_unconfirmed"}
OpenStatus == {"waiting_for_local_approval", "queued", "active"}
OverStatus == {"succeeded", "failed", "timed_out", "cancelled", "rejected"}

\* The row of the draft; text numbers its wordings, run is its sendInvocationId, 0 before the first.
Draft == [status : DraftStatus, revision : 0..MaxRevision, text : Nat, run : 0..MaxRuns]

\* active stands for dispatching, running and cancelling.
RunRecord ==
    [status : {"none"} \cup OpenStatus \cup OverStatus,
     grant  : Grant \cup {0},
     text   : Nat,
     exec   : {"none", "begun", "over"},    \* the tool on the device
     left   : BOOLEAN]                      \* the provider took the mail

Handler == [at : {"none", "granted", "created", "denied"}, grant : Grant \cup {0},
            run : 0..MaxRuns]

Idle == [at |-> "none", grant |-> 0, run |-> 0]

TypeOK ==
    /\ draft \in Draft
    /\ grants \in [Grant -> [state : GrantState, scope : Scope \cup {NoScope}]]
    /\ seen \in [Grant -> Nat]
    /\ run \in [Run -> RunRecord]
    /\ handler \in Handler
    /\ untold \subseteq Run
    /\ crashes \in 0..MaxCrashes

\* A draft that was composed has revision 1, one made of a reviewed reply none.
Init ==
    \E revision \in 0..1 :
        /\ draft = [status |-> "draft", revision |-> revision, text |-> 0, run |-> 0]
        /\ grants = [g \in Grant |-> NotIssued]
        /\ seen = [g \in Grant |-> 0]
        /\ run = [r \in Run |-> [status |-> "none", grant |-> 0, text |-> 0,
                                 exec |-> "none", left |-> FALSE]]
        /\ handler = Idle
        /\ untold = {}
        /\ crashes = 0

Free == handler.at = "none"

-----------------------------------------------------------------------------
(* The draft and its grants.                                               *)

Edited(d) == [d EXCEPT !.text = @ + 1, !.revision = @ + 1]

\* updateDraft.
Edit ==
    /\ Free
    /\ draft.status = "draft"
    /\ draft.text < MaxRevision /\ draft.revision < MaxRevision
    /\ draft' = Edited(draft)
    /\ UNCHANGED <<grants, seen, run, handler, untold, crashes>>

\* deleteDraft.
Delete ==
    /\ Free
    /\ draft.status = "draft"
    /\ draft' = [draft EXCEPT !.status = "deleted"]
    /\ UNCHANGED <<grants, seen, run, handler, untold, crashes>>

\* A person confirms the revision that is shown, or something else altogether.
Issue(g) ==
    /\ Free
    /\ IsNext(grants, g)
    /\ \E scope \in {draft.revision, Foreign} : grants' = [grants EXCEPT ![g] = Issued(scope)]
    /\ seen' = [seen EXCEPT ![g] = draft.text]
    /\ UNCHANGED <<draft, run, handler, untold, crashes>>

-----------------------------------------------------------------------------
(* sendConfirmedDraft.                                                     *)

IsNextRun(r) == run[r].status = "none" /\ \A s \in Run : s < r => run[s].status # "none"

\* Its gates, and the consumption of the grant: the first commit.
Confirm(g) ==
    /\ Free
    /\ draft.status = "draft"
    /\ \E r \in Run : IsNextRun(r)
    /\ Approves(grants[g], draft.revision)
    /\ grants' = [grants EXCEPT ![g] = Consumed(@)]
    /\ handler' = [Idle EXCEPT !.at = "granted", !.grant = g]
    /\ UNCHANGED <<draft, seen, run, untold, crashes>>

\* The run carries the draft as it is now, whatever the caller sent.
NewRun(status) ==
    [status |-> status, grant |-> handler.grant, text |-> draft.text,
     exec |-> "none", left |-> FALSE]

\* createInvocation: the second commit.
CreateRun(r) ==
    /\ handler.at = "granted"
    /\ IsNextRun(r)
    /\ \E status \in {"rejected", "waiting_for_local_approval", "queued"} :
          run' = [run EXCEPT ![r] = NewRun(status)]
    /\ handler' = [handler EXCEPT !.at = "created", !.run = r]
    /\ UNCHANGED <<draft, grants, seen, untold, crashes>>

\* The third: the draft waits for its run, or the run was refused at once.
Dispatched ==
    /\ handler.at = "created"
    /\ draft' = [draft EXCEPT
          !.status = IF run[handler.run].status = "rejected" THEN "send_unconfirmed"
                     ELSE "sending",
          !.run = handler.run]
    /\ handler' = Idle
    /\ UNCHANGED <<grants, seen, run, untold, crashes>>

-----------------------------------------------------------------------------
(* The run.                                                                *)

Settle_AnyStatus(status) == [draft EXCEPT !.status = status]

\* recordMailSendResult and reconcileMailSendTermination: only a draft that is
\* being sent, whichever of its runs the answer is from.
Settle(status) ==
    IF draft.status = "sending" THEN [draft EXCEPT !.status = status] ELSE draft

Approve(r) ==
    /\ Free
    /\ run[r].status = "waiting_for_local_approval"
    /\ run' = [run EXCEPT ![r].status = "queued"]
    /\ UNCHANGED <<draft, grants, seen, handler, untold, crashes>>

\* denyInvocation, and after its commit onInvocationDenied.
Deny(r) ==
    /\ Free
    /\ run[r].status = "waiting_for_local_approval"
    /\ run' = [run EXCEPT ![r].status = "rejected"]
    /\ handler' = [Idle EXCEPT !.at = "denied", !.run = r]
    /\ UNCHANGED <<draft, grants, seen, untold, crashes>>

Termination_Ignored == draft

\* What reconcileMailSendTermination makes of the draft.
Termination == Settle("send_unconfirmed")

AfterDenial ==
    /\ handler.at = "denied"
    /\ draft' = Termination
    /\ handler' = Idle
    /\ UNCHANGED <<grants, seen, run, untold, crashes>>

\* cancelQueuedInvocation, for a user or an unlink: the draft is not told.
Withdraw(r) ==
    /\ Free
    /\ run[r].status \in {"waiting_for_local_approval", "queued"}
    /\ run' = [run EXCEPT ![r].status = "cancelled"]
    /\ UNCHANGED <<draft, grants, seen, handler, untold, crashes>>

\* The ack is granted, and the send agent calls the tool.
Begin(r) ==
    /\ Free
    /\ run[r].status = "queued"
    /\ run' = [run EXCEPT ![r] = [@ EXCEPT !.status = "active", !.exec = "begun"]]
    /\ UNCHANGED <<draft, grants, seen, handler, untold, crashes>>

\* The provider takes the mail, whatever the server thinks of the run.
Leave(r) ==
    /\ run[r].exec = "begun" /\ ~run[r].left
    /\ run' = [run EXCEPT ![r].left = TRUE]
    /\ UNCHANGED <<draft, grants, seen, handler, untold, crashes>>

\* What the end of a run tells:
\*   receipt     it left, and here is the provider's id
\*   refused     sent is false: it did not leave, and will not (no tool says so yet)
\*   failure     the tool answered an error, or nobody answered: the session is gone,
\*               the delivery exhausted, the tool crashed
\*   unclear     an answer without a receipt, or a failure with one
\*   timed_out, cancelled
Ending == {"receipt", "refused", "failure", "unclear", "timed_out", "cancelled"}

\* What is then true of the mail.  An error tells nothing of it: the tool throws when the
\* receipt has no id, and when the connection breaks after the mail was handed over.
May(v, ending) ==
    CASE ending = "receipt" -> v.left
      [] ending = "refused" -> v.exec = "begun" /\ ~v.left
      [] ending = "failure" -> TRUE
      [] OTHER -> v.exec = "begun"

StatusOf(ending) ==
    CASE ending \in {"receipt", "refused", "unclear"} -> "succeeded"
      [] ending = "failure" -> "failed"
      [] OTHER -> ending

Folded_TimeoutRefused(ending) ==
    CASE ending = "receipt" -> "sent"
      [] ending \in {"refused", "failure", "timed_out"} -> "draft"
      [] OTHER -> "send_unconfirmed"

\* What recordMailSendResult makes of a draft that is being sent.
Folded(ending) ==
    CASE ending = "receipt" -> "sent"
      [] ending \in {"refused", "failure"} -> "draft"
      [] OTHER -> "send_unconfirmed"

\* A tool that knows what became of the mail is over.
Ended(v, ending) ==
    [v EXCEPT !.status = StatusOf(ending),
              !.exec = IF ending \in {"receipt", "refused"} THEN "over" ELSE @]

\* completeInvocation, in one commit with its fold.
End(r, ending) ==
    /\ Free
    /\ run[r].status \in {"queued", "active"} /\ May(run[r], ending)
    /\ run' = [run EXCEPT ![r] = Ended(@, ending)]
    /\ draft' = Settle(Folded(ending))
    /\ UNCHANGED <<grants, seen, handler, untold, crashes>>

-----------------------------------------------------------------------------

\* Everything is in the store when a commit returns; the handler is gone.
Crash ==
    /\ crashes < MaxCrashes
    /\ crashes' = crashes + 1
    /\ handler' = Idle
    /\ untold' = IF handler.at = "created" THEN untold \cup {handler.run} ELSE untold
    /\ UNCHANGED <<draft, grants, seen, run>>

RunStep(r) ==
    \/ Approve(r) \/ Deny(r) \/ Withdraw(r) \/ Begin(r) \/ Leave(r)
    \/ \E ending \in Ending : End(r, ending)

Next ==
    \/ Edit \/ Delete \/ Dispatched \/ AfterDenial \/ Crash
    \/ \E g \in Grant : Issue(g) \/ Confirm(g)
    \/ \E r \in Run : CreateRun(r) \/ RunStep(r)

Spec == Init /\ [][Next]_vars

\* A handler goes on, a queued run is handed out or given up, and a run that was
\* handed out ends: the promise EverythingEnds of InvocationDelivery.
Fairness ==
    /\ WF_vars((\E r \in Run : CreateRun(r)) \/ Dispatched \/ AfterDenial)
    /\ \A r \in Run : WF_vars(Begin(r) \/ \E ending \in Ending : End(r, ending))

FairSpec == Spec /\ Fairness

-----------------------------------------------------------------------------
(* Properties.                                                             *)

Created(r) == run[r].status # "none"

\* "a grant binds to the current revision; a draft changed after review cannot
\* reuse the old grant", "single-use" (mail-send.mjs:14, 105-108): whatever the
\* server was asked, and wherever it crashed, each run of the send agent used up a
\* grant of its own, and sends what its issuer was shown.
EveryMailApproved ==
    \A r \in Run : Created(r) =>
        /\ run[r].grant \in Grant
        /\ grants[run[r].grant].state = "consumed"
        /\ run[r].text = seen[run[r].grant]
        /\ \A s \in Run : Created(s) /\ run[s].grant = run[r].grant => s = r

\* The server takes a failed run for one whose mail did not leave.  But for those, a
\* draft is mailed once, and once more for each run whose creation it was never told of:
\* nothing else, be it a timeout, a cancellation, a denial, a withdrawal or an unreadable
\* answer, late or repeated, makes it sendable again (:20-24, 202-227).
MailedOnce ==
    Cardinality({r \in Run : run[r].left /\ run[r].status # "failed"}) <= 1 + Cardinality(untold)

\* "the provider refused before anything left. The draft returns to sendable"
\* (mail-send.mjs:203-204).
SendableIsUnsent ==
    [][draft.status = "sending" /\ draft'.status = "draft" => ~run[draft.run].left]_vars

\* "no automatic path back to sendable" (:22-24): a draft that is sent or
\* unconfirmed stays so over late answers of other runs, and is called sent only
\* when its mail has left.
ResolvedForGood ==
    [][/\ draft.status \in {"sent", "send_unconfirmed"} => draft' = draft
       /\ draft'.status = "sent" => \E r \in Run : run[r].left]_vars

\* "must resolve the draft to send_unconfirmed, never leave it "sending""
\* (completion.mjs:183-185): a draft that is being sent is resolved, unless its run
\* waits for a decision, was withdrawn while it was queued, or the server crashed
\* right after a denial.
SendingEnds ==
    draft.status = "sending" ~>
        \/ draft.status # "sending"
        \/ run[draft.run].status \in {"waiting_for_local_approval", "cancelled"}
        \/ run[draft.run].status = "rejected" /\ crashes > 0

\* What SendingEnds rests on: whichever run answered, was denied or was withdrawn, and
\* wherever the server crashed, a draft that is being sent waits for a run that was
\* created for it and has not answered yet (:141-227); the exceptions are those of
\* SendingEnds.
SendingIsAwaited ==
    draft.status = "sending" =>
        /\ draft.run \in Run
        /\ \/ run[draft.run].status \in OpenStatus \cup {"cancelled"}
           \/ run[draft.run].status = "rejected" /\ (handler.at = "denied" \/ crashes > 0)

\* The same without the three excuses but the first.
AlwaysResolved ==
    draft.status = "sending" ~>
        draft.status # "sending" \/ run[draft.run].status = "waiting_for_local_approval"

\* "resolves the draft to send_unconfirmed [...] Never silently sent" (:21-24):
\* no mail leaves of a draft that is offered for sending.
NeverSilentlySent ==
    [][\A r \in Run : run'[r].left # run[r].left => draft.status \notin {"draft", "deleted"}]_vars
=============================================================================
