-------------------------- MODULE ChannelDelivery --------------------------
(***************************************************************************)
(* Outbound messages to one chat conversation (services/                   *)
(* channel-delivery.mjs): durable rows, a sweep that sends what is due one *)
(* after the other and awaits each answer of the provider, bounded         *)
(* retries, and the three ways in which people interfere (an operator's    *)
(* retry, a resend, an acknowledgement).  The notification of the result   *)
(* of one invocation is followed from its completion to its row.           *)
(*                                                                         *)
(* Every change of a row is a transaction that is in the store when it     *)
(* returns; a crash loses the sweep and the handler between two            *)
(* transactions, and a request on the wire outlives both the sender's      *)
(* timeout and the server.  Time is abstracted: a sweep chooses which      *)
(* claims are stale and which backoffs are over.                           *)
(***************************************************************************)
EXTENDS Integers, FiniteSets

CONSTANTS
    MaxRows,                \* bound: rows ever created
    Retried,                \* bound: the rows whose manual retry is explored
    MaxRetries,             \* bound: manual retries of one of them
    MaxCrashes,             \* bound: restarts of the server
    MaxLate,                \* bound: requests on the wire that a sender gave up
    Sweep,                  \* the sweeps that could overlap, by number
    MAX_DELIVERY_ATTEMPTS,
    ProviderDedupes         \* the provider is sent the client id and shows it once:
                            \* iLink may be TRUE, every other sender drops the id

ASSUME ChannelAssumption ==
    /\ MaxRows \in Nat \ {0} /\ Sweep \subseteq Nat
    /\ MaxRetries \in Nat /\ MaxCrashes \in Nat /\ MaxLate \in Nat \ {0}
    /\ MAX_DELIVERY_ATTEMPTS \in Nat \ {0}
    /\ ProviderDedupes \in BOOLEAN

Delivery == 1..MaxRows

VARIABLES
    rows,       \* how many rows were created: row d exists when d <= rows
    row,        \* state.channelDeliveries
    enabled,    \* the channel's status is "enabled"
    sweep,      \* each pass of sweepChannelDeliveries
    wire,       \* the requests that may still reach the provider
    taken,      \* at the provider: the client ids accepted, by row
    shown,      \* observer: the requests whose message the user was shown
    doubted,    \* observer: the requests given up without an answer
    result,     \* the notification of the invocation's result
    crashes

provider == <<wire, taken, shown, doubted>>
vars == <<rows, row, enabled, sweep, wire, taken, shown, doubted, result, crashes>>

-----------------------------------------------------------------------------

ActiveStatus == {"queued", "retrying", "sending"}
AcceptedStatus == {"delivered", "sent_unconfirmed"}
Status == {"none", "failed_terminal"} \cup ActiveStatus \cup AcceptedStatus

\* client is the provider's idempotency key: the number of manual retries.
Row == [status   : Status,
        attempts : Nat,
        client   : 0..MaxRetries,
        cooling  : BOOLEAN,         \* nextManualRetryAt lies ahead
        notice   : BOOLEAN]         \* carries the result's dedupe key

NoRow == [status |-> "none", attempts |-> 0, client |-> 0,
          cooling |-> FALSE, notice |-> FALSE]

\* The nth attempt of a row under one client id.
Request == [row : Delivery, client : 0..MaxRetries, nth : Nat]

\* No attempt: the first one has nth = 1.
NoRequest == [row |-> 1, client |-> 0, nth |-> 0]

\*   due        between two rows of the pass
\*   sent       the request is on its way to the provider
\*   accepted   the provider took it, the answer is on its way
SweepRecord == [pc : {"idle", "due", "sent", "accepted"},
                due : SUBSET Delivery, req : Request]

IdleSweep == [pc |-> "idle", due |-> {}, req |-> NoRequest]

\* hook: what the completion hook, or the start-up, does next.
ResultRecord == [ended : BOOLEAN, claimed : BOOLEAN, hook : {"none", "claim", "enqueue"}]

TypeOK ==
    /\ rows \in 0..MaxRows
    /\ row \in [Delivery -> Row]
    /\ enabled \in BOOLEAN
    /\ sweep \in [Sweep -> SweepRecord]
    /\ taken \in [Delivery -> SUBSET (0..MaxRetries)]
    /\ wire \subseteq Request /\ shown \subseteq Request /\ doubted \subseteq Request
    /\ result \in ResultRecord
    /\ crashes \in 0..MaxCrashes

Init ==
    /\ rows = 0
    /\ row = [d \in Delivery |-> NoRow]
    /\ enabled = TRUE
    /\ sweep = [w \in Sweep |-> IdleSweep]
    /\ taken = [d \in Delivery |-> {}]
    /\ wire = {} /\ shown = {} /\ doubted = {}
    /\ result = [ended |-> FALSE, claimed |-> FALSE, hook |-> "none"]
    /\ crashes = 0

-----------------------------------------------------------------------------
(* Rows.                                                                   *)

Free == result.hook = "none"

NewRow(notice) == [NoRow EXCEPT !.status = "queued", !.notice = notice]

Append(notice) ==
    /\ rows' = rows + 1
    /\ row' = [row EXCEPT ![rows + 1] = NewRow(notice)]

\* The last row is kept for the result.
HasRoom == IF result.claimed /\ Free THEN rows < MaxRows ELSE rows + 1 < MaxRows

\* enqueueChannelDelivery for a message of some other kind.
Enqueue ==
    /\ Free /\ HasRoom
    /\ Append(FALSE)
    /\ UNCHANGED <<enabled, sweep, provider, result, crashes>>

\* resendChannelDelivery: the user asks again for what was sent or is about to
\* be; a new row copies the old one.  Which one is the latest is left open.
Resend(d) ==
    /\ Free /\ HasRoom
    /\ row[d].status \in AcceptedStatus \cup {"failed_terminal", "retrying", "queued"}
    /\ ~row[d].cooling
    /\ Append(FALSE)
    /\ UNCHANGED <<enabled, sweep, provider, result, crashes>>

\* retryChannelDelivery: an approved operator asks for another round, under a
\* client id that the provider has not seen.
Requeued_SameClient(v) == [v EXCEPT !.status = "queued", !.attempts = 0, !.cooling = FALSE]

Requeued(v) == [v EXCEPT !.status = "queued", !.attempts = 0,
                         !.client = @ + 1, !.cooling = FALSE]

Retry(d) ==
    /\ Free
    /\ row[d].status \in {"failed_terminal", "sent_unconfirmed"} /\ ~row[d].cooling
    /\ d \in Retried /\ row[d].client < MaxRetries
    /\ row' = [row EXCEPT ![d] = Requeued(@)]
    /\ UNCHANGED <<rows, enabled, sweep, provider, result, crashes>>

\* The provider took it: seen by the user, or not known to be.
Receipted(v, confirmed) ==
    [v EXCEPT !.status = IF confirmed THEN "delivered" ELSE "sent_unconfirmed",
              !.cooling = ~confirmed]

\* acknowledgeChannelDelivery: the user says that the result arrived.
Acknowledge(d) ==
    /\ Free
    /\ row[d].status = "sent_unconfirmed"
    /\ row' = [row EXCEPT ![d] = Receipted(@, TRUE)]
    /\ UNCHANGED <<rows, enabled, sweep, provider, result, crashes>>

CooldownEnds(d) ==
    /\ row[d].cooling
    /\ row' = [row EXCEPT ![d].cooling = FALSE]
    /\ UNCHANGED <<rows, enabled, sweep, provider, result, crashes>>

\* enableChannel, disableChannel.
Toggle ==
    /\ Free
    /\ enabled' = ~enabled
    /\ UNCHANGED <<rows, row, sweep, provider, result, crashes>>

-----------------------------------------------------------------------------
(* The sweep.                                                              *)

Stranded_Skipped(S) == row

\* A claim nobody answered for: its process died, or it is only slow.
Stranded(S) ==
    [d \in Delivery |-> IF d \in S THEN [row[d] EXCEPT !.status = "retrying"] ELSE row[d]]

InStatus(s) == {d \in Delivery : row[d].status = s}

MayBegin_ClaimOnly == TRUE

\* sweepInFlight.
MayBegin == \A w \in Sweep : sweep[w].pc = "idle"

\* runSweep: S are the claims that are older than STALE_SENDING_MS, T the rows
\* whose backoff is over; what is due is looked up once.
BeginWith(w, S, T) ==
    /\ Free
    /\ MayBegin /\ sweep[w].pc = "idle"
    /\ \A x \in Sweep : sweep[x].pc = "idle" => w <= x      \* one idle sweep is like another
    /\ row' = Stranded(S)
    /\ sweep' = [sweep EXCEPT ![w] = [IdleSweep EXCEPT
                    !.pc = "due",
                    !.due = IF enabled THEN InStatus("queued") \cup S \cup T ELSE {}]]
    /\ UNCHANGED <<rows, enabled, provider, result, crashes>>

Begin(w) ==
    \E S \in SUBSET InStatus("sending"), T \in SUBSET InStatus("retrying") : BeginWith(w, S, T)

OnWire(s) == s.pc \in {"sent", "accepted"}

\* On to the next row.
Proceed(w) == sweep' = [sweep EXCEPT ![w] = [@ EXCEPT !.pc = "due", !.req = NoRequest]]

IsFirst(d, S) == d \in S /\ \A e \in S : d <= e

Claimable(v) == v.status \in {"queued", "retrying"}

Claimed(v) == [v EXCEPT !.status = "sending", !.attempts = @ + 1]

\* What a provider that dedupes is told to tell duplicates by: the same for every
\* automatic attempt.
IdempotencyKey(v) == v.client

\* attemptDelivery up to the await: the row is claimed and a request leaves, or the
\* row is not any more due.
Attempt(w) ==
    /\ Free
    /\ sweep[w].pc = "due"
    /\ \E d \in Delivery :
          /\ IsFirst(d, sweep[w].due)
          /\ \/ /\ Claimable(row[d])
                /\ row' = [row EXCEPT ![d] = Claimed(@)]
                /\ LET r == [row |-> d, client |-> IdempotencyKey(row[d]),
                              nth |-> row[d].attempts + 1]
                   IN  /\ sweep' = [sweep EXCEPT ![w] =
                                       [pc |-> "sent", due |-> @.due \ {d}, req |-> r]]
                       /\ wire' = wire \cup {r}
             \/ /\ ~Claimable(row[d])
                /\ sweep' = [sweep EXCEPT ![w].due = @ \ {d}]
                /\ UNCHANGED <<row, wire>>
    /\ UNCHANGED <<rows, enabled, taken, shown, doubted, result, crashes>>

\* The provider receives a request, perhaps long after its sender gave it up or died.
\* Only with a client id can it tell that it knows the message.
Accept(r) ==
    /\ r \in wire
    /\ wire' = wire \ {r}
    /\ taken' = [taken EXCEPT ![r.row] = @ \cup {r.client}]
    /\ shown' = IF ProviderDedupes /\ r.client \in taken[r.row] THEN shown
                ELSE shown \cup {r}
    /\ sweep' = [w \in Sweep |-> IF sweep[w].pc = "sent" /\ sweep[w].req = r
                                 THEN [sweep[w] EXCEPT !.pc = "accepted"] ELSE sweep[w]]
    /\ UNCHANGED <<rows, row, enabled, doubted, result, crashes>>

\* How the row goes on after an error: retryable or not, exhausted or not.
Failed(v, retryable) ==
    [v EXCEPT !.status = IF retryable /\ v.attempts < MAX_DELIVERY_ATTEMPTS
                         THEN "retrying" ELSE "failed_terminal"]

\* attemptDelivery after the await: the provider said yes, and whether the user can
\* see it; or an error, which is its refusal, or the want of an answer: the sender's
\* timeout and the loss of a connection tell nothing of what became of the request.
Answer(w) ==
    /\ Free
    /\ LET r == sweep[w].req
       IN  \/ /\ sweep[w].pc = "accepted"
              /\ \E confirmed \in BOOLEAN : row' = [row EXCEPT ![r.row] = Receipted(@, confirmed)]
              /\ UNCHANGED <<wire, doubted>>
           \/ /\ \/ /\ sweep[w].pc = "sent"
                    /\ wire' = wire \ {r} /\ UNCHANGED doubted
                 \/ /\ OnWire(sweep[w]) /\ Cardinality(wire) <= MaxLate
                    /\ doubted' = doubted \cup {r} /\ UNCHANGED wire
              /\ \E retryable \in BOOLEAN : row' = [row EXCEPT ![r.row] = Failed(@, retryable)]
    /\ Proceed(w)
    /\ UNCHANGED <<rows, enabled, taken, shown, result, crashes>>

End(w) ==
    /\ Free
    /\ sweep[w].pc = "due" /\ sweep[w].due = {}
    /\ sweep' = [sweep EXCEPT ![w] = IdleSweep]
    /\ UNCHANGED <<rows, row, enabled, provider, result, crashes>>

-----------------------------------------------------------------------------
(* The notification of a result.                                           *)

\* completeInvocation commits, then runs its hook.
InvocationEnds ==
    /\ Free /\ ~result.ended
    /\ result' = [result EXCEPT !.ended = TRUE, !.hook = "claim"]
    /\ UNCHANGED <<rows, row, enabled, sweep, provider, crashes>>

\* notifyInvocationCompleted, first transaction: lastNotificationKey is set; a
\* result that was claimed before is taken for notified.
ClaimNotice ==
    /\ result.hook = "claim"
    /\ result' = IF ~result.claimed
                 THEN [result EXCEPT !.claimed = TRUE, !.hook = "enqueue"]
                 ELSE [result EXCEPT !.hook = "none"]
    /\ UNCHANGED <<rows, row, enabled, sweep, provider, crashes>>

\* The dedupe of enqueueChannelDelivery.
Duplicate == \E d \in Delivery : row[d].notice /\ row[d].status # "failed_terminal"

\* Its second transaction: the row, unless one with the key is there already.  When
\* no row could be written the claim is released, for a later callback to try again.
EnqueueNotice ==
    /\ result.hook = "enqueue"
    /\ \/ /\ Duplicate /\ UNCHANGED <<rows, row>>
          /\ result' = [result EXCEPT !.hook = "none"]
       \/ /\ ~Duplicate /\ rows < MaxRows /\ Append(TRUE)
          /\ result' = [result EXCEPT !.hook = "none"]
       \/ /\ UNCHANGED <<rows, row>>
          /\ result' = [result EXCEPT !.hook = "none", !.claimed = FALSE]
    /\ UNCHANGED <<enabled, sweep, provider, crashes>>

-----------------------------------------------------------------------------

\* The server dies and is started again; the start-up runs
\* recoverCompletedNotifications before anything else.  Nobody will hear of the
\* requests it had sent.
Crash ==
    /\ crashes < MaxCrashes /\ Cardinality(wire) <= MaxLate
    /\ crashes' = crashes + 1
    /\ sweep' = [w \in Sweep |-> IdleSweep]
    /\ result' = [result EXCEPT !.hook = IF result.ended THEN "claim" ELSE "none"]
    /\ doubted' = doubted \cup {sweep[w].req : w \in {x \in Sweep : OnWire(sweep[x])}}
    /\ UNCHANGED <<rows, row, enabled, wire, taken, shown>>

PeopleStep(d) == Resend(d) \/ Retry(d) \/ Acknowledge(d) \/ CooldownEnds(d)

NoticeStep == ClaimNotice \/ EnqueueNotice

SweepStep(w) == Begin(w) \/ Attempt(w) \/ Answer(w) \/ End(w)

Next ==
    \/ Enqueue \/ Toggle \/ InvocationEnds \/ NoticeStep \/ Crash
    \/ \E d \in Delivery : PeopleStep(d)
    \/ \E w \in Sweep : SweepStep(w)
    \/ \E r \in wire : Accept(r)

Spec == Init /\ [][Next]_vars

\* The sweep runs on an interval, every stale claim and backoff is found over by
\* some later pass, and every request is answered or fails (each sender's fetch
\* has a timeout); nothing is assumed of people or of the provider's acceptance.
Fairness ==
    /\ WF_vars(NoticeStep)
    /\ SF_vars(\E w \in Sweep : BeginWith(w, InStatus("sending"), InStatus("retrying")))
    /\ WF_vars(\E w \in Sweep : Attempt(w) \/ Answer(w) \/ End(w))

FairSpec == Spec /\ Fairness

-----------------------------------------------------------------------------
(* Properties.                                                             *)

\* Of the attempts a row goes through under one client id, so for one time a human
\* asked for it, the user is shown one, and others only when the server was left without
\* an answer: a refusal, a stale claim, an overlapping pass or a second look at the
\* row shows nothing twice.  What reaches a provider that dedupes is shown once
\* (channel-delivery.mjs:335-346, 442-467).  And the result of an invocation has at most
\* one row that did not fail (:300-309, 525-532).
ShownAsAsked ==
    /\ \A r, q \in shown :
          r # q /\ r.row = q.row /\ r.client = q.client =>
              ~ProviderDedupes /\ (r \in doubted \/ q \in doubted)
    /\ Cardinality({d \in Delivery : row[d].notice /\ row[d].status # "failed_terminal"}) <= 1

\* "a resend of a possibly-delivered message is deduped provider-side"
\* (channel-delivery.mjs:453-456): the user sees a row once for each time a human
\* asked for it.
ResendIsDeduped ==
    \A r, q \in shown : r.row = q.row /\ r.client = q.client => r = q

\* A receipt is never recorded for a request the provider did not take, and a row
\* that waits for its first attempt has a client id the provider does not know, or
\* it would swallow the message (:351-363, 700-705).
ReceiptsTrue ==
    \A d \in Delivery :
        /\ row[d].status \in AcceptedStatus => row[d].client \in taken[d]
        /\ row[d].status = "queued" => row[d].client \notin taken[d]

\* A receipt is final: a late outcome never takes it back.  A delivered row stays
\* as it is; an unconfirmed one changes by a human who confirms it or asks for it
\* again (:335-341, 442, 668-670, 845).
ReceiptsFinal ==
    [][\A d \in Delivery :
        /\ row[d].status = "delivered" => row'[d] = row[d]
        /\ row[d].status = "sent_unconfirmed" /\ row'[d].status # "sent_unconfirmed" =>
              \/ row'[d].status = "delivered"
              \/ row'[d] = Requeued(row[d])]_vars

\* "bounded, backoff-scheduled retries and first-class terminal failure"
\* (:2-4, 453-467): while the channel stays enabled every row gets a receipt or
\* fails, the ones stranded by a crash included.
EveryRowEnds ==
    <>[]enabled => \A d \in Delivery :
        row[d].status \in ActiveStatus ~> row[d].status \notin ActiveStatus

\* "The thread's notification key plus delivery dedupe make this safe to run on
\* every restart" (:627-628): an invocation's result gets its row, unless the row could
\* not be written and the claim was released for a later callback.
ResultIsNotified ==
    result.ended ~> (\E d \in Delivery : row[d].notice) \/ (Free /\ ~result.claimed)

\* "ordering within a conversation matters more than throughput" (:432-434): no
\* row is shown while an earlier one is still to be sent for the first time.
ShownInOrder ==
    [][\A d \in Delivery : \A r \in shown' \ shown :
        d < r.row /\ row[d].status \in ActiveStatus => \E q \in shown : q.row = d]_vars

-----------------------------------------------------------------------------
(* The rows as an outbox, whatever the provider makes of the client ids.    *)

Receipt(v) ==
    IF v.status \in ActiveStatus THEN "open"
    ELSE CASE v.status = "none" -> "none"
           [] v.status = "delivered" -> "delivered"
           [] v.status = "sent_unconfirmed" -> "unconfirmed"
           [] v.status = "failed_terminal" -> "failed"

\* The request whose answer a sweep awaits.
Awaited(d) ==
    IF \E w \in Sweep : OnWire(sweep[w]) /\ sweep[w].req.row = d
    THEN [row |-> d, client |-> row[d].client, nth |-> row[d].attempts]
    ELSE NoRequest

Box == INSTANCE Outbox WITH
    Message <- Delivery,
    None <- NoRequest,
    asked <- [d \in Delivery |-> IF row[d].status = "none" THEN 0 ELSE row[d].client + 1],
    awaited <- [d \in Delivery |-> Awaited(d)],
    out <- wire,
    shown <- shown,
    doubted <- doubted,
    receipt <- [d \in Delivery |-> Receipt(row[d])]

\* Stale claims, overlapping passes, late acceptances, restarts and the interference of
\* people leave the rows an outbox: one request at a time, made while the message is
\* open and shown once at most, and a receipt that is true and final
\* (channel-delivery.mjs:335-363, 442-467, 668-705, 845).
KeepsOutbox == Box!Spec
=============================================================================
