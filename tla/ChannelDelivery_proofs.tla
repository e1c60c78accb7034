------------------------ MODULE ChannelDelivery_proofs ------------------------
(***************************************************************************)
(* Theorems about ChannelDelivery for any numbers of rows, attempts, manual*)
(* retries, crashes, late requests and sweeps, and for a provider that     *)
(* dedupes as well as for one that does not.                               *)
(*                                                                         *)
(* The argument: one sweep at a time is under way, so the row of a request *)
(* whose answer is awaited stays claimed, under the client id and the      *)
(* number of the request, until the answer.  Client ids and the attempts   *)
(* under one only grow, and the provider knows none that is greater than   *)
(* the present one.  Whatever else is on the wire was given up, and what   *)
(* was shown and not given up is awaited, or has its receipt, or belongs   *)
(* to an earlier retry.  That the rows implement an Outbox is at the end.  *)
(***************************************************************************)
EXTENDS ChannelDelivery, FiniteSetTheorems, TLAPS

\* One row, and the client ids that the provider knows of it.
RowOK(v, known) ==
    /\ v.status \in AcceptedStatus => v.client \in known
    /\ v.status = "queued" => v.client \notin known /\ v.attempts = 0
    /\ \A c \in known : c <= v.client
    /\ v.cooling => v.status = "sent_unconfirmed"

RowsOK == \A d \in Delivery : RowOK(row[d], taken[d])

\* A sweep that awaits an answer.
AwaitOK(s) ==
    /\ row[s.req.row].status = "sending"
    /\ s.req.client = row[s.req.row].client
    /\ s.req.nth = row[s.req.row].attempts /\ s.req.nth >= 1
    /\ s.pc = "sent" => s.req \in wire
    /\ s.pc = "accepted" => s.req \notin wire /\ s.req.client \in taken[s.req.row]

SweepsOK ==
    /\ \A w \in Sweep : OnWire(sweep[w]) => AwaitOK(sweep[w])
    /\ \A w, x \in Sweep : sweep[w].pc # "idle" /\ sweep[x].pc # "idle" => w = x

Pending(r) == \E w \in Sweep : OnWire(sweep[w]) /\ sweep[w].req = r

\* A request was made of the row as it is, or as it was before.
PastOf(v, r) ==
    /\ v.status # "none" /\ r.nth >= 1
    /\ r.client <= v.client /\ (r.client = v.client => r.nth <= v.attempts)

Twins(r, q) == r.row = q.row /\ r.client = q.client

\* What a request that was shown and not given up came to.
Settled(v, r) == r.client < v.client \/ v.status \in AcceptedStatus

RequestsOK ==
    /\ \A r \in wire \cup shown \cup doubted : PastOf(row[r.row], r)
    /\ \A r \in wire : r \notin shown /\ (Pending(r) \/ r \in doubted)
    /\ \A r \in shown : r.client \in taken[r.row]
    /\ \A r \in shown \ doubted : Pending(r) \/ Settled(row[r.row], r)

\* The messages part of ShownAsAsked.
TwinsOK ==
    \A r, q \in shown :
        r # q /\ Twins(r, q) => ~ProviderDedupes /\ (r \in doubted \/ q \in doubted)

FreshOK == \A d \in Delivery : d > rows => row[d] = NoRow /\ taken[d] = {}

NoticeOK ==
    /\ \A d \in Delivery : row[d].notice => result.claimed /\ result.hook # "enqueue"
    /\ \A d, e \in Delivery : row[d].notice /\ row[e].notice => d = e
    /\ result.hook = "enqueue" => result.claimed

IInv == TypeOK /\ RowsOK /\ SweepsOK /\ RequestsOK /\ TwinsOK /\ FreshOK /\ NoticeOK
\* What no step may do to a row that has a receipt.
ReceiptsKept ==
    \A d \in Delivery :
        /\ row[d].status = "delivered" => row'[d] = row[d]
        /\ row[d].status = "sent_unconfirmed" /\ row'[d].status # "sent_unconfirmed" =>
              \/ row'[d].status = "delivered"
              \/ row'[d] = Requeued(row[d])

Preserved == IInv' /\ ReceiptsKept

-----------------------------------------------------------------------------
(* The operators on one row.                                               *)

LEMMA NewRowType == NoRow \in Row /\ \A notice \in BOOLEAN : NewRow(notice) \in Row
<1>1. 0 \in 0..MaxRetries /\ 0 \in Nat
  BY ChannelAssumption
<1>2. NoRow \in Row
  BY <1>1 DEF NoRow, Row, Status, ActiveStatus
<1>3. ASSUME NEW notice \in BOOLEAN PROVE NewRow(notice) \in Row
  BY <1>1 DEF NewRow, NoRow, Row, Status, ActiveStatus
<1> QED BY <1>2, <1>3

LEMMA NewRowOK ==
  ASSUME NEW notice \in BOOLEAN
  PROVE  RowOK(NewRow(notice), {}) /\ NewRow(notice).notice = notice
  BY DEF RowOK, NewRow, NoRow, AcceptedStatus

LEMMA RequeuedOK ==
  ASSUME NEW v \in Row, NEW known \in SUBSET (0..MaxRetries),
         RowOK(v, known), v.client < MaxRetries, ~v.cooling
  PROVE  /\ Requeued(v) \in Row /\ RowOK(Requeued(v), known)
         /\ Requeued(v).status = "queued" /\ Requeued(v).client = v.client + 1
         /\ Requeued(v).notice = v.notice
<1>1. /\ v.client + 1 \in 0..MaxRetries /\ v.client \in Nat
  BY ChannelAssumption DEF Row
<1>2. /\ Requeued(v) \in Row
      /\ Requeued(v).status = "queued" /\ Requeued(v).client = v.client + 1
      /\ Requeued(v).attempts = 0
      /\ Requeued(v).cooling = FALSE /\ Requeued(v).notice = v.notice
  BY <1>1 DEF Requeued, Row, Status, ActiveStatus
<1>3. \A c \in known : c <= v.client /\ c \in Nat
  BY ChannelAssumption DEF RowOK
<1>4. v.client + 1 \notin known
  BY <1>1, <1>3
<1>5. RowOK(Requeued(v), known)
  BY <1>1, <1>2, <1>3, <1>4 DEF RowOK, AcceptedStatus
<1> QED BY <1>2, <1>5

LEMMA ReceiptedOK ==
  ASSUME NEW v \in Row, NEW known, NEW confirmed \in BOOLEAN,
         RowOK(v, known), v.client \in known
  PROVE  /\ Receipted(v, confirmed) \in Row
         /\ RowOK(Receipted(v, confirmed), known)
         /\ Receipted(v, confirmed).notice = v.notice
         /\ Receipted(v, confirmed).client = v.client
         /\ Receipted(v, confirmed).attempts = v.attempts
         /\ Receipted(v, confirmed).status \in AcceptedStatus
         /\ Receipted(v, TRUE).status = "delivered"
<1>1. /\ Receipted(v, confirmed) \in Row
      /\ Receipted(v, confirmed).status =
            IF confirmed THEN "delivered" ELSE "sent_unconfirmed"
      /\ Receipted(v, confirmed).cooling = ~confirmed
      /\ Receipted(v, confirmed).status \in AcceptedStatus
      /\ Receipted(v, confirmed).client = v.client
      /\ Receipted(v, confirmed).attempts = v.attempts
      /\ Receipted(v, confirmed).notice = v.notice
  BY DEF Receipted, Row, Status, AcceptedStatus
<1>2. Receipted(v, TRUE).status = "delivered"
  BY DEF Receipted, Row
<1> QED BY <1>1, <1>2 DEF RowOK

\* Any status but "queued" and the receipts, for a row that has no receipt.
LEMMA StatusOK ==
  ASSUME NEW v \in Row, NEW known, NEW u \in Row,
         RowOK(v, known), v.status \notin AcceptedStatus,
         u.client = v.client, u.cooling = v.cooling,
         u.status \in {"sending", "retrying", "failed_terminal"}
  PROVE  RowOK(u, known)
  BY DEF RowOK, AcceptedStatus

LEMMA ClaimedOK ==
  ASSUME NEW v \in Row, NEW known, RowOK(v, known), Claimable(v)
  PROVE  /\ Claimed(v) \in Row /\ RowOK(Claimed(v), known)
         /\ Claimed(v).status = "sending" /\ Claimed(v).client = v.client
         /\ Claimed(v).attempts = v.attempts + 1 /\ Claimed(v).notice = v.notice
<1>0. v.attempts + 1 \in Nat
  BY DEF Row
<1>1. /\ Claimed(v) \in Row /\ Claimed(v).cooling = v.cooling
      /\ Claimed(v).status = "sending" /\ Claimed(v).client = v.client
      /\ Claimed(v).attempts = v.attempts + 1 /\ Claimed(v).notice = v.notice
  BY <1>0 DEF Claimed, Row, Status, ActiveStatus
<1> QED BY <1>1, StatusOK DEF Claimable, AcceptedStatus

LEMMA FailedOK ==
  ASSUME NEW v \in Row, NEW known, NEW retryable \in BOOLEAN,
         RowOK(v, known), v.status = "sending"
  PROVE  /\ Failed(v, retryable) \in Row /\ RowOK(Failed(v, retryable), known)
         /\ Failed(v, retryable).notice = v.notice
         /\ Failed(v, retryable).client = v.client
         /\ Failed(v, retryable).attempts = v.attempts
         /\ Failed(v, retryable).status \in {"retrying", "failed_terminal"}
<1>1. /\ Failed(v, retryable) \in Row /\ Failed(v, retryable).cooling = v.cooling
      /\ Failed(v, retryable).status \in {"retrying", "failed_terminal"}
      /\ Failed(v, retryable).client = v.client
      /\ Failed(v, retryable).attempts = v.attempts
      /\ Failed(v, retryable).notice = v.notice
  BY DEF Failed, Row, Status, ActiveStatus
<1> QED BY <1>1, StatusOK DEF AcceptedStatus

-----------------------------------------------------------------------------
(* What becomes of the requests.                                           *)

\* How a row changes as far as the requests made of it can tell.
Grows(v, u) ==
    v.status # "none" =>
        /\ u.status # "none" /\ v.client <= u.client
        /\ v.client = u.client => /\ v.attempts <= u.attempts
                                  /\ v.status \in AcceptedStatus => u.status \in AcceptedStatus

LEMMA PastGrows ==
  ASSUME NEW v \in Row, NEW u \in Row, NEW r \in Request, Grows(v, u), PastOf(v, r)
  PROVE  PastOf(u, r) /\ (Settled(v, r) => Settled(u, r))
<1>1. v.client \in Nat /\ u.client \in Nat /\ r.client \in Nat
  BY ChannelAssumption DEF Row, Request
<1>2. v.attempts \in Nat /\ u.attempts \in Nat /\ r.nth \in Nat
  BY DEF Row, Request
<1>3. PastOf(u, r)
  BY <1>1, <1>2 DEF Grows, PastOf
<1>4. Settled(v, r) => Settled(u, r)
  BY <1>1, <1>2 DEF Grows, PastOf, Settled
<1> QED BY <1>3, <1>4

\* A step that only lets rows grow.
LEMMA RequestsUndisturbed ==
  ASSUME IInv, row' \in [Delivery -> Row], UNCHANGED provider,
         \A d \in Delivery : Grows(row[d], row'[d]),
         \A r \in Request : Pending(r) => Pending(r)'
  PROVE  RequestsOK' /\ TwinsOK'
<1>0. /\ wire' = wire /\ taken' = taken /\ shown' = shown /\ doubted' = doubted
      /\ row \in [Delivery -> Row]
      /\ wire \subseteq Request /\ shown \subseteq Request /\ doubted \subseteq Request
  BY DEF provider, IInv, TypeOK
<1>1. ASSUME NEW r \in wire \cup shown \cup doubted
      PROVE  /\ PastOf(row'[r.row], r)
             /\ Settled(row[r.row], r) => Settled(row'[r.row], r)
  <2>1. r \in Request /\ r.row \in Delivery
    BY <1>0 DEF Request
  <2>2. PastOf(row[r.row], r)
    BY DEF IInv, RequestsOK
  <2> QED BY <1>0, <2>1, <2>2, PastGrows
<1>2. RequestsOK'
  BY <1>0, <1>1 DEF IInv, RequestsOK
<1>3. TwinsOK'
  BY <1>0 DEF IInv, TwinsOK
<1> QED BY <1>2, <1>3

\* While a sweep is between two rows nobody awaits an answer.
LEMMA NonePending ==
  ASSUME IInv, \/ \E w \in Sweep : sweep[w].pc = "due"
               \/ \A w \in Sweep : ~OnWire(sweep[w])
  PROVE  \A r \in Request : ~Pending(r)
  BY DEF IInv, SweepsOK, OnWire, Pending

-----------------------------------------------------------------------------
(* Steps.                                                                  *)

Kept(v, u) ==
    /\ v.status = "delivered" => u = v
    /\ v.status = "sent_unconfirmed" /\ u.status # "sent_unconfirmed" =>
          u.status = "delivered" \/ u = Requeued(v)

\* A step that changes one row, and perhaps the sweeps and the requests.
LEMMA OneRowStep ==
  ASSUME IInv, NEW d \in Delivery, NEW v \in Row, row' = [row EXCEPT ![d] = v],
         RowOK(v, taken[d]), v.notice = row[d].notice, row[d].status # "none",
         Kept(row[d], v),
         sweep' \in [Sweep -> SweepRecord],
         wire' \subseteq Request /\ doubted' \subseteq Request,
         UNCHANGED <<rows, enabled, taken, shown, result, crashes>>
  PROVE  TypeOK' /\ RowsOK' /\ FreshOK' /\ NoticeOK' /\ ReceiptsKept
<1>1. row'[d] = v /\ \A e \in Delivery : e # d => row'[e] = row[e]
  BY DEF IInv, TypeOK
<1>2. TypeOK'
  BY <1>1 DEF IInv, TypeOK
<1>3. RowsOK'
  BY <1>1 DEF IInv, RowsOK
<1>4. FreshOK'
  BY <1>1 DEF IInv, FreshOK, NoRow
<1>5. NoticeOK'
  BY <1>1 DEF IInv, NoticeOK
<1>6. ReceiptsKept
  BY <1>1 DEF ReceiptsKept, Kept
<1> QED BY <1>2, <1>3, <1>4, <1>5, <1>6

\* A row whose answer nobody awaits may change while the sweeps do not.
LEMMA SweepsUndisturbed ==
  ASSUME IInv, NEW d \in Delivery, row[d].status # "sending",
         row' \in [Delivery -> Row], Grows(row[d], row'[d]),
         \A e \in Delivery : e # d => row'[e] = row[e],
         sweep' = sweep, UNCHANGED provider
  PROVE  SweepsOK' /\ RequestsOK' /\ TwinsOK'
<1>0. wire' = wire /\ taken' = taken
  BY DEF provider
<1>1. \A w \in Sweep : sweep[w].req.row \in Delivery
  BY DEF IInv, TypeOK, SweepRecord, Request
<1>2. \A w \in Sweep : OnWire(sweep[w]) => row'[sweep[w].req.row] = row[sweep[w].req.row]
  BY <1>1 DEF IInv, SweepsOK, AwaitOK
<1>3. SweepsOK'
  BY <1>0, <1>2 DEF IInv, SweepsOK, AwaitOK
<1>4. \A r \in Request : Pending(r) => Pending(r)'
  BY DEF Pending
<1>5. \A e \in Delivery : row[e] \in Row
  BY DEF IInv, TypeOK
<1>6. \A e \in Delivery : Grows(row[e], row[e])
  <2>1. ASSUME NEW e \in Delivery
        PROVE  row[e].client <= row[e].client /\ row[e].attempts <= row[e].attempts
    BY <1>5, ChannelAssumption DEF Row
  <2> QED BY <2>1 DEF Grows
<1> QED BY <1>3, <1>4, <1>6, RequestsUndisturbed

\* A person's step on one row that is not claimed.
LEMMA OnePersonStep ==
  ASSUME IInv, NEW d \in Delivery, NEW v \in Row, row' = [row EXCEPT ![d] = v],
         RowOK(v, taken[d]), v.notice = row[d].notice,
         row[d].status \notin {"none", "sending"},
         Kept(row[d], v), Grows(row[d], v),
         UNCHANGED <<rows, enabled, sweep, provider, result, crashes>>
  PROVE  Preserved
<1>1. /\ row'[d] = v /\ \A e \in Delivery : e # d => row'[e] = row[e]
      /\ row' \in [Delivery -> Row] /\ sweep' \in [Sweep -> SweepRecord]
      /\ wire' \subseteq Request /\ doubted' \subseteq Request
      /\ UNCHANGED <<rows, enabled, taken, shown, result, crashes>>
  BY DEF IInv, TypeOK, provider
<1>2. SweepsOK' /\ RequestsOK' /\ TwinsOK'
  BY <1>1, SweepsUndisturbed
<1>3. TypeOK' /\ RowsOK' /\ FreshOK' /\ NoticeOK' /\ ReceiptsKept
  BY <1>1, OneRowStep
<1> QED BY <1>2, <1>3 DEF Preserved, IInv

LEMMA PeopleStepPreserves ==
  ASSUME IInv, NEW d \in Delivery, Retry(d) \/ Acknowledge(d) \/ CooldownEnds(d)
  PROVE  Preserved
<1>0. /\ row[d] \in Row /\ taken[d] \in SUBSET (0..MaxRetries)
      /\ RowOK(row[d], taken[d])
      /\ row[d].client \in Nat /\ row[d].attempts \in Nat
  BY ChannelAssumption DEF IInv, TypeOK, RowsOK, Row
<1>1. CASE Retry(d)
  <2> DEFINE v == Requeued(row[d])
  <2>1. /\ row' = [row EXCEPT ![d] = v]
        /\ row[d].client < MaxRetries /\ ~row[d].cooling
        /\ row[d].status \in {"failed_terminal", "sent_unconfirmed"}
        /\ UNCHANGED <<rows, enabled, sweep, provider, result, crashes>>
    BY <1>1 DEF Retry
  <2>2. /\ v \in Row /\ RowOK(v, taken[d]) /\ v.notice = row[d].notice
        /\ v.status = "queued" /\ v.client = row[d].client + 1
    BY <1>0, <2>1, RequeuedOK
  <2>3. Kept(row[d], v)
    BY <2>1 DEF Kept
  <2> HIDE DEF v
  <2>4. Grows(row[d], v)
    BY <1>0, <2>2 DEF Grows
  <2> QED BY <2>1, <2>2, <2>3, <2>4, OnePersonStep
<1>2. CASE Acknowledge(d)
  <2> DEFINE v == Receipted(row[d], TRUE)
  <2>1. /\ row' = [row EXCEPT ![d] = v]
        /\ row[d].status = "sent_unconfirmed"
        /\ UNCHANGED <<rows, enabled, sweep, provider, result, crashes>>
    BY <1>2 DEF Acknowledge
  <2>2. row[d].client \in taken[d]
    BY <1>0, <2>1 DEF RowOK, AcceptedStatus
  <2>3. /\ v \in Row /\ RowOK(v, taken[d]) /\ v.notice = row[d].notice
        /\ v.client = row[d].client /\ v.attempts = row[d].attempts
        /\ v.status = "delivered"
    BY <1>0, <2>2, ReceiptedOK
  <2> HIDE DEF v
  <2>4. Kept(row[d], v) /\ Grows(row[d], v)
    BY <1>0, <2>1, <2>3 DEF Kept, Grows, AcceptedStatus
  <2> QED BY <2>1, <2>3, <2>4, OnePersonStep
<1>3. CASE CooldownEnds(d)
  <2> DEFINE v == [row[d] EXCEPT !.cooling = FALSE]
  <2>1. /\ row' = [row EXCEPT ![d] = v] /\ row[d].cooling
        /\ UNCHANGED <<rows, enabled, sweep, provider, result, crashes>>
    BY <1>3 DEF CooldownEnds
  <2>2. row[d].status = "sent_unconfirmed"
    BY <1>0, <2>1 DEF RowOK
  <2>3. /\ v \in Row /\ v.status = row[d].status /\ v.client = row[d].client
        /\ v.attempts = row[d].attempts
        /\ v.cooling = FALSE /\ v.notice = row[d].notice
    BY <1>0 DEF Row
  <2> HIDE DEF v
  <2>4. RowOK(v, taken[d]) /\ Kept(row[d], v) /\ Grows(row[d], v)
    BY <1>0, <2>2, <2>3 DEF RowOK, Kept, Grows
  <2> QED BY <2>1, <2>2, <2>3, <2>4, OnePersonStep
<1> QED BY <1>1, <1>2, <1>3

LEMMA AppendPreserves ==
  ASSUME IInv, NEW notice \in BOOLEAN, rows < MaxRows, Append(notice),
         UNCHANGED <<enabled, sweep, provider, crashes>>,
         \/ ~notice /\ result' = result
         \/ result.hook = "enqueue" /\ result' = [result EXCEPT !.hook = "none"]
  PROVE  Preserved
<1> DEFINE n == rows + 1
<1>0. /\ rows \in Nat /\ n \in Delivery /\ n > rows /\ n \in 0..MaxRows
      /\ row \in [Delivery -> Row]
      /\ wire' = wire /\ taken' = taken /\ shown' = shown /\ doubted' = doubted
  BY ChannelAssumption DEF IInv, TypeOK, Delivery, provider
<1>1. /\ row'[n] = NewRow(notice) /\ rows' = n
      /\ \A e \in Delivery : e # n => row'[e] = row[e]
      /\ row' \in [Delivery -> Row]
  BY <1>0, NewRowType DEF Append
<1>2. row[n] = NoRow /\ taken[n] = {}
  BY <1>0 DEF IInv, FreshOK
<1>3. result' \in ResultRecord
  BY DEF IInv, TypeOK, ResultRecord
<1>4. TypeOK'
  BY <1>0, <1>1, <1>3 DEF IInv, TypeOK
<1>5. RowsOK'
  BY <1>0, <1>1, <1>2, NewRowOK DEF IInv, RowsOK
<1>6. SweepsOK' /\ RequestsOK' /\ TwinsOK'
  <2>1. row[n].status = "none"
    BY <1>2 DEF NoRow
  <2>2. Grows(row[n], row'[n])
    BY <2>1 DEF Grows
  <2> HIDE DEF n
  <2> QED BY <1>0, <1>1, <2>1, <2>2, SweepsUndisturbed
<1>7. FreshOK'
  <2>1. \A e \in Delivery : e > n => e > rows /\ e # n
    BY <1>0 DEF Delivery
  <2> QED BY <1>0, <1>1, <2>1 DEF IInv, FreshOK
<1>8. NoticeOK'
  <2>1. row'[n].notice = notice
    BY <1>1, NewRowOK
  <2>2. CASE ~notice /\ result' = result
    BY <1>1, <2>1, <2>2 DEF IInv, NoticeOK
  <2>3. CASE result.hook = "enqueue" /\ result' = [result EXCEPT !.hook = "none"]
    <3>1. result'.hook = "none" /\ result'.claimed = result.claimed
      BY <2>3 DEF IInv, TypeOK, ResultRecord
    <3>2. result.claimed /\ \A e \in Delivery : ~row[e].notice
      BY <2>3 DEF IInv, NoticeOK
    <3> QED BY <1>1, <3>1, <3>2 DEF NoticeOK
  <2> QED BY <2>2, <2>3
<1>9. ReceiptsKept
  BY <1>1, <1>2 DEF ReceiptsKept, NoRow
<1> QED BY <1>4, <1>5, <1>6, <1>7, <1>8, <1>9 DEF Preserved, IInv

LEMMA IdleSweepType == IdleSweep \in SweepRecord /\ NoRequest \in Request
<1>1. 1 \in Delivery /\ 0 \in 0..MaxRetries /\ 0 \in Nat
  BY ChannelAssumption DEF Delivery
<1>2. NoRequest \in Request
  BY <1>1 DEF NoRequest, Request
<1> QED BY <1>2 DEF IdleSweep, SweepRecord

\* A step that leaves the rows and the provider alone.
LEMMA NoRowStep ==
  ASSUME IInv, UNCHANGED <<rows, row, provider>>,
         enabled' \in BOOLEAN, crashes' \in 0..MaxCrashes, result' \in ResultRecord,
         (result.claimed => result'.claimed) \/ \A d \in Delivery : ~row[d].notice,
         result'.hook = "enqueue" =>
             result'.claimed /\ \A d \in Delivery : ~row[d].notice,
         sweep' \in [Sweep -> SweepRecord], SweepsOK',
         \A r \in Request : Pending(r) => Pending(r)'
  PROVE  Preserved
<1>0. wire' = wire /\ taken' = taken /\ shown' = shown /\ doubted' = doubted
  BY DEF provider
<1>1. TypeOK'
  BY <1>0 DEF IInv, TypeOK
<1>2. RowsOK' /\ FreshOK'
  BY <1>0 DEF IInv, RowsOK, FreshOK
<1>3. NoticeOK'
  BY DEF IInv, NoticeOK
<1>4. ReceiptsKept
  BY DEF ReceiptsKept
<1>5. RequestsOK' /\ TwinsOK'
  BY <1>0 DEF IInv, RequestsOK, TwinsOK, TypeOK
<1> QED BY <1>1, <1>2, <1>3, <1>4, <1>5 DEF Preserved, IInv

LEMMA ResultStepsPreserve ==
  ASSUME IInv, Toggle \/ InvocationEnds \/ ClaimNotice \/ UNCHANGED vars
  PROVE  Preserved
<1>0. /\ result \in ResultRecord /\ enabled \in BOOLEAN /\ crashes \in 0..MaxCrashes
      /\ sweep \in [Sweep -> SweepRecord]
  BY DEF IInv, TypeOK
<1>1. ASSUME sweep' = sweep, row' = row, UNCHANGED provider
      PROVE  SweepsOK' /\ \A r \in Request : Pending(r) => Pending(r)'
  BY <1>1 DEF IInv, SweepsOK, AwaitOK, provider, Pending
<1>2. CASE Toggle
  BY <1>0, <1>1, <1>2, NoRowStep DEF Toggle, Free
<1>3. CASE InvocationEnds
  <2>1. /\ result' \in ResultRecord /\ result'.claimed = result.claimed
        /\ result'.hook = "claim"
    BY <1>0, <1>3 DEF InvocationEnds, ResultRecord
  <2> QED BY <1>0, <1>1, <1>3, <2>1, NoRowStep DEF InvocationEnds
<1>4. CASE ClaimNotice
  <2>1. /\ result' \in ResultRecord
        /\ result.claimed => result'.claimed
        /\ result'.hook = "enqueue" => result'.claimed /\ ~result.claimed
    BY <1>0, <1>4 DEF ClaimNotice, ResultRecord
  <2>2. result'.hook = "enqueue" => \A d \in Delivery : ~row[d].notice
    BY <2>1 DEF IInv, NoticeOK
  <2> QED BY <1>0, <1>1, <1>4, <2>1, <2>2, NoRowStep DEF ClaimNotice
<1>5. CASE UNCHANGED vars
  BY <1>0, <1>1, <1>5, NoRowStep DEF vars, provider, IInv, NoticeOK
<1> QED BY <1>2, <1>3, <1>4, <1>5

\* The requests that were awaited are given up, and are no more than they were.
LEMMA CrashPreserves ==
  ASSUME IInv, Crash
  PROVE  Preserved
<1> DEFINE X == {sweep[w].req : w \in {x \in Sweep : OnWire(sweep[x])}}
<1>0. /\ UNCHANGED <<rows, row, enabled, wire, taken, shown>> /\ doubted' = doubted \cup X
      /\ sweep \in [Sweep -> SweepRecord] /\ result \in ResultRecord
  BY DEF Crash, IInv, TypeOK
<1>1. \A r \in X : r \in Request /\ PastOf(row[r.row], r)
  <2>1. SUFFICES ASSUME NEW w \in Sweep, OnWire(sweep[w])
                 PROVE  sweep[w].req \in Request /\ PastOf(row[sweep[w].req.row], sweep[w].req)
    OBVIOUS
  <2>2. sweep[w].req \in Request /\ sweep[w].req.nth \in Nat /\ sweep[w].req.client \in Nat
    BY <1>0, ChannelAssumption DEF SweepRecord, Request
  <2>3. AwaitOK(sweep[w])
    BY <2>1 DEF IInv, SweepsOK
  <2> QED BY <2>2, <2>3 DEF AwaitOK, PastOf
<1>2. \A r \in Request : Pending(r) => r \in X
  BY DEF Pending
<1> HIDE DEF X
<1>3. /\ result' \in ResultRecord /\ result'.claimed = result.claimed
      /\ result'.hook # "enqueue"
  BY <1>0 DEF Crash, ResultRecord
<1>4. crashes' \in 0..MaxCrashes
  BY ChannelAssumption DEF Crash, IInv, TypeOK
<1>5. sweep' \in [Sweep -> SweepRecord] /\ \A w \in Sweep : sweep'[w].pc = "idle"
  BY IdleSweepType DEF Crash, IdleSweep
<1>6. TypeOK'
  BY <1>0, <1>1, <1>3, <1>4, <1>5 DEF IInv, TypeOK
<1>7. RowsOK' /\ FreshOK' /\ ReceiptsKept
  BY <1>0 DEF IInv, RowsOK, FreshOK, ReceiptsKept
<1>8. SweepsOK'
  BY <1>5 DEF SweepsOK, OnWire
<1>9. NoticeOK'
  BY <1>0, <1>3 DEF IInv, NoticeOK
<1>10. RequestsOK'
  BY <1>0, <1>1, <1>2 DEF IInv, TypeOK, RequestsOK
<1>11. TwinsOK'
  BY <1>0 DEF IInv, TwinsOK
<1> QED BY <1>6, <1>7, <1>8, <1>9, <1>10, <1>11 DEF Preserved, IInv

\* The sweep that is under way is the only one: the others stay idle.
LEMMA OneSweep ==
  ASSUME IInv, NEW w \in Sweep, NEW s \in SweepRecord,
         sweep' = [sweep EXCEPT ![w] = s],
         sweep[w].pc # "idle" \/ (\A x \in Sweep : sweep[x].pc = "idle"),
         OnWire(s) => AwaitOK(s)'
  PROVE  /\ SweepsOK' /\ sweep' \in [Sweep -> SweepRecord]
         /\ sweep'[w] = s /\ \A x \in Sweep : x # w => ~OnWire(sweep'[x]) /\ ~OnWire(sweep[x])
<1>1. sweep \in [Sweep -> SweepRecord]
  BY DEF IInv, TypeOK
<1>2. sweep'[w] = s /\ \A x \in Sweep : x # w => sweep'[x] = sweep[x] /\ sweep[x].pc = "idle"
  BY <1>1 DEF IInv, SweepsOK
<1>3. SweepsOK'
  <2>1. ASSUME NEW x \in Sweep, OnWire(sweep'[x])
        PROVE  AwaitOK(sweep[x])'
    <3>1. x = w
      BY <1>2, <2>1 DEF OnWire
    <3> QED BY <1>2, <2>1, <3>1 DEF AwaitOK
  <2>2. \A x, y \in Sweep : sweep'[x].pc # "idle" /\ sweep'[y].pc # "idle" => x = y
    BY <1>2
  <2> QED BY <2>1, <2>2 DEF SweepsOK, OnWire
<1> QED BY <1>1, <1>2, <1>3 DEF OnWire

LEMMA EndPreserves ==
  ASSUME IInv, NEW w \in Sweep, End(w)
  PROVE  Preserved
<1>1. SweepsOK' /\ sweep' \in [Sweep -> SweepRecord]
  BY OneSweep, IdleSweepType DEF End, IdleSweep, OnWire
<1>2. \A r \in Request : ~Pending(r)
  BY NonePending DEF End
<1> QED BY <1>1, <1>2, NoRowStep DEF End, IInv, TypeOK, NoticeOK

LEMMA BeginPreserves ==
  ASSUME IInv, NEW w \in Sweep, NEW S \in SUBSET InStatus("sending"),
         NEW T \in SUBSET InStatus("retrying"), BeginWith(w, S, T)
  PROVE  Preserved
<1> DEFINE due == IF enabled THEN InStatus("queued") \cup S \cup T ELSE {}
           s == [IdleSweep EXCEPT !.pc = "due", !.due = due]
<1>0. row \in [Delivery -> Row] /\ S \subseteq Delivery /\ due \subseteq Delivery
  BY DEF IInv, TypeOK, InStatus
<1>1. row' = Stranded(S) /\ sweep' = [sweep EXCEPT ![w] = s]
      /\ \A x \in Sweep : sweep[x].pc = "idle"
  BY DEF BeginWith, MayBegin
<1> HIDE DEF due
<1>2. s \in SweepRecord /\ s.pc = "due"
  BY <1>0, IdleSweepType DEF SweepRecord, IdleSweep
<1>3. SweepsOK' /\ sweep' \in [Sweep -> SweepRecord]
  BY <1>1, <1>2, OneSweep DEF OnWire
<1>4. ASSUME NEW d \in Delivery
      PROVE  /\ row'[d] \in Row /\ row'[d].notice = row[d].notice
             /\ row[d].status # "sending" => row'[d] = row[d]
             /\ RowOK(row'[d], taken[d]) /\ Grows(row[d], row'[d])
  <2>1. /\ RowOK(row[d], taken[d]) /\ row[d] \in Row
        /\ row[d].client \in Nat /\ row[d].attempts \in Nat
    BY <1>0, ChannelAssumption DEF IInv, RowsOK, Row
  <2>2. CASE d \in S
    <3> DEFINE u == [row[d] EXCEPT !.status = "retrying"]
    <3>1. row'[d] = u /\ row[d].status = "sending"
      BY <1>1, <2>2 DEF Stranded, InStatus
    <3>2. /\ u \in Row /\ u.client = row[d].client /\ u.cooling = row[d].cooling
          /\ u.status = "retrying" /\ u.notice = row[d].notice /\ u.attempts = row[d].attempts
      BY <2>1 DEF Row, Status, ActiveStatus
    <3> HIDE DEF u
    <3>3. RowOK(u, taken[d])
      BY <2>1, <3>1, <3>2, StatusOK DEF AcceptedStatus
    <3>4. Grows(row[d], u)
      BY <2>1, <3>1, <3>2 DEF Grows, AcceptedStatus
    <3> QED BY <3>1, <3>2, <3>3, <3>4
  <2>3. CASE d \notin S
    BY <1>1, <2>1, <2>3 DEF Stranded, Grows
  <2> QED BY <2>2, <2>3
<1>5. row' \in [Delivery -> Row]
  BY <1>1, <1>4 DEF Stranded
<1>6. TypeOK' /\ RowsOK' /\ FreshOK' /\ NoticeOK'
  <2>1. UNCHANGED <<rows, enabled, wire, taken, shown, doubted, result, crashes>>
    BY DEF BeginWith, provider
  <2>2. TypeOK'
    BY <1>3, <1>5, <2>1 DEF IInv, TypeOK
  <2>3. RowsOK'
    BY <1>4, <2>1 DEF RowsOK
  <2>4. FreshOK'
    BY <1>4, <2>1 DEF IInv, FreshOK, NoRow
  <2>5. NoticeOK'
    BY <1>4, <2>1 DEF IInv, NoticeOK
  <2> QED BY <2>2, <2>3, <2>4, <2>5
<1>7. ReceiptsKept
  BY <1>4 DEF ReceiptsKept
<1>8. RequestsOK' /\ TwinsOK'
  <2>1. \A r \in Request : ~Pending(r)
    BY <1>1, NonePending DEF OnWire
  <2> QED BY <1>4, <1>5, <2>1, RequestsUndisturbed DEF BeginWith
<1> QED BY <1>3, <1>6, <1>7, <1>8 DEF Preserved, IInv

\* The request of an attempt is a new one.
LEMMA SendPreserves ==
  ASSUME IInv, NEW w \in Sweep, sweep[w].pc = "due", NEW d \in Delivery, NEW r,
         r = [row |-> d, client |-> row[d].client, nth |-> row[d].attempts + 1],
         Claimable(row[d]), row' = [row EXCEPT ![d] = Claimed(row[d])],
         sweep' = [sweep EXCEPT ![w] = [pc |-> "sent", due |-> @.due \ {d}, req |-> r]],
         wire' = wire \cup {r},
         UNCHANGED <<rows, enabled, taken, shown, doubted, result, crashes>>
  PROVE  Preserved
<1>0. /\ row \in [Delivery -> Row] /\ row[d] \in Row /\ RowOK(row[d], taken[d])
      /\ sweep \in [Sweep -> SweepRecord] /\ sweep[w] \in SweepRecord
      /\ row[d].attempts \in Nat /\ row[d].client \in Nat
      /\ wire \subseteq Request /\ shown \subseteq Request /\ doubted \subseteq Request
  BY ChannelAssumption DEF IInv, TypeOK, RowsOK, Row
<1>1. /\ r \in Request /\ r.row = d /\ r.client = row[d].client
      /\ r.nth = row[d].attempts + 1
  BY <1>0 DEF Request, Row
<1>2. r \notin wire \cup shown \cup doubted
  BY <1>0, <1>1 DEF IInv, RequestsOK, PastOf
<1>3. /\ Claimed(row[d]) \in Row /\ RowOK(Claimed(row[d]), taken[d])
      /\ Claimed(row[d]).status = "sending" /\ Claimed(row[d]).client = row[d].client
      /\ Claimed(row[d]).attempts = row[d].attempts + 1
      /\ Claimed(row[d]).notice = row[d].notice
  BY <1>0, ClaimedOK
<1>4. row'[d] = Claimed(row[d]) /\ \A e \in Delivery : e # d => row'[e] = row[e]
  BY <1>0
<1>5. PICK s \in SweepRecord : s = [pc |-> "sent", due |-> sweep[w].due \ {d}, req |-> r]
  BY <1>0, <1>1 DEF SweepRecord
<1>6. sweep' = [sweep EXCEPT ![w] = s] /\ s.pc = "sent" /\ s.req = r
  BY <1>5
<1>7. AwaitOK(s)'
  BY <1>0, <1>1, <1>3, <1>4, <1>6 DEF AwaitOK
<1>8. SweepsOK' /\ sweep' \in [Sweep -> SweepRecord] /\ sweep'[w] = s
  BY <1>5, <1>6, <1>7, OneSweep
<1>9. Kept(row[d], Claimed(row[d])) /\ row[d].status \notin AcceptedStatus \cup {"none"}
  BY DEF Claimable, Kept, AcceptedStatus
<1>10. TypeOK' /\ RowsOK' /\ FreshOK' /\ NoticeOK' /\ ReceiptsKept
  BY <1>0, <1>1, <1>3, <1>8, <1>9, OneRowStep
<1>11. \A q \in Request : ~Pending(q)
  BY NonePending
<1>12. Pending(r)'
  BY <1>6, <1>8 DEF Pending, OnWire
<1>13. ASSUME NEW q \in wire \cup shown \cup doubted
       PROVE  /\ PastOf(row'[q.row], q)
              /\ Settled(row[q.row], q) => Settled(row'[q.row], q)
  <2>1. q \in Request /\ q.row \in Delivery /\ PastOf(row[q.row], q)
    BY <1>0 DEF Request, IInv, RequestsOK
  <2>2. CASE q.row = d
    <3>1. Grows(row[d], row'[d])
      BY <1>0, <1>3, <1>4, <1>9 DEF Grows
    <3> QED BY <1>0, <1>3, <1>4, <2>1, <2>2, <3>1, PastGrows
  <2>3. CASE q.row # d
    BY <1>4, <2>1, <2>3
  <2> QED BY <2>2, <2>3
<1>14. PastOf(row'[d], r)
  BY <1>0, <1>1, <1>3, <1>4 DEF PastOf
<1>15. RequestsOK'
  <2>1. \A q \in wire' \cup shown' \cup doubted' : PastOf(row'[q.row], q)
    BY <1>1, <1>13, <1>14
  <2>2. \A q \in wire' : q \notin shown' /\ (Pending(q)' \/ q \in doubted')
    BY <1>0, <1>2, <1>11, <1>12 DEF IInv, RequestsOK
  <2>3. \A q \in shown' : q.client \in taken'[q.row]
    BY DEF IInv, RequestsOK
  <2>4. \A q \in shown' \ doubted' : Settled(row'[q.row], q)
    BY <1>0, <1>11, <1>13 DEF IInv, RequestsOK
  <2> QED BY <2>1, <2>2, <2>3, <2>4 DEF RequestsOK
<1>16. TwinsOK'
  BY DEF IInv, TwinsOK
<1> QED BY <1>8, <1>10, <1>15, <1>16 DEF Preserved, IInv

LEMMA AttemptPreserves ==
  ASSUME IInv, NEW w \in Sweep, Attempt(w)
  PROVE  Preserved
<1>0. /\ sweep \in [Sweep -> SweepRecord]
      /\ sweep[w] \in SweepRecord /\ sweep[w].pc = "due"
      /\ UNCHANGED <<rows, enabled, taken, shown, doubted, result, crashes>>
  BY DEF IInv, TypeOK, Attempt
<1>1. ASSUME NEW d \in Delivery, row' = row, wire' = wire,
             sweep' = [sweep EXCEPT ![w].due = @ \ {d}]
      PROVE  Preserved
  <2> DEFINE s == [sweep[w] EXCEPT !.due = @ \ {d}]
  <2>1. s \in SweepRecord /\ s.pc = "due"
    BY <1>0 DEF SweepRecord
  <2>2. sweep' = [sweep EXCEPT ![w] = s]
    BY <1>1
  <2> HIDE DEF s
  <2>3. SweepsOK' /\ sweep' \in [Sweep -> SweepRecord]
    BY <1>0, <2>1, <2>2, OneSweep DEF OnWire
  <2>4. \A r \in Request : ~Pending(r)
    BY <1>0, NonePending
  <2> QED BY <1>0, <1>1, <2>3, <2>4, NoRowStep DEF IInv, TypeOK, NoticeOK, provider
<1> QED BY <1>0, <1>1, SendPreserves DEF Attempt, IdempotencyKey

\* A request that somebody awaits is that of the row as it is, and the only one.
LEMMA PendingIsPresent ==
  ASSUME IInv, NEW r \in Request, Pending(r)
  PROVE  /\ row[r.row].status = "sending" /\ r.client = row[r.row].client
         /\ \A q \in Request : Pending(q) => q = r
  BY DEF Pending, IInv, SweepsOK, AwaitOK, OnWire

LEMMA AcceptPreserves ==
  ASSUME IInv, NEW r \in wire, Accept(r)
  PROVE  Preserved
<1> DEFINE d == r.row
           c == r.client
<1>0. /\ r \in Request /\ d \in Delivery /\ c \in 0..MaxRetries
      /\ wire \subseteq Request /\ shown \subseteq Request /\ doubted \subseteq Request
      /\ taken \in [Delivery -> SUBSET (0..MaxRetries)] /\ row \in [Delivery -> Row]
      /\ sweep \in [Sweep -> SweepRecord]
      /\ row[d].client \in Nat /\ c \in Nat /\ r.nth \in Nat /\ row[d].attempts \in Nat
  BY ChannelAssumption DEF IInv, TypeOK, Request, Row
<1>1. /\ wire' = wire \ {r} /\ doubted' = doubted
      /\ taken' = [taken EXCEPT ![d] = @ \cup {c}]
      /\ shown' = IF ProviderDedupes /\ c \in taken[d] THEN shown ELSE shown \cup {r}
      /\ UNCHANGED <<rows, row, enabled, doubted, result, crashes>>
  BY DEF Accept
<1>2. PastOf(row[d], r)
  BY DEF IInv, RequestsOK
<1>3. ASSUME NEW w \in Sweep
      PROVE  /\ sweep'[w] \in SweepRecord /\ sweep'[w].req = sweep[w].req
             /\ OnWire(sweep'[w]) <=> OnWire(sweep[w])
             /\ sweep'[w].pc = "idle" <=> sweep[w].pc = "idle"
             /\ sweep'[w].pc = "sent" => sweep[w].pc = "sent" /\ sweep[w].req # r
             /\ sweep'[w].pc = "accepted" =>
                   sweep[w].pc = "accepted" \/ (sweep[w].pc = "sent" /\ sweep[w].req = r)
  <2>1. sweep[w] \in SweepRecord
    BY <1>0
  <2>2. sweep'[w] = IF sweep[w].pc = "sent" /\ sweep[w].req = r
                    THEN [sweep[w] EXCEPT !.pc = "accepted"] ELSE sweep[w]
    BY DEF Accept
  <2>3. CASE sweep[w].pc = "sent" /\ sweep[w].req = r
    <3>1. /\ sweep'[w] \in SweepRecord /\ sweep'[w].req = sweep[w].req
          /\ sweep'[w].pc = "accepted"
      BY <2>1, <2>2, <2>3 DEF SweepRecord
    <3> QED BY <2>3, <3>1 DEF OnWire
  <2>4. CASE ~(sweep[w].pc = "sent" /\ sweep[w].req = r)
    <3>1. sweep'[w] = sweep[w]
      BY <2>2, <2>4
    <3> QED BY <2>1, <2>4, <3>1
  <2> QED BY <2>3, <2>4
<1>4. sweep' \in [Sweep -> SweepRecord]
  BY <1>3 DEF Accept
<1>5. \A q \in Request : Pending(q)' <=> Pending(q)
  BY <1>3 DEF Pending
<1> HIDE DEF d, c
<1>6. /\ taken' \in [Delivery -> SUBSET (0..MaxRetries)] /\ taken'[d] = taken[d] \cup {c}
      /\ \A e \in Delivery : e # d => taken'[e] = taken[e]
      /\ \A e \in Delivery : taken[e] \subseteq taken'[e]
  BY <1>0, <1>1
<1>7. TypeOK'
  BY <1>0, <1>1, <1>4, <1>6 DEF IInv, TypeOK
<1>8. RowsOK'
  <2>1. RowOK(row[d], taken[d]) /\ row[d].status = "queued" => row[d].attempts = 0
    BY <1>0 DEF IInv, RowsOK, RowOK
  <2>2. row[d].status = "queued" => c # row[d].client
    BY <1>0, <1>2, <2>1, <1>0 DEF PastOf, IInv, RowsOK, RowOK, c
  <2>3. c <= row[d].client
    BY <1>2 DEF PastOf, c
  <2>4. RowOK(row[d], taken[d])
    BY <1>0 DEF IInv, RowsOK
  <2>5. RowOK(row[d], taken'[d])
    BY <1>6, <2>2, <2>3, <2>4 DEF RowOK
  <2> QED BY <1>1, <1>6, <2>5 DEF IInv, RowsOK
<1>9. SweepsOK'
  <2>1. ASSUME NEW w \in Sweep, OnWire(sweep'[w])
        PROVE  AwaitOK(sweep[w])'
    <3>1. AwaitOK(sweep[w]) /\ sweep[w].req.row \in Delivery
      BY <1>0, <1>3, <2>1 DEF IInv, SweepsOK, SweepRecord, Request
    <3>2. sweep'[w].pc = "sent" => sweep'[w].req \in wire'
      BY <1>1, <1>3, <3>1 DEF AwaitOK
    <3>3. sweep'[w].pc = "accepted" =>
            sweep'[w].req \notin wire' /\ sweep'[w].req.client \in taken'[sweep'[w].req.row]
      BY <1>1, <1>3, <1>6, <3>1 DEF AwaitOK, c, d
    <3> QED BY <1>1, <1>3, <3>1, <3>2, <3>3 DEF AwaitOK
  <2>2. \A x, y \in Sweep : sweep'[x].pc # "idle" /\ sweep'[y].pc # "idle" => x = y
    BY <1>3 DEF IInv, SweepsOK
  <2> QED BY <2>1, <2>2 DEF SweepsOK, OnWire
<1>10. RequestsOK'
  <2>1. shown' \subseteq shown \cup {r}
    BY <1>1
  <2>2. \A q \in wire' \cup shown' \cup doubted' : PastOf(row'[q.row], q)
    BY <1>1, <2>1 DEF IInv, RequestsOK
  <2>3. \A q \in wire' : q \notin shown' /\ (Pending(q)' \/ q \in doubted')
    BY <1>0, <1>1, <1>5, <2>1 DEF IInv, RequestsOK
  <2>4. \A q \in shown' : q.client \in taken'[q.row]
    <3>1. \A q \in shown : q.row \in Delivery
      BY <1>0 DEF Request
    <3> QED BY <1>6, <2>1, <3>1 DEF IInv, RequestsOK, c, d
  <2>5. \A q \in shown' \ doubted' : Pending(q)' \/ Settled(row'[q.row], q)
    BY <1>0, <1>1, <1>5, <2>1 DEF IInv, RequestsOK
  <2> QED BY <2>2, <2>3, <2>4, <2>5 DEF RequestsOK
<1>11. TwinsOK'
  <2>1. ASSUME NEW q \in shown, q # r, Twins(q, r), r \in shown'
        PROVE  ~ProviderDedupes /\ (q \in doubted \/ r \in doubted)
    <3>1. q \in Request /\ q.row = d /\ q.client = c /\ q.client \in taken[q.row]
      BY <1>0, <2>1 DEF IInv, RequestsOK, Twins, c, d
    <3>2. r \notin shown
      BY DEF IInv, RequestsOK
    <3>3. ~ProviderDedupes
      BY <1>1, <2>1, <3>1, <3>2
    <3>4. ASSUME q \notin doubted, r \notin doubted
          PROVE  FALSE
      <4>1. Pending(r)
        BY <3>4 DEF IInv, RequestsOK
      <4>2. row[d].status = "sending" /\ c = row[d].client
            /\ \A x \in Request : Pending(x) => x = r
        BY <1>0, <4>1, PendingIsPresent DEF c, d
      <4>3. ~Settled(row[q.row], q)
        BY <1>0, <3>1, <4>2 DEF Settled, AcceptedStatus
      <4>4. Pending(q)
        BY <3>4, <4>3 DEF IInv, RequestsOK
      <4> QED BY <2>1, <3>1, <4>2, <4>4
    <3> QED BY <3>3, <3>4
  <2>2. \A x, y \in shown' : (x \in shown /\ y \in shown) \/ x = r \/ y = r
    BY <1>1
  <2>3. \A x, y : Twins(x, y) <=> Twins(y, x)
    BY DEF Twins
  <2> QED BY <1>1, <2>1, <2>2, <2>3 DEF IInv, TwinsOK
<1>12. FreshOK'
  <2>1. ~(d > rows)
    BY <1>0, <1>2 DEF IInv, FreshOK, NoRow, PastOf
  <2> QED BY <1>0, <1>1, <1>6, <2>1 DEF IInv, FreshOK
<1>13. NoticeOK' /\ ReceiptsKept
  BY <1>1 DEF IInv, NoticeOK, ReceiptsKept
<1> QED BY <1>7, <1>8, <1>9, <1>10, <1>11, <1>12, <1>13 DEF Preserved, IInv

\* What an answer makes of its row, and what becomes of the request.
AnswerOf(d, r, accepted) ==
    \/ /\ accepted
       /\ \E confirmed \in BOOLEAN : row' = [row EXCEPT ![d] = Receipted(row[d], confirmed)]
       /\ UNCHANGED <<wire, doubted>>
    \/ /\ \E retryable \in BOOLEAN : row' = [row EXCEPT ![d] = Failed(row[d], retryable)]
       /\ \/ ~accepted /\ wire' = wire \ {r} /\ doubted' = doubted
          \/ wire' = wire /\ doubted' = doubted \cup {r}

LEMMA AnswerFacts ==
  ASSUME IInv, NEW w \in Sweep, Answer(w), NEW r, r = sweep[w].req
  PROVE  /\ AnswerOf(r.row, r, sweep[w].pc = "accepted")
         /\ OnWire(sweep[w]) /\ AwaitOK(sweep[w]) /\ r \in Request /\ Pending(r)
         /\ PastOf(row[r.row], r)
         /\ UNCHANGED <<rows, enabled, taken, shown, result, crashes>>
         /\ SweepsOK' /\ sweep' \in [Sweep -> SweepRecord]
         /\ \A x \in Sweep : ~OnWire(sweep'[x])
<1> DEFINE s == [sweep[w] EXCEPT !.pc = "due", !.req = NoRequest]
<1>0. /\ sweep \in [Sweep -> SweepRecord] /\ sweep[w] \in SweepRecord
      /\ OnWire(sweep[w]) /\ sweep' = [sweep EXCEPT ![w] = s]
      /\ UNCHANGED <<rows, enabled, taken, shown, result, crashes>>
  BY DEF IInv, TypeOK, Answer, OnWire, Proceed
<1>1. AwaitOK(sweep[w]) /\ r \in Request /\ Pending(r)
  BY <1>0 DEF IInv, SweepsOK, SweepRecord, Pending
<1>2. s \in SweepRecord /\ s.pc = "due"
  BY <1>0, IdleSweepType DEF SweepRecord
<1>3. AnswerOf(r.row, r, sweep[w].pc = "accepted")
  BY DEF Answer, AnswerOf
<1> HIDE DEF s
<1>4. /\ SweepsOK' /\ sweep' \in [Sweep -> SweepRecord] /\ sweep'[w] = s
      /\ \A x \in Sweep : x # w => ~OnWire(sweep'[x])
  BY <1>0, <1>2, OneSweep DEF OnWire
<1>5. \A x \in Sweep : ~OnWire(sweep'[x])
  BY <1>2, <1>4 DEF OnWire
<1>6. PastOf(row[r.row], r)
  <2>1. r.client \in Nat /\ r.nth \in Nat
    BY <1>1, ChannelAssumption DEF Request
  <2> QED BY <1>1, <2>1 DEF AwaitOK, PastOf
<1> QED BY <1>0, <1>1, <1>3, <1>4, <1>5, <1>6

LEMMA AnswerPreserves ==
  ASSUME IInv, NEW w \in Sweep, Answer(w)
  PROVE  Preserved
<1> DEFINE r == sweep[w].req
           d == r.row
<1>1. /\ AnswerOf(d, r, sweep[w].pc = "accepted")
      /\ OnWire(sweep[w]) /\ AwaitOK(sweep[w]) /\ r \in Request /\ Pending(r)
      /\ PastOf(row[d], r)
      /\ UNCHANGED <<rows, enabled, taken, shown, result, crashes>>
      /\ SweepsOK' /\ sweep' \in [Sweep -> SweepRecord]
      /\ \A x \in Sweep : ~OnWire(sweep'[x])
  BY AnswerFacts
<1>2. /\ row \in [Delivery -> Row] /\ d \in Delivery /\ row[d] \in Row
      /\ RowOK(row[d], taken[d]) /\ row[d].client \in Nat /\ row[d].attempts \in Nat
      /\ wire \subseteq Request /\ shown \subseteq Request /\ doubted \subseteq Request
  BY <1>1, ChannelAssumption DEF IInv, TypeOK, Request, RowsOK, Row
<1>3. /\ row[d].status = "sending" /\ r.client = row[d].client
      /\ sweep[w].pc = "accepted" => row[d].client \in taken[d] /\ r \notin wire
      /\ sweep[w].pc # "accepted" => r \in wire
  BY <1>1 DEF AwaitOK, OnWire
<1>4. PICK v \in Row :
        /\ row' = [row EXCEPT ![d] = v]
        /\ RowOK(v, taken[d]) /\ v.notice = row[d].notice
        /\ v.client = row[d].client /\ v.attempts = row[d].attempts /\ v.status # "none"
        /\ \/ v.status \in AcceptedStatus /\ wire' = wire /\ doubted' = doubted /\ r \notin wire
           \/ wire' = wire \ {r} /\ doubted' = doubted /\ r \in wire
           \/ wire' = wire /\ doubted' = doubted \cup {r}
  <2>1. ASSUME NEW confirmed \in BOOLEAN, sweep[w].pc = "accepted",
               row' = [row EXCEPT ![d] = Receipted(row[d], confirmed)],
               wire' = wire /\ doubted' = doubted
        PROVE  \E v \in Row :
                 /\ row' = [row EXCEPT ![d] = v]
                 /\ RowOK(v, taken[d]) /\ v.notice = row[d].notice
                 /\ v.client = row[d].client /\ v.attempts = row[d].attempts
                 /\ v.status \in AcceptedStatus
    BY <1>2, <1>3, <2>1, ReceiptedOK
  <2>2. ASSUME NEW retryable \in BOOLEAN,
               row' = [row EXCEPT ![d] = Failed(row[d], retryable)]
        PROVE  \E v \in Row :
                 /\ row' = [row EXCEPT ![d] = v]
                 /\ RowOK(v, taken[d]) /\ v.notice = row[d].notice
                 /\ v.client = row[d].client /\ v.attempts = row[d].attempts
                 /\ v.status \in {"retrying", "failed_terminal"}
    BY <1>2, <1>3, <2>2, FailedOK
  <2> HIDE DEF d, r
  <2> QED BY <1>1, <1>3, <2>1, <2>2 DEF AnswerOf, AcceptedStatus
<1> HIDE DEF d, r
<1>5. row'[d] = v /\ \A e \in Delivery : e # d => row'[e] = row[e]
  BY <1>2, <1>4
<1>6. TypeOK' /\ RowsOK' /\ FreshOK' /\ NoticeOK' /\ ReceiptsKept
  <2>1. Kept(row[d], v)
    BY <1>3 DEF Kept
  <2>2. wire' \subseteq Request /\ doubted' \subseteq Request
    BY <1>1, <1>2, <1>4
  <2> QED BY <1>1, <1>2, <1>3, <1>4, <2>1, <2>2, OneRowStep
<1>7. \A q \in Request : ~Pending(q)' /\ (Pending(q) => q = r)
  BY <1>1, PendingIsPresent DEF Pending
<1>8. ASSUME NEW q \in Request, PastOf(row[q.row], q)
      PROVE  PastOf(row'[q.row], q) /\ (Settled(row[q.row], q) => Settled(row'[q.row], q))
  <2>1. q.row \in Delivery
    BY DEF Request
  <2>2. CASE q.row = d
    <3>1. Grows(row[d], v)
      BY <1>2, <1>3, <1>4 DEF Grows, AcceptedStatus
    <3> QED BY <1>2, <1>4, <1>5, <1>8, <2>2, <3>1, PastGrows
  <2>3. CASE q.row # d
    BY <1>5, <1>8, <2>1, <2>3
  <2> QED BY <2>2, <2>3
<1>9. RequestsOK'
  <2>0. r.row = d
    BY DEF d
  <2>1. \A q \in wire' \cup shown' \cup doubted' : PastOf(row'[q.row], q)
    <3>1. \A q \in wire' \cup shown' \cup doubted' : q \in wire \cup shown \cup doubted \cup {r}
      BY <1>1, <1>4
    <3>2. \A q \in wire \cup shown \cup doubted : q \in Request /\ PastOf(row[q.row], q)
      BY <1>2 DEF IInv, RequestsOK
    <3> QED BY <1>1, <1>8, <2>0, <3>1, <3>2
  <2>2. \A q \in wire' : q \notin shown' /\ (Pending(q)' \/ q \in doubted')
    BY <1>1, <1>2, <1>4, <1>7 DEF IInv, RequestsOK
  <2>3. \A q \in shown' : q.client \in taken'[q.row]
    BY <1>1 DEF IInv, RequestsOK
  <2>4. ASSUME NEW q \in shown' \ doubted'
        PROVE  Settled(row'[q.row], q)
    <3>1. q \in Request /\ q \in shown /\ q \notin doubted /\ PastOf(row[q.row], q)
      BY <1>1, <1>2, <1>4 DEF IInv, RequestsOK
    <3>2. CASE Pending(q)
      <4>1. q = r /\ q \notin wire
        BY <1>7, <3>1, <3>2 DEF IInv, RequestsOK
      <4>2. v.status \in AcceptedStatus
        BY <1>4, <2>4, <4>1
      <4> QED BY <1>5, <2>0, <4>1, <4>2 DEF Settled
    <3>3. CASE ~Pending(q)
      <4>1. Settled(row[q.row], q)
        BY <3>1, <3>3 DEF IInv, RequestsOK
      <4> QED BY <1>8, <3>1, <4>1
    <3> QED BY <3>2, <3>3
  <2> QED BY <2>1, <2>2, <2>3, <2>4 DEF RequestsOK
<1>10. TwinsOK'
  BY <1>1, <1>4 DEF IInv, TwinsOK
<1> QED BY <1>1, <1>6, <1>9, <1>10 DEF Preserved, IInv

LEMMA NextPreserves ==
  ASSUME IInv, [Next]_vars
  PROVE  Preserved
<1>0. rows \in Nat /\ MaxRows \in Nat
  BY ChannelAssumption DEF IInv, TypeOK
<1>1. CASE Toggle \/ InvocationEnds \/ ClaimNotice \/ UNCHANGED vars
  BY <1>1, ResultStepsPreserve
<1>2. CASE Enqueue \/ \E d \in Delivery : Resend(d)
  <2>1. /\ rows < MaxRows /\ Append(FALSE)
        /\ UNCHANGED <<enabled, sweep, provider, result, crashes>>
    <3>1. HasRoom => rows < MaxRows
      BY <1>0 DEF HasRoom
    <3> QED BY <1>2, <3>1 DEF Enqueue, Resend
  <2> QED BY <2>1, AppendPreserves
<1>3. CASE EnqueueNotice
  <2>1. result.hook = "enqueue" /\ UNCHANGED <<enabled, sweep, provider, crashes>>
    BY <1>3 DEF EnqueueNotice
  <2>2. CASE rows < MaxRows /\ Append(TRUE) /\ result' = [result EXCEPT !.hook = "none"]
    BY <2>1, <2>2, AppendPreserves
  <2>3. CASE /\ UNCHANGED <<rows, row>>
             /\ \/ result' = [result EXCEPT !.hook = "none"]
                \/ result' = [result EXCEPT !.hook = "none", !.claimed = FALSE]
    <3>1. result' \in ResultRecord /\ result'.hook = "none"
      BY <2>3 DEF IInv, TypeOK, ResultRecord
    <3>2. \A d \in Delivery : ~row[d].notice
      BY <2>1 DEF IInv, NoticeOK
    <3>3. SweepsOK' /\ \A r \in Request : Pending(r) => Pending(r)'
      BY <2>1, <2>3 DEF IInv, SweepsOK, AwaitOK, provider, Pending
    <3> QED BY <2>1, <2>3, <3>1, <3>2, <3>3, NoRowStep DEF IInv, TypeOK
  <2> QED BY <1>3, <2>2, <2>3 DEF EnqueueNotice
<1>4. ASSUME NEW d \in Delivery, Retry(d) \/ Acknowledge(d) \/ CooldownEnds(d)
      PROVE  Preserved
  BY <1>4, PeopleStepPreserves
<1>5. ASSUME NEW w \in Sweep, SweepStep(w)
      PROVE  Preserved
  BY <1>5, BeginPreserves, AttemptPreserves, AnswerPreserves, EndPreserves
     DEF SweepStep, Begin
<1>6. CASE Crash \/ \E r \in wire : Accept(r)
  BY <1>6, CrashPreserves, AcceptPreserves
<1> QED BY <1>1, <1>2, <1>3, <1>4, <1>5, <1>6 DEF Next, PeopleStep, NoticeStep

LEMMA InitOK ==
  ASSUME Init
  PROVE  IInv
<1>0. 0 \in 0..MaxRows /\ 0 \in 0..MaxCrashes
  BY ChannelAssumption
<1>1. TypeOK
  BY <1>0, NewRowType, IdleSweepType DEF Init, TypeOK, ResultRecord
<1>2. RowsOK
  BY DEF Init, RowsOK, RowOK, NoRow, AcceptedStatus
<1>3. SweepsOK
  BY DEF Init, SweepsOK, OnWire, IdleSweep
<1>4. RequestsOK /\ TwinsOK
  BY DEF Init, RequestsOK, TwinsOK
<1>5. FreshOK /\ NoticeOK
  BY DEF Init, FreshOK, NoticeOK, NoRow
<1> QED BY <1>1, <1>2, <1>3, <1>4, <1>5 DEF IInv

-----------------------------------------------------------------------------
(* Theorems.                                                               *)

\* The values of the variables are always of their types.
THEOREM ChannelTypeOK == Spec => []TypeOK
<1>1. Init => IInv
  BY InitOK
<1>2. IInv /\ [Next]_vars => IInv'
  BY NextPreserves DEF Preserved
<1>3. IInv => TypeOK
  BY DEF IInv
<1> QED BY <1>1, <1>2, <1>3, PTL DEF Spec

\* A receipt stands for a request that the provider took, and a row that waits for its
\* first attempt has a client id the provider has not seen (channel-delivery.mjs:351-363,
\* 700-705).
THEOREM ChannelReceiptsTrue == Spec => []ReceiptsTrue
<1>1. Init => IInv
  BY InitOK
<1>2. IInv /\ [Next]_vars => IInv'
  BY NextPreserves DEF Preserved
<1>3. IInv => ReceiptsTrue
  BY DEF IInv, RowsOK, RowOK, ReceiptsTrue
<1> QED BY <1>1, <1>2, <1>3, PTL DEF Spec

\* A receipt is final but for a human who confirms it or asks again
\* (channel-delivery.mjs:335-341, 442, 668-670, 845).
THEOREM ChannelReceiptsFinal == Spec => ReceiptsFinal
<1>1. Init => IInv
  BY InitOK
<1>2. IInv /\ [Next]_vars => IInv'
  BY NextPreserves DEF Preserved
<1>3. IInv /\ [Next]_vars => [ReceiptsKept]_vars
  BY NextPreserves DEF Preserved
<1> QED BY <1>1, <1>2, <1>3, PTL DEF Spec, ReceiptsFinal, ReceiptsKept

\* For one time a human asked for it, a row is shown once, and again only when the server
\* was left without an answer and the provider is not sent a client id; the result of an
\* invocation has one row (channel-delivery.mjs:300-309, 335-346, 442-467).
THEOREM ChannelShownAsAsked == Spec => []ShownAsAsked
<1>1. Init => IInv
  BY InitOK
<1>2. IInv /\ [Next]_vars => IInv'
  BY NextPreserves DEF Preserved
<1>3. IInv => ShownAsAsked
  <2>1. SUFFICES ASSUME IInv PROVE ShownAsAsked
    OBVIOUS
  <2> DEFINE Live == {d \in Delivery : row[d].notice /\ row[d].status # "failed_terminal"}
  <2>2. Cardinality(Live) <= 1
    <3>1. CASE Live = {}
      BY <3>1, FS_EmptySet
    <3>2. ASSUME NEW d \in Live PROVE Cardinality(Live) <= 1
      <4>1. Live = {d}
        BY <2>1, <3>2 DEF IInv, NoticeOK
      <4> QED BY <4>1, FS_Singleton
    <3> QED BY <3>1, <3>2
  <2>3. TwinsOK
    BY <2>1 DEF IInv
  <2> QED BY <2>2, <2>3 DEF ShownAsAsked, TwinsOK, Twins
<1> QED BY <1>1, <1>2, <1>3, PTL DEF Spec

-----------------------------------------------------------------------------
(* The rows implement an outbox.                                            *)

AskedOf(v) == IF v.status = "none" THEN 0 ELSE v.client + 1

Asked == [d \in Delivery |-> AskedOf(row[d])]
Awaits == [d \in Delivery |-> Awaited(d)]
Receipts == [d \in Delivery |-> Receipt(row[d])]

LEMMA BoxVars ==
  /\ Box!vars = <<Asked, Awaits, wire, shown, doubted, Receipts>>
  /\ Box!vars' = <<Asked', Awaits', wire', shown', doubted', Receipts'>>
  BY DEF Box!vars, Asked, Awaits, Receipts, AskedOf

NoneAwaited == [d \in Delivery |-> NoRequest]

\* Whose answer is awaited, in terms of the sweep under way.
LEMMA AwaitsNone == (\A w \in Sweep : ~OnWire(sweep[w])) => Awaits = NoneAwaited
  BY DEF Awaits, Awaited, NoneAwaited

AwaitsThat(r) == r # NoRequest /\ Awaits = [NoneAwaited EXCEPT ![r.row] = r]

LEMMA AwaitsOne == IInv => \A w \in Sweep : OnWire(sweep[w]) => AwaitsThat(sweep[w].req)
<1> SUFFICES ASSUME IInv, NEW w \in Sweep, OnWire(sweep[w])
             PROVE  AwaitsThat(sweep[w].req)
  OBVIOUS
<1> DEFINE r == sweep[w].req
<1>1. AwaitOK(sweep[w]) /\ r \in Request /\ r.row \in Delivery
  BY DEF IInv, SweepsOK, TypeOK, SweepRecord, Request
<1>2. r # NoRequest
  BY <1>1 DEF AwaitOK, NoRequest
<1>3. Awaited(r.row) = r
  BY <1>1 DEF Awaited, AwaitOK, Request
<1>4. \A d \in Delivery : d # r.row => Awaited(d) = NoRequest
  BY DEF Awaited, IInv, SweepsOK, OnWire
<1>5. Awaits = [NoneAwaited EXCEPT ![r.row] = r]
  BY <1>1, <1>3, <1>4 DEF Awaits, NoneAwaited
<1> QED BY <1>1, <1>2, <1>5 DEF AwaitsThat

LEMMA AwaitsNoneNext ==
  ASSUME \A w \in Sweep : ~OnWire(sweep'[w])
  PROVE  Awaits' = NoneAwaited
  BY DEF Awaits, Awaited, NoneAwaited

LEMMA AwaitsOneNext ==
  ASSUME IInv', NEW x \in Sweep, NEW r, OnWire(sweep'[x]), r = sweep'[x].req
  PROVE  AwaitsThat(r)'
<1>1. (IInv => \A w \in Sweep : OnWire(sweep[w]) => AwaitsThat(sweep[w].req))'
  BY AwaitsOne, PTL
<1> QED BY <1>1 DEF AwaitsThat, NoneAwaited, OnWire

\* The awaited requests stay as they are while the sweeps and their rows do.
LEMMA SameAwaits ==
  ASSUME \A w \in Sweep : /\ OnWire(sweep'[w]) <=> OnWire(sweep[w])
                          /\ OnWire(sweep[w]) =>
                                /\ sweep'[w].req = sweep[w].req
                                /\ row'[sweep[w].req.row] = row[sweep[w].req.row]
  PROVE  Awaits' = Awaits
<1>1. ASSUME NEW d \in Delivery
      PROVE  Awaited(d)' = Awaited(d)
  BY DEF Awaited
<1> QED BY <1>1 DEF Awaits

LEMMA SameBox ==
  ASSUME UNCHANGED <<row, sweep, provider>>
  PROVE  UNCHANGED Box!vars
<1>1. Awaits' = Awaits
  BY SameAwaits
<1> QED BY <1>1, BoxVars DEF Asked, Receipts, provider

\* A step of a person or of the notification is one of three, as an outbox sees it.
LEMMA OneRowBoxed ==
  ASSUME IInv, NEW d \in Delivery, NEW v \in Row, row' = [row EXCEPT ![d] = v],
         UNCHANGED <<sweep, provider>>, row[d].status # "sending",
         \/ Receipt(v) = Receipt(row[d]) /\ AskedOf(v) = AskedOf(row[d])
         \/ /\ row[d].status \in {"none", "failed_terminal", "sent_unconfirmed"}
            /\ v.status = "queued" /\ AskedOf(v) = AskedOf(row[d]) + 1
         \/ /\ row[d].status = "sent_unconfirmed" /\ v.status = "delivered"
            /\ AskedOf(v) = AskedOf(row[d])
  PROVE  [Box!Next]_(Box!vars)
<1>1. /\ Asked' = [Asked EXCEPT ![d] = AskedOf(v)]
      /\ Receipts' = [Receipts EXCEPT ![d] = Receipt(v)]
      /\ Asked[d] = AskedOf(row[d]) /\ Receipts[d] = Receipt(row[d])
      /\ DOMAIN Asked = Delivery /\ DOMAIN Receipts = Delivery
  BY DEF Asked, Receipts, IInv, TypeOK
<1>2. Awaits' = Awaits
  <2>1. ASSUME NEW w \in Sweep, OnWire(sweep[w])
        PROVE  row'[sweep[w].req.row] = row[sweep[w].req.row]
    <3>1. AwaitOK(sweep[w])
      BY <2>1 DEF IInv, SweepsOK
    <3>2. sweep[w].req.row # d
      BY <3>1 DEF AwaitOK
    <3> QED BY <3>2 DEF IInv, TypeOK
  <2> QED BY <2>1, SameAwaits
<1>3. wire' = wire /\ shown' = shown /\ doubted' = doubted
  BY DEF provider
<1>4. CASE Receipt(v) = Receipt(row[d]) /\ AskedOf(v) = AskedOf(row[d])
  <2>1. Asked' = Asked /\ Receipts' = Receipts
    BY <1>1, <1>4 DEF Asked, Receipts
  <2> QED BY <1>2, <1>3, <2>1, BoxVars
<1>5. CASE /\ row[d].status \in {"none", "failed_terminal", "sent_unconfirmed"}
           /\ v.status = "queued" /\ AskedOf(v) = AskedOf(row[d]) + 1
  <2>1. Receipt(v) = "open" /\ Receipt(row[d]) \in {"none", "failed", "unconfirmed"}
    BY <1>5 DEF Receipt, ActiveStatus
  <2>2. Box!Ask(d)
    BY <1>1, <1>2, <1>3, <1>5, <2>1 DEF Box!Ask, Asked, Awaits, Receipts, AskedOf
  <2> QED BY <2>2 DEF Box!Next
<1>6. CASE /\ row[d].status = "sent_unconfirmed" /\ v.status = "delivered"
           /\ AskedOf(v) = AskedOf(row[d])
  <2>1. Receipt(row[d]) = "unconfirmed" /\ Receipt(v) = "delivered"
    BY <1>6 DEF Receipt, ActiveStatus
  <2>2. Asked' = Asked
    BY <1>1, <1>6 DEF Asked
  <2>3. Box!Confirm(d)
    BY <1>1, <1>2, <1>3, <2>1, <2>2 DEF Box!Confirm, Asked, Awaits, Receipts, AskedOf
  <2> QED BY <2>3 DEF Box!Next
<1> QED BY <1>4, <1>5, <1>6

LEMMA AppendBoxed ==
  ASSUME IInv, NEW notice \in BOOLEAN, rows < MaxRows, Append(notice),
         UNCHANGED <<sweep, provider>>
  PROVE  [Box!Next]_(Box!vars)
<1> DEFINE n == rows + 1
<1>1. n \in Delivery /\ n > rows
  BY ChannelAssumption DEF IInv, TypeOK, Delivery
<1>2. row[n] = NoRow
  BY <1>1 DEF IInv, FreshOK
<1>3. /\ row' = [row EXCEPT ![n] = NewRow(notice)] /\ NewRow(notice) \in Row
      /\ NewRow(notice).status = "queued" /\ NewRow(notice).client = 0
  BY NewRowType DEF Append, NewRow, NoRow
<1>4. AskedOf(NewRow(notice)) = AskedOf(row[n]) + 1 /\ row[n].status = "none"
  BY <1>2, <1>3 DEF AskedOf, NoRow
<1> HIDE DEF n
<1> QED BY <1>1, <1>3, <1>4, OneRowBoxed

LEMMA PeopleStepBoxed ==
  ASSUME IInv, NEW d \in Delivery, Retry(d) \/ Acknowledge(d) \/ CooldownEnds(d)
  PROVE  [Box!Next]_(Box!vars)
<1>0. /\ row[d] \in Row /\ taken[d] \in SUBSET (0..MaxRetries)
      /\ RowOK(row[d], taken[d]) /\ row[d].client \in Nat
  BY ChannelAssumption DEF IInv, TypeOK, RowsOK, Row
<1>1. CASE Retry(d)
  <2> DEFINE v == Requeued(row[d])
  <2>1. /\ row' = [row EXCEPT ![d] = v] /\ UNCHANGED <<sweep, provider>>
        /\ row[d].client < MaxRetries /\ ~row[d].cooling
        /\ row[d].status \in {"failed_terminal", "sent_unconfirmed"}
    BY <1>1 DEF Retry
  <2>2. v \in Row /\ v.status = "queued" /\ v.client = row[d].client + 1
    BY <1>0, <2>1, RequeuedOK
  <2> HIDE DEF v
  <2>3. AskedOf(v) = AskedOf(row[d]) + 1
    BY <1>0, <2>1, <2>2 DEF AskedOf
  <2> QED BY <2>1, <2>2, <2>3, OneRowBoxed
<1>2. CASE Acknowledge(d)
  <2> DEFINE v == Receipted(row[d], TRUE)
  <2>1. /\ row' = [row EXCEPT ![d] = v] /\ UNCHANGED <<sweep, provider>>
        /\ row[d].status = "sent_unconfirmed"
    BY <1>2 DEF Acknowledge
  <2>2. v \in Row /\ v.status = "delivered" /\ v.client = row[d].client
    BY <1>0 DEF Receipted, Row, Status, AcceptedStatus
  <2> HIDE DEF v
  <2>3. AskedOf(v) = AskedOf(row[d])
    BY <2>1, <2>2 DEF AskedOf
  <2> QED BY <2>1, <2>2, <2>3, OneRowBoxed
<1>3. CASE CooldownEnds(d)
  <2> DEFINE v == [row[d] EXCEPT !.cooling = FALSE]
  <2>1. row' = [row EXCEPT ![d] = v] /\ UNCHANGED <<sweep, provider>> /\ row[d].cooling
    BY <1>3 DEF CooldownEnds
  <2>2. row[d].status = "sent_unconfirmed"
    BY <1>0, <2>1 DEF RowOK
  <2>3. v \in Row /\ v.status = row[d].status /\ v.client = row[d].client
    BY <1>0 DEF Row
  <2> HIDE DEF v
  <2>4. Receipt(v) = Receipt(row[d]) /\ AskedOf(v) = AskedOf(row[d])
    BY <2>3 DEF Receipt, AskedOf
  <2> QED BY <2>1, <2>2, <2>3, <2>4, OneRowBoxed
<1> QED BY <1>1, <1>2, <1>3

LEMMA BeginBoxed ==
  ASSUME IInv, NEW w \in Sweep, NEW S \in SUBSET InStatus("sending"),
         NEW T \in SUBSET InStatus("retrying"), BeginWith(w, S, T)
  PROVE  UNCHANGED Box!vars
<1>1. row' = Stranded(S) /\ UNCHANGED <<wire, shown, doubted>>
  BY DEF BeginWith, provider
<1>2. ASSUME NEW d \in Delivery
      PROVE  AskedOf(row'[d]) = AskedOf(row[d]) /\ Receipt(row'[d]) = Receipt(row[d])
  <2>1. row[d] \in Row
    BY DEF IInv, TypeOK
  <2>2. CASE d \in S
    <3> DEFINE u == [row[d] EXCEPT !.status = "retrying"]
    <3>1. row'[d] = u /\ row[d].status = "sending"
      BY <1>1, <2>2 DEF Stranded, InStatus
    <3>2. u.client = row[d].client /\ u.status = "retrying"
      BY <2>1 DEF Row
    <3> HIDE DEF u
    <3> QED BY <3>1, <3>2 DEF AskedOf, Receipt, ActiveStatus
  <2>3. CASE d \notin S
    BY <1>1, <2>3 DEF Stranded
  <2> QED BY <2>2, <2>3
<1>3. \A x \in Sweep : ~OnWire(sweep[x]) /\ ~OnWire(sweep'[x])
  BY DEF BeginWith, MayBegin, OnWire, IdleSweep, IInv, TypeOK
<1>4. Awaits' = Awaits
  BY <1>3, SameAwaits
<1>5. Asked' = Asked /\ Receipts' = Receipts
  BY <1>2 DEF Asked, Receipts
<1> QED BY <1>1, <1>4, <1>5, BoxVars

LEMMA SendBoxed ==
  ASSUME IInv, IInv', NEW w \in Sweep, sweep[w].pc = "due", NEW d \in Delivery,
         NEW r \in Request, r.row = d, r \notin wire \cup shown \cup doubted,
         Claimable(row[d]), row' = [row EXCEPT ![d] = Claimed(row[d])],
         OnWire(sweep'[w]), sweep'[w].req = r,
         wire' = wire \cup {r}, UNCHANGED <<shown, doubted>>
  PROVE  [Box!Next]_(Box!vars)
<1>1. row[d] \in Row /\ RowOK(row[d], taken[d]) /\ row \in [Delivery -> Row]
  BY DEF IInv, TypeOK, RowsOK
<1>2. Claimed(row[d]).status = "sending" /\ Claimed(row[d]).client = row[d].client
  BY <1>1, ClaimedOK
<1>3. Receipt(row[d]) = "open" /\ Receipt(Claimed(row[d])) = "open"
      /\ AskedOf(Claimed(row[d])) = AskedOf(row[d])
  BY <1>2 DEF Receipt, ActiveStatus, Claimable, AskedOf
<1>4. Asked' = Asked /\ Receipts' = Receipts /\ Receipts[d] = "open"
  BY <1>1, <1>3 DEF Asked, Receipts
<1>5. Awaits = NoneAwaited
  <2>1. \A x \in Sweep : ~OnWire(sweep[x])
    BY DEF IInv, SweepsOK, OnWire
  <2> QED BY <2>1, AwaitsNone
<1>6. r # NoRequest /\ Awaits' = [NoneAwaited EXCEPT ![d] = r]
  <2>1. AwaitsThat(r)'
    BY AwaitsOneNext
  <2> QED BY <2>1 DEF AwaitsThat, NoneAwaited
<1>7. Awaits[d] = NoRequest /\ Awaits'[d] = r /\ Awaits' = [Awaits EXCEPT ![d] = r]
  BY <1>5, <1>6 DEF NoneAwaited
<1>8. Box!Send(d)
  BY <1>4, <1>6, <1>7 DEF Box!Send, Asked, Awaits, Receipts, AskedOf
<1> QED BY <1>8 DEF Box!Next

LEMMA AttemptBoxed ==
  ASSUME IInv, IInv', NEW w \in Sweep, Attempt(w)
  PROVE  [Box!Next]_(Box!vars)
<1>0. sweep[w].pc = "due" /\ UNCHANGED <<taken, shown, doubted>> /\ sweep \in [Sweep -> SweepRecord]
  BY DEF Attempt, IInv, TypeOK
<1>1. PICK d \in Delivery :
        \/ /\ Claimable(row[d])
           /\ row' = [row EXCEPT ![d] = Claimed(@)]
           /\ LET r == [row |-> d, client |-> IdempotencyKey(row[d]),
                         nth |-> row[d].attempts + 1]
              IN  /\ sweep' = [sweep EXCEPT ![w] =
                                  [pc |-> "sent", due |-> @.due \ {d}, req |-> r]]
                  /\ wire' = wire \cup {r}
        \/ /\ sweep' = [sweep EXCEPT ![w].due = @ \ {d}]
           /\ UNCHANGED <<row, wire>>
  BY DEF Attempt
<1>2. CASE sweep' = [sweep EXCEPT ![w].due = @ \ {d}] /\ UNCHANGED <<row, wire>>
  <2>1. \A x \in Sweep : sweep'[x].pc = sweep[x].pc /\ sweep'[x].req = sweep[x].req
    BY <1>0, <1>2 DEF SweepRecord
  <2>2. Awaits' = Awaits
    BY <1>2, <2>1, SameAwaits DEF OnWire
  <2> QED BY <1>0, <1>2, <2>2, BoxVars DEF Asked, Receipts
<1>3. CASE Claimable(row[d]) /\ row' = [row EXCEPT ![d] = Claimed(@)]
           /\ LET r == [row |-> d, client |-> IdempotencyKey(row[d]),
                         nth |-> row[d].attempts + 1]
              IN  /\ sweep' = [sweep EXCEPT ![w] =
                                  [pc |-> "sent", due |-> @.due \ {d}, req |-> r]]
                  /\ wire' = wire \cup {r}
  <2>1. /\ row[d].attempts \in Nat /\ row[d].client \in 0..MaxRetries
        /\ wire \cup shown \cup doubted \subseteq Request
    BY DEF IInv, TypeOK, Row
  <2>2. PICK r \in Request :
          r = [row |-> d, client |-> row[d].client, nth |-> row[d].attempts + 1]
    <3>1. row[d].attempts + 1 \in Nat
      BY <2>1
    <3>2. [row |-> d, client |-> row[d].client, nth |-> row[d].attempts + 1] \in Request
      BY <2>1, <3>1 DEF Request
    <3> QED BY <3>2
  <2>3. r.row = d /\ r.client = row[d].client /\ r.nth = row[d].attempts + 1
    BY <2>2
  <2>4. r \notin wire \cup shown \cup doubted
    BY <2>1, <2>3 DEF IInv, RequestsOK, PastOf
  <2>5. sweep'[w].pc = "sent" /\ sweep'[w].req = r /\ wire' = wire \cup {r}
    BY <1>0, <1>3, <2>2 DEF IdempotencyKey
  <2> QED BY <1>0, <1>3, <2>3, <2>4, <2>5, SendBoxed DEF OnWire
<1> QED BY <1>1, <1>2, <1>3

LEMMA AcceptBoxed ==
  ASSUME IInv, NEW r \in wire, Accept(r)
  PROVE  [Box!Next]_(Box!vars)
<1>1. /\ row' = row /\ doubted' = doubted /\ wire' = wire \ {r}
      /\ shown' \in {shown, shown \cup {r}}
  BY DEF Accept
<1>2. ASSUME NEW w \in Sweep
      PROVE  /\ OnWire(sweep'[w]) <=> OnWire(sweep[w])
             /\ sweep'[w].req = sweep[w].req
  <2>1. sweep[w] \in SweepRecord
    BY DEF IInv, TypeOK
  <2>2. sweep'[w] = IF sweep[w].pc = "sent" /\ sweep[w].req = r
                    THEN [sweep[w] EXCEPT !.pc = "accepted"] ELSE sweep[w]
    BY DEF Accept
  <2> QED BY <2>1, <2>2 DEF SweepRecord, OnWire
<1>3. Awaits' = Awaits
  BY <1>1, <1>2, SameAwaits
<1>4. Asked' = Asked /\ Receipts' = Receipts
  BY <1>1 DEF Asked, Receipts
<1>5. Box!Show(r)
  BY <1>1, <1>3, <1>4 DEF Box!Show, Asked, Awaits, Receipts, AskedOf
<1> QED BY <1>5 DEF Box!Next

LEMMA AnswerBoxed ==
  ASSUME IInv, NEW w \in Sweep, Answer(w)
  PROVE  [Box!Next]_(Box!vars)
<1>1. PICK r \in Request, d \in Delivery : r = sweep[w].req /\ d = r.row
  BY DEF IInv, TypeOK, SweepRecord, Request
<1>2. /\ AnswerOf(d, r, sweep[w].pc = "accepted")
      /\ OnWire(sweep[w]) /\ AwaitOK(sweep[w]) /\ UNCHANGED shown
      /\ \A x \in Sweep : ~OnWire(sweep'[x])
  BY <1>1, AnswerFacts
<1>3. Awaits = [NoneAwaited EXCEPT ![d] = r] /\ r # NoRequest
  BY <1>1, <1>2, AwaitsOne DEF AwaitsThat
<1>4. Awaits' = NoneAwaited
  BY <1>2, AwaitsNoneNext
<1>5. Awaits' = [Awaits EXCEPT ![d] = NoRequest] /\ Awaits[d] = r
  BY <1>3, <1>4 DEF NoneAwaited
<1>6. /\ row[d].status = "sending" /\ row[d] \in Row /\ row \in [Delivery -> Row]
      /\ sweep[w].pc = "accepted" => r \notin wire
      /\ sweep[w].pc # "accepted" => r \in wire
  BY <1>1, <1>2 DEF AwaitOK, OnWire, IInv, TypeOK
<1>7. ASSUME NEW v \in Row, row' = [row EXCEPT ![d] = v], v.client = row[d].client,
             v.status # "none"
      PROVE  /\ Asked' = Asked /\ Receipts' = [Receipts EXCEPT ![d] = Receipt(v)]
             /\ Receipts[d] = "open"
  <2>1. AskedOf(v) = AskedOf(row[d]) /\ Receipt(row[d]) = "open"
    BY <1>6, <1>7 DEF AskedOf, Receipt, ActiveStatus
  <2> QED BY <1>6, <1>7, <2>1 DEF Asked, Receipts
<1>8. ASSUME sweep[w].pc = "accepted", NEW confirmed \in BOOLEAN,
             row' = [row EXCEPT ![d] = Receipted(row[d], confirmed)],
             wire' = wire /\ doubted' = doubted
      PROVE  Box!Close(d)
  <2> DEFINE v == Receipted(row[d], confirmed)
  <2>1. v \in Row /\ v.status \in AcceptedStatus /\ v.client = row[d].client
    BY <1>6 DEF Receipted, Row, Status, AcceptedStatus
  <2> HIDE DEF v
  <2>2. Receipt(v) \in {"delivered", "unconfirmed"}
    BY <2>1 DEF Receipt, AcceptedStatus, ActiveStatus
  <2>3. /\ Asked' = Asked /\ Receipts' = [Receipts EXCEPT ![d] = Receipt(v)]
        /\ Receipts[d] = "open"
    BY <1>7, <1>8, <2>1 DEF v, AcceptedStatus
  <2> QED BY <1>2, <1>3, <1>5, <1>6, <1>8, <2>2, <2>3
          DEF Box!Close, Box!Stop, Asked, Awaits, Receipts, AskedOf
<1>9. ASSUME NEW retryable \in BOOLEAN,
             row' = [row EXCEPT ![d] = Failed(row[d], retryable)],
             \/ sweep[w].pc # "accepted" /\ wire' = wire \ {r} /\ doubted' = doubted
             \/ wire' = wire /\ doubted' = doubted \cup {r}
      PROVE  Box!Refuse(d) \/ Box!GiveUp(d)
  <2> DEFINE v == Failed(row[d], retryable)
  <2>1. /\ v \in Row /\ v.client = row[d].client
        /\ v.status \in {"retrying", "failed_terminal"}
    BY <1>6 DEF Failed, Row, Status, ActiveStatus
  <2> HIDE DEF v
  <2>2. Receipt(v) \in {"open", "failed"}
    BY <2>1 DEF Receipt, ActiveStatus
  <2>3. /\ Asked' = Asked /\ Receipts' = [Receipts EXCEPT ![d] = Receipt(v)]
        /\ Receipts[d] = "open"
    BY <1>7, <1>9, <2>1 DEF v
  <2>4. \E x \in {"open", "failed"} : Box!Stop(d, x)
    BY <1>2, <1>3, <1>5, <2>2, <2>3 DEF Box!Stop, Asked, Awaits, Receipts, AskedOf
  <2>5. CASE sweep[w].pc # "accepted" /\ wire' = wire \ {r} /\ doubted' = doubted
    BY <1>5, <1>6, <2>4, <2>5 DEF Box!Refuse, Awaits
  <2>6. CASE wire' = wire /\ doubted' = doubted \cup {r}
    BY <1>5, <2>4, <2>6 DEF Box!GiveUp, Awaits
  <2> QED BY <1>9, <2>5, <2>6
<1>10. Box!Close(d) \/ Box!Refuse(d) \/ Box!GiveUp(d)
  BY <1>2, <1>8, <1>9 DEF AnswerOf
<1> QED BY <1>10 DEF Box!Next

\* A crash gives up the one request that was awaited, if any.
LEMMA CrashBoxed ==
  ASSUME IInv, Crash
  PROVE  [Box!Next]_(Box!vars)
<1>1. /\ UNCHANGED <<row, wire, shown>> /\ Asked' = Asked /\ Receipts' = Receipts
      /\ doubted' = doubted \cup {sweep[w].req : w \in {x \in Sweep : OnWire(sweep[x])}}
  BY DEF Crash, Asked, Receipts
<1>2. Awaits' = NoneAwaited
  <2>1. \A x \in Sweep : ~OnWire(sweep'[x])
    BY DEF Crash, OnWire, IdleSweep
  <2> QED BY <2>1, AwaitsNoneNext
<1>3. CASE \A w \in Sweep : ~OnWire(sweep[w])
  <2>1. Awaits = NoneAwaited /\ doubted' = doubted
    BY <1>1, <1>3, AwaitsNone
  <2> QED BY <1>1, <1>2, <2>1, BoxVars
<1>4. ASSUME NEW w \in Sweep, OnWire(sweep[w])
      PROVE  [Box!Next]_(Box!vars)
  <2>1. PICK r \in Request, d \in Delivery : r = sweep[w].req /\ d = r.row
    BY DEF IInv, TypeOK, SweepRecord, Request
  <2>2. Awaits = [NoneAwaited EXCEPT ![d] = r] /\ r # NoRequest
    BY <1>4, <2>1, AwaitsOne DEF AwaitsThat
  <2>3. Awaits' = [Awaits EXCEPT ![d] = NoRequest] /\ Awaits[d] = r
    BY <1>2, <2>2 DEF NoneAwaited
  <2>4. doubted' = doubted \cup {r}
    BY <1>1, <1>4, <2>1 DEF IInv, SweepsOK, OnWire
  <2>5. Receipts[d] = "open" /\ Receipts' = [Receipts EXCEPT ![d] = "open"]
    <3>1. AwaitOK(sweep[w])
      BY <1>4 DEF IInv, SweepsOK
    <3>2. Receipt(row[d]) = "open"
      BY <2>1, <3>1 DEF AwaitOK, Receipt, ActiveStatus
    <3>3. Receipts[d] = "open" /\ [Receipts EXCEPT ![d] = "open"] = Receipts
      BY <3>2 DEF Receipts
    <3> QED BY <1>1, <3>3
  <2>6. Box!GiveUp(d)
    BY <1>1, <2>2, <2>3, <2>4, <2>5
       DEF Box!GiveUp, Box!Stop, Asked, Awaits, Receipts, AskedOf
  <2> QED BY <2>6 DEF Box!Next
<1> QED BY <1>3, <1>4

LEMMA NextBoxed ==
  ASSUME IInv, IInv', [Next]_vars
  PROVE  [Box!Next]_(Box!vars)
<1>0. rows \in Nat /\ MaxRows \in Nat
  BY ChannelAssumption DEF IInv, TypeOK
<1>1. CASE Toggle \/ InvocationEnds \/ ClaimNotice \/ UNCHANGED vars
  BY <1>1, SameBox DEF Toggle, InvocationEnds, ClaimNotice, vars, provider
<1>2. CASE Enqueue \/ \E d \in Delivery : Resend(d)
  <2>1. rows < MaxRows /\ Append(FALSE) /\ UNCHANGED <<sweep, provider>>
    <3>1. HasRoom => rows < MaxRows
      BY <1>0 DEF HasRoom
    <3> QED BY <1>2, <3>1 DEF Enqueue, Resend
  <2> QED BY <2>1, AppendBoxed
<1>3. CASE EnqueueNotice
  <2>1. CASE rows < MaxRows /\ Append(TRUE)
    BY <1>3, <2>1, AppendBoxed DEF EnqueueNotice
  <2>2. CASE UNCHANGED <<rows, row>>
    BY <1>3, <2>2, SameBox DEF EnqueueNotice
  <2> QED BY <1>3, <2>1, <2>2 DEF EnqueueNotice
<1>4. ASSUME NEW d \in Delivery, Retry(d) \/ Acknowledge(d) \/ CooldownEnds(d)
      PROVE  [Box!Next]_(Box!vars)
  BY <1>4, PeopleStepBoxed
<1>5. ASSUME NEW w \in Sweep, SweepStep(w)
      PROVE  [Box!Next]_(Box!vars)
  <2>1. CASE End(w)
    <3>1. sweep[w].pc = "due" /\ sweep' = [sweep EXCEPT ![w] = IdleSweep]
          /\ sweep \in [Sweep -> SweepRecord] /\ UNCHANGED <<row, provider>>
      BY <2>1 DEF End, IInv, TypeOK
    <3>2. \A x \in Sweep : /\ OnWire(sweep'[x]) <=> OnWire(sweep[x])
                           /\ OnWire(sweep[x]) => sweep'[x].req = sweep[x].req
      BY <3>1 DEF OnWire, IdleSweep
    <3>3. Awaits' = Awaits
      BY <3>1, <3>2, SameAwaits
    <3> QED BY <3>1, <3>3, BoxVars DEF Asked, Receipts, provider
  <2> QED BY <1>5, <2>1, BeginBoxed, AttemptBoxed, AnswerBoxed DEF SweepStep, Begin
<1>6. CASE Crash \/ \E r \in wire : Accept(r)
  BY <1>6, CrashBoxed, AcceptBoxed
<1> QED BY <1>1, <1>2, <1>3, <1>4, <1>5, <1>6 DEF Next, PeopleStep, NoticeStep

\* Refinement: the rows are an outbox, whatever the provider makes of the client ids, for
\* any number of rows, attempts, sweeps, manual retries, late requests and crashes
\* (channel-delivery.mjs:335-363, 442-467, 668-705, 845).
THEOREM ChannelKeepsOutbox == Spec => KeepsOutbox
<1>1. Init => IInv /\ Box!Init
  <2>1. SUFFICES ASSUME Init PROVE Box!Init
    BY InitOK
  <2>2. ASSUME NEW d \in Delivery
        PROVE  row[d].status = "none" /\ Receipt(row[d]) = "none" /\ Awaited(d) = NoRequest
    BY <2>1 DEF Init, NoRow, Receipt, ActiveStatus, Awaited, OnWire, IdleSweep
  <2>3. wire = {} /\ shown = {} /\ doubted = {}
    BY <2>1 DEF Init
  <2> QED BY <2>2, <2>3 DEF Box!Init
<1>2. IInv /\ [Next]_vars => IInv' /\ [Box!Next]_(Box!vars)
  BY NextPreserves, NextBoxed DEF Preserved
<1> QED BY <1>1, <1>2, PTL DEF Spec, KeepsOutbox, Box!Spec
=============================================================================
