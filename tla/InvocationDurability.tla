------------------------ MODULE InvocationDurability ------------------------
(***************************************************************************)
(* InvocationDelivery on a server that can crash and restart.              *)
(*                                                                         *)
(* The whole state is written at once: synchronously at the end of the     *)
(* transitions that are a unit of work (acceptance, approval, dispatch,    *)
(* ack, completion), otherwise by a timer 20 ms later, which a crash       *)
(* forestalls (runtime/persistence.mjs: persistStateNow, persistStateSoon).*)
(* A write is assumed to succeed: the code logs one that fails and answers *)
(* as if it had not (persistence.mjs:688-695).                             *)
(***************************************************************************)
EXTENDS InvocationDelivery

CONSTANT MaxCrashes     \* bound on the crashes of a behaviour

ASSUME CrashAssumption == MaxCrashes \in Nat

VARIABLES
    durable,    \* what the store holds
    crashes,    \* crashes so far
    withdrawn   \* invocations whose cancellation was answered "cancelled"
                \* while they waited; what the user knows, not the server

durabilityVars == <<vars, durable, crashes, withdrawn>>

Snapshot == [inv |-> inv, current |-> current, linked |-> linked, paired |-> paired]

DurableTypeOK ==
    /\ TypeOK
    /\ DOMAIN durable = {"inv", "current", "linked", "paired"}
    /\ durable.inv \in [Invocation -> InvocationRecord]
    /\ durable.current \in Session \cup {NoSession}
    /\ crashes \in 0..MaxCrashes
    /\ withdrawn \subseteq Invocation

DurableInit ==
    /\ Init
    /\ durable = Snapshot
    /\ crashes = 0
    /\ withdrawn = {}

\* The transitions of a record that end in persistStateNow.
Accepted(v, w) == v.status = "none" /\ w.status # "none"
Decided(v, w) == AwaitsDecision(v) /\ w.status \in {"queued", "rejected"}
Leased(v, w) == w.attempts > v.attempts
Acked(v, w) == v.delivery # "acknowledged" /\ w.delivery = "acknowledged"
Ended(v, w) == InFlight(v) /\ IsTerminal(w)

Commits_AckDebounced(v, w) ==
    Accepted(v, w) \/ Decided(v, w) \/ Leased(v, w) \/ Ended(v, w)

Commits_DecisionDebounced(v, w) ==
    Accepted(v, w) \/ Leased(v, w) \/ Acked(v, w) \/ Ended(v, w)

Commits_CompletionDebounced(v, w) ==
    Accepted(v, w) \/ Decided(v, w) \/ Leased(v, w) \/ Acked(v, w)

Commits(v, w) ==
    Accepted(v, w) \/ Decided(v, w) \/ Leased(v, w) \/ Acked(v, w) \/ Ended(v, w)

\* Any other change waits for the timer.
ServerOrBridgeStep ==
    /\ Next
    /\ durable' = IF \E i \in Invocation : Commits(inv[i], inv'[i]) THEN Snapshot' ELSE durable
    /\ withdrawn' = withdrawn \cup
          {i \in Invocation : inv[i].status \in WaitingStatus /\ inv'[i].status = "cancelled"}
    /\ UNCHANGED crashes

\* The timer of persistStateSoon fires.
Flush ==
    /\ durable # Snapshot
    /\ durable' = Snapshot
    /\ UNCHANGED <<vars, crashes, withdrawn>>

\* The server dies and is started again: it reads the store, and every device
\* is offline until it is heard from.  The bridge processes live on; a request
\* whose body was being read is lost.
CrashRestart ==
    /\ crashes < MaxCrashes
    /\ crashes' = crashes + 1
    /\ inv' = durable.inv
    /\ current' = durable.current
    /\ linked' = durable.linked /\ paired' = durable.paired
    /\ online' = FALSE
    /\ task' = [i \in Invocation |-> [n \in DOMAIN task[i] |->
                  IF task[i][n].pc \in {"acking", "refusing", "reporting", "reporting_killed"}
                  THEN [task[i][n] EXCEPT !.pc = Lost(@)]
                  ELSE task[i][n]]]
    /\ UNCHANGED <<proc, durable, withdrawn>>

DurableNext == ServerOrBridgeStep \/ Flush \/ CrashRestart

DurableSpec == DurableInit /\ [][DurableNext]_durabilityVars

-----------------------------------------------------------------------------

\* What a bridge was told with a 200 survives: an outcome that was reported and
\* its ledger entry are in the store as soon as they are in memory
\* (completion.mjs:32-38, 65-66; INVOCATION_DURABILITY.md, W3).
OutcomesAreDurable ==
    \A i \in Invocation :
        IsTerminal(inv[i]) /\ inv[i].cancel # "queued_cancelled" =>
            /\ durable.inv[i].status = inv[i].status
            /\ durable.inv[i].charges = inv[i].charges

\* A run the caller was told exists is never dropped (creation.mjs:467-470), nor
\* is a decision of the approver (approval.mjs:119, 169).
AcceptanceIsDurable ==
    \A i \in Invocation :
        /\ inv[i].status # "none" => durable.inv[i].status # "none"
        /\ inv[i].approval \in {"approved", "denied"} /\ i \notin withdrawn
             => durable.inv[i].approval = inv[i].approval

\* "Delivery acknowledgement must either be durable or protected by a
\* server-side lease and redelivery rule" (STATE_MACHINE.md:344-345): a delivery
\* that may be running is acknowledged in the store, so a restarted server does
\* not hand the invocation out for a second execution.
StartedIsDurable ==
    \A i \in Invocation : \A n \in DOMAIN task[i] :
        task[i][n].pc \in Granted => durable.inv[i].delivery = "acknowledged"

\* "Terminal invocations must not run again" (STATE_MACHINE.md:338), for an
\* invocation whose cancellation the server confirmed before it was dispatched.
WithdrawnNeverRuns ==
    \A i \in withdrawn : \A n \in DOMAIN task[i] : task[i][n].pc \notin Granted

-----------------------------------------------------------------------------
(* What is stored keeps the promise of RunOnce over crashes: the permits    *)
(* are on the device, outcomes and charges are those a restart would read.  *)

StoredPromise == INSTANCE RunOnce WITH
    Outcome <- TerminalStatus,
    GivenUp <- {"cancelled", "failed", "timed_out"},
    Open <- "open",
    outcome <- [i \in Invocation |->
                  IF IsTerminal(durable.inv[i]) THEN durable.inv[i].status ELSE "open"],
    permit <- [i \in Invocation |-> PermitOf(i)],
    charges <- [i \in Invocation |-> durable.inv[i].charges]

\* Whatever the server forgets, an invocation has one permit, used once and only
\* while its stored outcome is open or gives the run up, one stored outcome that no
\* restart takes back, and one charge, stored with it (INVOCATION_DURABILITY.md; creation.mjs:467,
\* completion.mjs:32-38, dispatch.mjs:169-198).
KeepsStoredPromise == StoredPromise!Spec
=============================================================================
