------------------------------ MODULE RunOnce ------------------------------
(***************************************************************************)
(* What the delivery of invocations promises about each of them, whatever  *)
(* leases, sessions, polls and timers it uses for it: a permit to execute  *)
(* is issued at most once, while the outcome is open, and used at most     *)
(* once; the outcome is decided once; a cost is charged at most once, with *)
(* the outcome, and only for a permit that was used.                       *)
(*                                                                         *)
(* A permit is not called back: where the issuer may give up an invocation *)
(* of which it hears nothing (GivenUp # {}), its permit may still be used  *)
(* after the outcome, and then nothing is ever charged.                    *)
(***************************************************************************)
EXTENDS Naturals

CONSTANTS
    Invocation,
    Outcome,    \* how an invocation may end
    GivenUp,    \* the outcomes over which a permit that was issued may still be used
    Open        \* it has not ended: a value that is no outcome

VARIABLES
    outcome,    \* Open, or how each invocation ended
    permit,     \* "none", "issued", "used", or "void": issued, never to be used
    charges     \* its ledger entries

vars == <<outcome, permit, charges>>

Init ==
    /\ outcome = [i \in Invocation |-> Open]
    /\ permit = [i \in Invocation |-> "none"]
    /\ charges = [i \in Invocation |-> 0]

\* An answer that will not reach anybody issues a permit that is void at once.
Issue(i) ==
    /\ outcome[i] = Open /\ outcome'[i] = Open
    /\ permit[i] = "none" /\ permit'[i] \in {"issued", "void"}
    /\ charges'[i] = charges[i]

Use(i) ==
    /\ outcome[i] \in GivenUp \cup {Open} /\ outcome'[i] = outcome[i]
    /\ permit[i] = "issued" /\ permit'[i] = "used"
    /\ charges'[i] = charges[i]

Void(i) ==
    /\ outcome'[i] = outcome[i]
    /\ permit[i] = "issued" /\ permit'[i] = "void"
    /\ charges'[i] = charges[i]

Decide(i) ==
    /\ outcome[i] = Open /\ outcome'[i] \in Outcome
    /\ permit'[i] = permit[i]
    /\ \/ charges'[i] = charges[i]
       \/ permit[i] = "used" /\ charges'[i] = charges[i] + 1

Same(i) ==
    /\ outcome'[i] = outcome[i]
    /\ permit'[i] = permit[i]
    /\ charges'[i] = charges[i]

\* One poll may decide several invocations at once.
Next ==
    \A i \in Invocation : Issue(i) \/ Use(i) \/ Void(i) \/ Decide(i) \/ Same(i)

Spec == Init /\ [][Next]_vars

-----------------------------------------------------------------------------

Paid(i) ==
    /\ charges[i] \in {0, 1}
    /\ charges[i] = 1 => outcome[i] # Open /\ permit[i] = "used"

\* Nobody pays for a run that did not happen, has not ended, or was paid before
\* (completion.mjs:66-117).
ChargedOnce == \A i \in Invocation : Paid(i)
=============================================================================
