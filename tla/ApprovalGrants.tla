--------------------------- MODULE ApprovalGrants ---------------------------
(***************************************************************************)
(* Approval grants (services/approval-grants.mjs): a token that a person   *)
(* issues for one action on one target, which a gate accepts once.  Only   *)
(* the operators: the grants belong to the gates.  The gate asks without   *)
(* the legacy fallback, so that a token of no grant is refused.  A refusal *)
(* changes nothing, and a grant that expired or was pruned is refused: it  *)
(* is modelled as one that nobody uses.                                    *)
(***************************************************************************)
EXTENDS Naturals

CONSTANTS
    Grant,      \* the ids of the grants there will ever be, given in order
    Scope,      \* action, target and team, taken together
    NoScope

ASSUME GrantAssumption ==
    /\ Grant \subseteq Nat
    /\ NoScope \notin Scope

GrantState == {"none", "issued", "consumed"}

NotIssued == [state |-> "none", scope |-> NoScope]

\* issueApprovalGrant, for a human actor.
IsNext(grants, g) ==
    grants[g].state = "none" /\ \A h \in Grant : h < g => grants[h].state # "none"

Issued(scope) == [state |-> "issued", scope |-> scope]

Approves_AnyTarget(g, scope) == g.state = "issued"

\* The tests of validateApprovalToken.
Approves(g, scope) == g.state = "issued" /\ g.scope = scope

\* What it does with a grant it accepts.
Consumed(g) == [g EXCEPT !.state = "consumed"]
=============================================================================
