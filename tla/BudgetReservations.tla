------------------------- MODULE BudgetReservations -------------------------
(***************************************************************************)
(* The holds placed on the budget of one project at admission (services/   *)
(* m3.mjs): a hold stands for the cost of a run that was admitted and not  *)
(* billed yet, so that runs admitted together see each other.  Only the    *)
(* operators: the holds, the spend and the steps that change them belong   *)
(* to the runs.  One project with a limit and the policy "block"; its team *)
(* pool is the same test over the team's projects.                         *)
(***************************************************************************)
EXTENDS Integers, FiniteSets

CONSTANTS
    Invocation,     \* the runs there will ever be
    Estimate,       \* autoRunSettings.reservationEstimateUsd
    Limit           \* the limitUsd of the project's budget

ASSUME BudgetAssumption ==
    /\ IsFiniteSet(Invocation)
    /\ Estimate \in Nat \ {0}
    /\ Limit \in Nat

HoldState == {"none", "active", "settled"}

Active(holds) == {i \in Invocation : holds[i] = "active"}

\* activeReservedForProject.
ReservedUsd(holds) == Estimate * Cardinality(Active(holds))

Admits_SpendOnly(spentUsd, holds) == spentUsd + Estimate <= Limit

\* budgetGateForProject, then the test of reserveBudget.
Admits(spentUsd, holds) ==
    /\ spentUsd <= Limit
    /\ spentUsd + ReservedUsd(holds) + Estimate <= Limit

\* reserveBudget, where it is not refused.
Reserved(holds, i) == [holds EXCEPT ![i] = "active"]

\* releaseReservationsForInvocation: a hold that is not active stays what it is.
Released(holds, S) ==
    [i \in Invocation |-> IF i \in S /\ holds[i] = "active" THEN "settled" ELSE holds[i]]

\* What costs more than its hold was not foreseen by any admission.
Unforeseen(cost) == IF cost > Estimate THEN cost - Estimate ELSE 0

\* "a reservation is a synchronous HOLD placed at admission [...] so two runs
\* starting near the limit see each other" (m3.mjs:1594-1600): spend and holds
\* exceed the limit by what the agents charged beyond their holds, and no more.
WithinLimit(spentUsd, holds, unforeseen) ==
    spentUsd + ReservedUsd(holds) <= Limit + unforeseen
=============================================================================
