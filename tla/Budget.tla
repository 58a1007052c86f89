------------------------------- MODULE Budget -------------------------------
(***************************************************************************)
(* What the gateway promises about a tenant's cost limit: a request is let *)
(* through only while what is stored is below the limit, and is charged    *)
(* when it is over.  Requests that were let through and are not over yet   *)
(* may still overspend, each once; calls that are not checked at all are   *)
(* accounted apart.                                                        *)
(***************************************************************************)
EXTENDS Integers, FiniteSets

CONSTANTS
  Threads,       \* what runs requests
  Tenants,
  Limit,         \* the tenants' daily cost limit
  MaxCost        \* the highest cost of a request

VARIABLES
  stored,        \* the cost stored for each tenant
  unchecked,     \* the part of it that was charged without a check
  pending        \* the tenant each thread was let through for, or None

budgetVars == <<stored, unchecked, pending>>

None == "none"

BudgetInit ==
  /\ stored = [w \in Tenants |-> 0]
  /\ unchecked = [w \in Tenants |-> 0]
  /\ pending = [t \in Threads |-> None]

LetThrough(t, w) ==
  /\ pending[t] = None
  /\ stored[w] < Limit
  /\ pending' = [pending EXCEPT ![t] = w]
  /\ UNCHANGED <<stored, unchecked>>

Charge(t, w, c) ==
  /\ pending[t] = w
  /\ stored' = [stored EXCEPT ![w] = @ + c]
  /\ pending' = [pending EXCEPT ![t] = None]
  /\ UNCHANGED unchecked

\* A request ends without a charge.
Drop(t) ==
  /\ pending' = [pending EXCEPT ![t] = None]
  /\ UNCHANGED <<stored, unchecked>>

ChargeUnchecked(w, c) ==
  /\ stored' = [stored EXCEPT ![w] = @ + c]
  /\ unchecked' = [unchecked EXCEPT ![w] = @ + c]
  /\ UNCHANGED pending

BudgetNext ==
  \/ \E t \in Threads : Drop(t) \/ \E w \in Tenants : LetThrough(t, w)
  \/ \E w \in Tenants, c \in 0 .. MaxCost :
       ChargeUnchecked(w, c) \/ \E t \in Threads : Charge(t, w, c)

BudgetSpec == BudgetInit /\ [][BudgetNext]_budgetVars

\* What n requests cost at most.
Owed(n) == n * MaxCost

\* A tenant's limit is overspent by at most one request of every thread,
\* unchecked calls aside.
OverspendBounded ==
  \A w \in Tenants : stored[w] <= Limit - 1 + Owed(Cardinality(Threads)) + unchecked[w]
=============================================================================
