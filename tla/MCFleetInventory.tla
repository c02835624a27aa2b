-------------------------- MODULE MCFleetInventory --------------------------
(***************************************************************************)
(* FleetInventory for TLC.  What may happen is spread over several         *)
(* budgets, so that each run of events is explored with its own partners:  *)
(* two collectors side by side, one amid changes and failures, admin       *)
(* requests and the rollout of Secrets Manager racing each other, ...      *)
(***************************************************************************)
EXTENDS FleetInventory, TLC

Allowance(registered, collectors, change, fault, admin, rollout) ==
  [registered |-> registered, collectors |-> collectors, change |-> change,
   fault |-> fault, admin |-> admin, rollout |-> rollout]

One == {CHOOSE i \in Integration: TRUE}

SomeBudgets ==
  { Allowance(One, {}, 0, 1, 3, 1),
    Allowance(One, One, 2, 1, 0, 0),
    Allowance(One, One, 1, 0, 1, 0),
    Allowance(One, One, 0, 0, 1, 1),
    Allowance({}, One, 0, 0, 2, 0),
    Allowance(Integration, Integration, 0, 1, 0, 0) }
=============================================================================
