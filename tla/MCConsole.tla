------------------------------ MODULE MCConsole ------------------------------
(***************************************************************************)
(* Console for TLC.  What may happen is spread over several budgets: one   *)
(* question amid changes and failures, messages that race each other and   *)
(* a delete, a question beside a message in a hub that stops.              *)
(***************************************************************************)
EXTENDS Console

Allowance(formed, asked, chat, change, fault, crash) ==
  [formed |-> formed, query |-> asked, chat |-> chat, change |-> change,
   fault |-> fault, crash |-> crash]

One == {CHOOSE n \in Space: TRUE}

SomeBudgets ==
  { Allowance(Leaf, 1, 0, 2, 1, 0),
    Allowance(One, 1, 0, 1, 1, 0),
    Allowance({}, 1, 0, 1, 0, 0),
    Allowance({}, 0, 5, 0, 1, 0),
    Allowance(Leaf, 1, 0, 0, 2, 1),
    Allowance(One, 1, 2, 0, 0, 1) }
=============================================================================
