------------------------------- MODULE MCLegs -------------------------------
(***************************************************************************)
(* Legs for TLC: what a behaviour may have is one of a few budgets, so     *)
(* that the tickets, the hold and the agent are each explored against two  *)
(* legs that race, without the product of all of them.                     *)
(***************************************************************************)
EXTENDS Legs

MCBudgets ==
  { [requests |-> 2, agents |-> 0, tickets |-> 1, holds |-> 0, events |-> 0],
    [requests |-> 2, agents |-> 0, tickets |-> 0, holds |-> 1, events |-> 0],
    [requests |-> 1, agents |-> 0, tickets |-> 0, holds |-> 3, events |-> 0],
    [requests |-> 1, agents |-> 1, tickets |-> 0, holds |-> 0, events |-> 1],
    [requests |-> 0, agents |-> 1, tickets |-> 0, holds |-> 0, events |-> 3] }
=============================================================================
