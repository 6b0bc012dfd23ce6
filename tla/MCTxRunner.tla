---------------------------- MODULE MCTxRunner ----------------------------
(* Instance of Requests for TLC: what the services ask the runners for.     *)
EXTENDS Requests

Spec1(d, i) == [domain |-> d, id |-> i]

\* Nothing (runInTransaction), the league (free agents), both rosters and the
\* trade lock (acceptTrade), the other roster with an auction lock (slow
\* auction bids).
MCWantSets ==
  { {},
    {Spec1(1, 1)},
    {Spec1(2, 7), Spec1(2, 8), Spec1(3, 1)},
    {Spec1(2, 8), Spec1(7, 1)} }
=============================================================================
