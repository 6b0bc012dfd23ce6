---------------------------- MODULE MCRosterMoves ----------------------------
(* Instance of RosterMoves for TLC: two rosters, a free agent p1, p2 on the *)
(* first roster and p3 on the second, and one operation of every kind that  *)
(* can meet another over them.                                              *)
EXTENDS RosterMoves, TLC

CONSTANTS r1, r2, p1, p2, p3

MCInitRows ==
  { [roster |-> r1, player |-> p2, via |-> "draft"],
    [roster |-> r2, player |-> p3, via |-> "draft"] }

Give(p, from, to) == [player |-> p, from |-> from, to |-> to]

MCOps ==
  { [kind |-> "add", roster |-> r1, add |-> p1],
    [kind |-> "add", roster |-> r2, add |-> p1],
    [kind |-> "drop", roster |-> r1, drop |-> p2],
    [kind |-> "swap", roster |-> r1, add |-> p1, drop |-> p2],
    [kind |-> "waiver", roster |-> r2, add |-> p1, drop |-> None],
    [kind |-> "waiver", roster |-> r2, add |-> p2, drop |-> None],
    [kind |-> "waiver", roster |-> r2, add |-> p2, drop |-> p3],
    [kind |-> "waiver", roster |-> r1, add |-> p1, drop |-> p2],
    [kind |-> "trade", items |-> {Give(p2, r1, r2), Give(p3, r2, r1)}],
    [kind |-> "trade", items |-> {Give(p2, r2, r1)}] }

Symmetry == Permutations(Tx)
=============================================================================
