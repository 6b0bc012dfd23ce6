----------------------------- MODULE MCDraftRoom ----------------------------
(* Instance of DraftRoom for TLC: r1 and r2 draft for two rounds.           *)
(* Players are interchangeable, so that a pick that takes a free one need   *)
(* only take the first of them: NextFree stands for the symmetry, which     *)
(* TLC cannot use where it checks liveness.                                 *)
EXTENDS DraftRoom

CONSTANTS r1, r2

MCOrder == <<r1, r2>>
MCRanking == <<"p1", "p2", "p3", "p4">>
MCPlayers == {MCRanking[i] : i \in DOMAIN MCRanking}

Taken(b) == {b[k].player : k \in DOMAIN b}

NextFree ==
  \A p \in Taken(board') \ Taken(board) :
    \A i, j \in DOMAIN MCRanking :
      i < j /\ MCRanking[j] = p => MCRanking[i] \in Taken(board)
=============================================================================
