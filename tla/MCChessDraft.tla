---------------------------- MODULE MCChessDraft ----------------------------
(* An instance of ChessDraft for TLC: two rosters, one round, two players *)
(* and one rookie pick.                                                    *)
EXTENDS ChessDraft

CONSTANTS r1, r2, rookie

OneRound == <<r1, r2>>
Players == 1..2
RookieOwner == [a \in {rookie} |-> r2]
=============================================================================
