------------------------------ MODULE MCLineups ------------------------------
(* Instances of Lineups for TLC: a roster with two running backs and a     *)
(* receiver, and two NFL games.                                              *)
EXTENDS Lineups

CONSTANTS r1

Players == 1..3
Positions == <<"RB", "WR", "RB">>
Games == <<"thu", "thu", "sun">>
Squads == [r \in {r1} |-> Players]
Config == [QB |-> 0, RB |-> 1, WR |-> 0, TE |-> 0, FLEX |-> 1,
           SUPER_FLEX |-> 0, REC_FLEX |-> 0, K |-> 0, DST |-> 0, IR |-> 0]
SuperConfig == [Config EXCEPT !.RB = 0, !.SUPER_FLEX = 1]
Lines == {[own |-> -12, pa |-> 0]}
Projections == <<None, [own |-> 0, pa |-> 0], None>>

\* The Sunday game begins after the Thursday game.
InOrder == nfl'["sun"] # "before" => nfl'["thu"] = "over"

\* What the checked properties and the guards depend on: no points of rows.
WithoutPoints ==
    <<bestball, squad, nfl, stats, asked, tick, fin, final = None, moves,
      [r \in Roster |-> IF row[r] = None THEN None
                        ELSE <<row[r].lineup, row[r].locked>>]>>
=============================================================================
