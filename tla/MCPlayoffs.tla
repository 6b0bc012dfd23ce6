----------------------------- MODULE MCPlayoffs -----------------------------
(* Instances of Playoffs for TLC.                                           *)
EXTENDS Playoffs

CONSTANTS p1, p2

Pool == {p1, p2}
TwoWeekRounds4 == <<2, 2>>
TwoWeekRounds6 == <<2, 2, 2>>
SingleWeekRounds == <<1, 1>>

\* A first game goes to the first roster.  The last game of a winners series
\* at position 1 then levels it (the seed decides) or turns it; the one at
\* position 2 turns it.  Third place and consolation have one outcome.
EitherSide(g) ==
    CASE g.bt # "WINNERS" \/ g.game < g.len -> {<<1, 0>>}
      [] g.pos = 1 -> {<<0, 1>>, <<0, 2>>}
      [] OTHER -> {<<0, 2>>}
=============================================================================
