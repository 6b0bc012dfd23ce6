----------------------------- MODULE DraftBoard -----------------------------
(***************************************************************************)
(* What the members of a league see of a draft, whatever picks, timers,    *)
(* trades and commissioners interleave: it starts once, the board grows by *)
(* one entry beyond its last, entries are removed last one first and never *)
(* altered, no player appears twice, filling the last slot completes the   *)
(* draft, and only the removal of an entry reopens a completed one.        *)
(***************************************************************************)
EXTENDS Integers

CONSTANTS Roster, Player,
          Total          \* the number of picks

VARIABLES phase,         \* "not_started", "in_progress", "paused" or "completed"
          board          \* board[k]: who was picked for whom at number k

Entry == [roster : Roster, player : Player, auto : BOOLEAN]

Init == phase = "not_started" /\ board = [k \in {} |-> {}]

\* Another member of the league joins the board behind all others.
Pick(k, e) ==
  /\ phase = "in_progress"
  /\ \A j \in DOMAIN board : j < k /\ board[j].player # e.player
  /\ board' = [j \in DOMAIN board \cup {k} |-> IF j = k THEN e ELSE board[j]]
  /\ phase' = IF k = Total THEN "completed" ELSE "in_progress"

\* The last entry leaves the board.
Undo ==
  /\ phase # "not_started"
  /\ \E k \in DOMAIN board :
       /\ \A j \in DOMAIN board : j <= k
       /\ board' = [j \in DOMAIN board \ {k} |-> board[j]]
  /\ phase' = IF phase = "completed" THEN "in_progress" ELSE phase

\* Starting, pausing, resuming and completing leave the board alone.
Direct ==
  /\ <<phase, phase'>> \in {<<"not_started", "in_progress">>, <<"in_progress", "paused">>,
                            <<"paused", "in_progress">>, <<"in_progress", "completed">>,
                            <<"paused", "completed">>}
  /\ UNCHANGED board

Next == Undo \/ Direct \/ \E k \in 1..Total, e \in Entry : Pick(k, e)

Spec == Init /\ [][Next]_<<phase, board>>
=============================================================================
