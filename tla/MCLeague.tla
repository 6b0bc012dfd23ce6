------------------------------ MODULE MCLeague ------------------------------
(* Instances of League for TLC.                                            *)
EXTENDS League

CONSTANTS u1, u2, u3

Spending(member, setting, season_, crash) ==
    [member |-> member, setting |-> setting, season |-> season_, crash |-> crash]

\* What one behaviour spends: on members, on the schedule and its finals, or
\* on the week and the phase.
Mixes == {Spending(3, 2, 0, 0), Spending(2, 0, 3, 0), Spending(1, 1, 3, 0),
          Spending(0, 1, 5, 1)}
Opening == {Spending(1, 0, 3, 0)}
=============================================================================
