---------------------------- MODULE MCDraftSetup ----------------------------
(* Instances of DraftSetup for TLC.                                        *)
EXTENDS DraftSetup

Preset(type, pool, rounds) == [type |-> type, pool |-> pool, rounds |-> rounds]

OneDraft == {<<Preset("snake", "all", 1)>>}
VetAndRookie == {<<Preset("snake", "vet", 1), Preset("snake", "rookie", 2)>>}
Matchups == {<<Preset("matchups", "all", 2)>>}
AllStructures == OneDraft \cup VetAndRookie \cup Matchups
RookieDraft == {Preset("snake", "rookie", 2)}

Rookies == {[season |-> 0, rounds |-> 2], [season |-> 1, rounds |-> 1]}

Spending(derby, op_, trade, draft) ==
    [derby |-> derby, op |-> op_, trade |-> trade, draft |-> draft]

\* What one behaviour spends: on a derby with a pause or another order beside
\* it; on two requests and a trade; or on a request, a trade and a new draft.
Mixes == {Spending(1, 1, 0, 0), Spending(0, 2, 1, 0), Spending(0, 1, 1, 1)}
=============================================================================
