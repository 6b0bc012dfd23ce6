----------------------------- MODULE PickAssets -----------------------------
(* The table draft_pick_assets (draft-pick-asset.repository.ts) of a league: *)
(* a function from its unique key <<season, round, original roster>> to      *)
(*   owner   current_owner_roster_id                                         *)
(*   draft   draft_id, Unlinked for a pick of a future season                *)
(*   pos     original_pick_position                                          *)
(* Season 0 is the league's, season n the n-th after it.                     *)
EXTENDS Integers, Sequences, FiniteSets

Unlinked == 0

PlaceOf(order, r) == CHOOSE i \in DOMAIN order : order[i] = r
Listed(order) == {order[i] : i \in DOMAIN order}

\* generatePickAssetsForDraft and generateFuturePickAssets: one pick per round
\* and entry of the order, owned by the entry.
Fresh(draft, season, rounds, order) ==
    [key \in {season} \X (1..rounds) \X Listed(order) |->
        [owner |-> key[3], draft |-> draft, pos |-> PlaceOf(order, key[3])]]

\* For the mutant: ON CONFLICT ... DO UPDATE.
InsertAssets_Faulty(assets, new) ==
    [key \in DOMAIN assets \union DOMAIN new |->
        IF key \in DOMAIN new THEN new[key] ELSE assets[key]]

\* ON CONFLICT (league_id, season, round, original_roster_id) DO NOTHING.
InsertAssets(assets, new) ==
    [key \in DOMAIN assets \union DOMAIN new |->
        IF key \in DOMAIN assets THEN assets[key] ELSE new[key]]

Linked(assets, draft) == {key \in DOMAIN assets : assets[key].draft = draft}
OfSeason(assets, season) == {key \in DOMAIN assets : key[1] = season}

\* linkAssetsToDraft: the picks of the season no draft has yet.
Link(assets, season, draft) ==
    [key \in DOMAIN assets |->
        IF key[1] = season /\ assets[key].draft = Unlinked
        THEN [assets[key] EXCEPT !.draft = draft] ELSE assets[key]]

\* updatePickPositions: the linked picks whose original roster is in the order.
Reposition(assets, draft, order) ==
    [key \in DOMAIN assets |->
        IF assets[key].draft = draft /\ key[3] \in Listed(order)
        THEN [assets[key] EXCEPT !.pos = PlaceOf(order, key[3])] ELSE assets[key]]

Without(assets, keys) == [key \in DOMAIN assets \ keys |-> assets[key]]

\* deleteByDraftId, and what deleting the draft takes along.
DropLinked(assets, draft) == Without(assets, Linked(assets, draft))

\* deleteUnlinkedPicksForSeason
DropUnlinked(assets, season) ==
    Without(assets, OfSeason(assets, season) \cap Linked(assets, Unlinked))

Transfer(assets, key, roster) == [assets EXCEPT ![key].owner = roster]

\* getRound1OwnershipOrder: the owners of first-round picks, each once, by
\* their earliest position; owners of equal positions come in any order.
FirstRound(assets, season) == {key \in OfSeason(assets, season) : key[2] = 1}
Earliest(assets, season, roster) ==
    LET places == {assets[key].pos : key \in {k \in FirstRound(assets, season) :
                                                  assets[k].owner = roster}}
    IN  CHOOSE p \in places : \A q \in places : p <= q
OwnershipOrders(assets, season) ==
    LET owners == {assets[key].owner : key \in FirstRound(assets, season)}
    IN  {s \in [1..Cardinality(owners) -> owners] :
            /\ \A i, j \in DOMAIN s : i # j => s[i] # s[j]
            /\ \A i, j \in DOMAIN s : i < j =>
                  Earliest(assets, season, s[i]) <= Earliest(assets, season, s[j])}
=============================================================================
