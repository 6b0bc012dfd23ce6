----------------------------- MODULE DraftSetup -----------------------------
(* The life of a league's drafts until their picks are made: creation with   *)
(* the league or by the commissioner (drafts.service.ts), the draft order    *)
(* (draft-order.service.ts), the derby (derby.service.ts, derby.job.ts), the *)
(* tradeable picks of draft_pick_assets, and the matchups draft, whose picks *)
(* are games (matchups-draft.engine.ts, matchup-draft.repository.ts).  The   *)
(* picks of players are DraftRoom's and ChessDraft's.                        *)
(*                                                                           *)
(* A transaction under a lock is one action.  The commissioner's requests    *)
(* that check first and write later, under another lock or none, are two or  *)
(* more: what was read is in "op" until the last write.                      *)
EXTENDS Derby, PickAssets

CONSTANTS
    Rosters,        \* the rosters the league may get: 1..n, in the order of joining
    Structures,     \* the drafts a league is created with, sequences of presets
    Kinds,          \* the presets of drafts created later: [type, pool, rounds]
    Policies,       \* derby timeout policies
    RoundChoices,   \* rounds the commissioner may set
    RookieChoices,  \* [season, rounds] of rookie picks offered in a vet draft
    Future,         \* the later seasons whose picks exist, {} without dynasty
    MaxDrafts,      \* bound: drafts ever created
    Budgets         \* bound: how often the actions of each kind happen

ASSUME RostersAssumption == Rosters = 1..Cardinality(Rosters) /\ Cardinality(Rosters) >= 2

\* The structures of draft-structure-presets.ts have one to three drafts.
ASSUME StructuresAssumption ==
    \A structure \in Structures : Len(structure) \in 1..3 /\ DOMAIN structure = 1..Len(structure)

ASSUME BudgetsAssumption == Budgets \subseteq [derby : Nat, op : Nat, trade : Nat, draft : Nat]

VARIABLES
    members,        \* how many rosters exist: 1..members
    drafts,         \* drafts by id, with draft_order, derby state and game picks
    assets,         \* draft_pick_assets
    schedule,       \* matchups made from game picks: <<week, {roster, roster}>>
    policy,         \* settings.derbyTimeoutPolicy
    op,             \* the commissioner's request in flight
    serial,         \* drafts created so far
    left            \* what the bounds leave
setupVars == <<members, drafts, assets, schedule, policy, op, serial, left>>

DefaultPolicy == "AUTO_RANDOM_SLOT"
NoDerby == [turn |-> <<>>]
NoOp == [kind |-> "none"]
NoRoster == 0

Spend(kind) == left[kind] > 0 /\ left' = [left EXCEPT ![kind] = @ - 1]

\* rosters.findByLeagueIdWithClient, ORDER BY id; every roster has a user.
Everyone == [i \in 1..members |-> i]

-----------------------------------------------------------------------------
(* Creation                                                                 *)

NewDraft(preset, order) ==
    [type |-> preset.type, pool |-> preset.pool, rounds |-> preset.rounds,
     status |-> "not_started", phase |-> "SETUP", order |-> order,
     confirmed |-> FALSE, derby |-> NoDerby, current |-> NoRoster, pick |-> 0,
     games |-> {}]

\* The picks of this season for the draft, and in dynasty leagues those of the
\* later seasons for nobody's draft yet.
WithPicks(before, d, rounds, order) ==
    LET ThisSeason == InsertAssets(before, Fresh(d, 0, rounds, order))
        Later == {key \in Future \X (1..rounds) \X Listed(order) : TRUE}
    IN  InsertAssets(ThisSeason, [key \in Later |->
            [owner |-> key[3], draft |-> Unlinked, pos |-> PlaceOf(order, key[3])]])

\* createLeague makes the drafts of its structure one after the other while
\* the founder's is the only roster.
PicksOf(structure) ==
    LET Then(before, d) == IF d \in DOMAIN structure
                           THEN WithPicks(before, d, structure[d].rounds, <<1>>) ELSE before
    IN  Then(Then(Then(<<>>, 1), 2), 3)

SetupInit ==
    /\ members = 1 /\ schedule = {} /\ op = NoOp
    /\ left \in Budgets
    /\ policy \in IF left.derby = 0 THEN {DefaultPolicy} ELSE Policies
    /\ \E structure \in Structures :
          /\ drafts = [d \in DOMAIN structure |-> NewDraft(structure[d], <<1>>)]
          /\ assets = PicksOf(structure)
          /\ serial = Len(structure)

\* A member joins the league: its roster gets no place in a draft's order and
\* no picks.
Join ==
    /\ members + 1 \in Rosters
    /\ members' = members + 1
    /\ UNCHANGED <<drafts, assets, schedule, policy, op, serial, left>>

\* A rookie draft takes over the picks that exist for the season; any other
\* draft gets picks of its own where none exist.
CreateDraft(preset) ==
    LET d == serial + 1
        IsRookieDraft == preset.pool = "rookie"
    IN  /\ serial < MaxDrafts /\ Spend("draft")
        /\ serial' = d
        /\ drafts' = [e \in DOMAIN drafts \union {d} |->
                         IF e = d THEN NewDraft(preset, Everyone) ELSE drafts[e]]
        /\ assets' = IF IsRookieDraft /\ OfSeason(assets, 0) # {}
                     THEN Reposition(Link(assets, 0, d), d, Everyone)
                     ELSE WithPicks(assets, d, preset.rounds, Everyone)
        /\ UNCHANGED <<members, schedule, policy, op>>

\* findAvailableForTrade: the picks of a draft that is over are used up.
Tradeable(key) ==
    assets[key].draft \in DOMAIN drafts => drafts[assets[key].draft].status # "completed"

TradePick(key, r) ==
    /\ key \in DOMAIN assets /\ assets[key].owner # r /\ r <= members
    /\ Tradeable(key) /\ Spend("trade")
    /\ assets' = Transfer(assets, key, r)
    /\ UNCHANGED <<members, drafts, schedule, policy, op, serial>>

-----------------------------------------------------------------------------
(* The commissioner's requests: check, then write                           *)

Idle == op.kind = "none"

\* getDraftOrder.
OrderOf(d) == drafts[d].order

\* What is written to a draft that is gone by then writes nothing.
Alive == op.draft \in DOMAIN drafts
Update(draft) == drafts' = [drafts EXCEPT ![op.draft] = draft]

\* The status is checked before the lock is taken, and not again.
AskRandom(d) ==
    /\ Idle /\ drafts[d].status = "not_started" /\ Spend("op")
    /\ op' = [kind |-> "random", draft |-> d]
    /\ UNCHANGED <<members, drafts, assets, schedule, policy, serial>>

Confirmed(draft, order) == [draft EXCEPT !.order = order, !.confirmed = TRUE]

Randomize ==
    /\ op.kind = "random" /\ Alive
    /\ \E order \in Orders(1..members) :
          /\ Update(Confirmed(drafts[op.draft], order))
          /\ assets' = Reposition(assets, op.draft, order)
    /\ op' = NoOp
    /\ UNCHANGED <<members, schedule, policy, serial, left>>

AskConfirm(d) ==
    /\ Idle /\ drafts[d].status = "not_started" /\ ~drafts[d].confirmed /\ Spend("op")
    /\ op' = [kind |-> "confirm", draft |-> d]
    /\ UNCHANGED <<members, drafts, assets, schedule, policy, serial>>

ConfirmOrder ==
    /\ op.kind = "confirm" /\ Alive
    /\ assets' = Reposition(assets, op.draft, OrderOf(op.draft))
    /\ Update([drafts[op.draft] EXCEPT !.confirmed = TRUE])
    /\ op' = NoOp
    /\ UNCHANGED <<members, schedule, policy, serial, left>>

\* The order is read from the picks' owners before it is written.
AskOwnership(d) ==
    /\ Idle /\ drafts[d].status = "not_started" /\ Spend("op")
    /\ Linked(assets, d) # {} /\ FirstRound(assets, 0) # {}
    /\ \E order \in OwnershipOrders(assets, 0) :
          op' = [kind |-> "ownership", draft |-> d, order |-> order]
    /\ UNCHANGED <<members, drafts, assets, schedule, policy, serial>>

OrderByOwnership ==
    /\ op.kind = "ownership" /\ Alive
    /\ Update(Confirmed(drafts[op.draft], op.order))
    /\ assets' = Reposition(assets, op.draft, op.order)
    /\ op' = NoOp
    /\ UNCHANGED <<members, schedule, policy, serial, left>>

\* updateDraftSettings writes the rounds, reads the order, and then deletes
\* the draft's picks and makes new ones in the hands of their original rosters,
\* each in a transaction of its own.
AskRounds(d, n) ==
    /\ Idle /\ drafts[d].status = "not_started" /\ n # drafts[d].rounds /\ Spend("op")
    /\ op' = [kind |-> "rounds", draft |-> d, rounds |-> n]
    /\ UNCHANGED <<members, drafts, assets, schedule, policy, serial>>

WriteRounds ==
    /\ op.kind = "rounds" /\ Alive
    /\ Update([drafts[op.draft] EXCEPT !.rounds = op.rounds])
    /\ op' = [kind |-> "repick", draft |-> op.draft, rounds |-> op.rounds,
              order |-> OrderOf(op.draft)]
    /\ UNCHANGED <<members, assets, schedule, policy, serial, left>>

DropPicks ==
    /\ op.kind = "repick" /\ Alive
    /\ assets' = DropLinked(assets, op.draft)
    /\ op' = [kind |-> "generate",
              picks |-> Fresh(op.draft, 0, op.rounds, op.order)]
    /\ UNCHANGED <<members, drafts, schedule, policy, serial, left>>

GeneratePicks ==
    /\ op.kind = "generate"
    /\ assets' = InsertAssets(assets, op.picks)
    /\ op' = NoOp
    /\ UNCHANGED <<members, drafts, schedule, policy, serial, left>>

\* Rookie picks offered in a veteran draft: unless as many exist as there are
\* rosters and rounds, the unlinked ones of the season are made anew.
AskRookiePicks(d, choice) ==
    /\ Idle /\ drafts[d].status = "not_started" /\ drafts[d].pool = "vet" /\ Spend("op")
    /\ op' = [kind |-> "rookies", draft |-> d, season |-> choice.season,
              rounds |-> choice.rounds]
    /\ UNCHANGED <<members, drafts, assets, schedule, policy, serial>>

OfferRookiePicks ==
    /\ op.kind = "rookies"
    /\ Cardinality(OfSeason(assets, op.season)) # members * op.rounds
    /\ assets' = DropUnlinked(assets, op.season)
    /\ op' = [kind |-> "generate",
              picks |-> Fresh(Unlinked, op.season, op.rounds, Everyone)]
    /\ UNCHANGED <<members, drafts, schedule, policy, serial, left>>

AskDelete(d) ==
    /\ Idle /\ drafts[d].status \notin {"in_progress", "completed"} /\ Spend("op")
    /\ op' = [kind |-> "delete", draft |-> d]
    /\ UNCHANGED <<members, drafts, assets, schedule, policy, serial>>

DeleteDraft ==
    /\ op.kind = "delete"
    /\ drafts' = [d \in DOMAIN drafts \ {op.draft} |-> drafts[d]]
    /\ assets' = DropLinked(assets, op.draft)
    /\ op' = NoOp
    /\ UNCHANGED <<members, schedule, policy, serial, left>>

\* Pause and resume write back the whole draft_state they read before the
\* lock, the derby's with it.
AskPause(d) ==
    /\ Idle /\ drafts[d].phase = "DERBY" /\ Spend("op")
    /\ drafts[d].status \in {"in_progress", "paused"}
    /\ op' = [kind |-> "pause", draft |-> d, from |-> drafts[d].status,
              derby |-> drafts[d].derby]
    /\ UNCHANGED <<members, drafts, assets, schedule, policy, serial>>

PauseOrResume ==
    /\ op.kind = "pause" /\ Alive /\ drafts[op.draft].status = op.from
    /\ Update([drafts[op.draft] EXCEPT
                  !.status = IF op.from = "paused" THEN "in_progress" ELSE "paused",
                  !.derby = op.derby])
    /\ op' = NoOp
    /\ UNCHANGED <<members, assets, schedule, policy, serial, left>>

\* The request ends with nothing written: it is refused under the lock, finds
\* nothing to do, or the process stops.
GiveUp ==
    /\ ~Idle
    /\ op' = NoOp
    /\ UNCHANGED <<members, drafts, assets, schedule, policy, serial, left>>

\* startDraft: the order is there and confirmed; the first to pick is the
\* owner of the first pick, if the draft has that pick.
Owner(d, round, r) ==
    IF <<0, round, r>> \in Linked(assets, d) THEN assets[<<0, round, r>>].owner ELSE r

StartDraft(d) ==
    /\ drafts[d].status = "not_started" /\ drafts[d].confirmed
    /\ drafts' = [drafts EXCEPT ![d].status = "in_progress", ![d].pick = 1,
                                ![d].current = Owner(d, 1, OrderOf(d)[1])]
    /\ UNCHANGED <<members, assets, schedule, policy, op, serial, left>>

-----------------------------------------------------------------------------
(* The derby                                                                *)

InDerby(d) == drafts[d].phase = "DERBY"

StartDerby(d) ==
    /\ drafts[d].status = "not_started" /\ drafts[d].phase = "SETUP"
    /\ members >= 2 /\ Spend("derby")
    /\ \E order \in Orders(1..members) :
          drafts' = [drafts EXCEPT ![d].phase = "DERBY", ![d].status = "in_progress",
                                   ![d].derby = NewDerby(order)]
    /\ UNCHANGED <<members, assets, schedule, policy, op, serial>>

WriteDerby(d, derby) ==
    /\ drafts' = [drafts EXCEPT ![d].derby = derby]
    /\ UNCHANGED assets

\* The slots become the draft order and the draft may begin, whatever its
\* status.  updatePickPositions runs beside the transaction, on a connection
\* that still sees the order from before.
TransitionToLive(d, slots) ==
    /\ drafts' = [drafts EXCEPT
                     ![d].phase = "LIVE", ![d].order = slots, ![d].confirmed = TRUE,
                     ![d].pick = 1, ![d].current = slots[1], ![d].derby = NoDerby]
    /\ assets' = Reposition(assets, d, OrderOf(d))

\* The last claim ends the derby.
SetSlot(d, claimed) ==
    IF Available(claimed) = {} THEN TransitionToLive(d, claimed.slots)
    ELSE WriteDerby(d, AdvanceToNextPicker(claimed))

\* A member claims a slot on its turn, the draft paused or not.
PickSlot(d, r, s) ==
    LET derby == drafts[d].derby
    IN  /\ InDerby(d) /\ derby # NoDerby
        /\ derby.picker = r /\ s \in Available(derby) /\ ~HasSlot(derby, r)
        /\ SetSlot(d, Claim(derby, s))
        /\ UNCHANGED <<members, schedule, policy, op, serial, left>>

\* findExpiredDerbyDrafts: a derby that runs and whose picker's time is up.
Expired(d) == InDerby(d) /\ drafts[d].status = "in_progress" /\ drafts[d].derby # NoDerby

\* The derby job, every two seconds.
Timeout(d) ==
    LET derby == drafts[d].derby
    IN  /\ Expired(d)
        /\ \/ /\ policy = "AUTO_RANDOM_SLOT"
              /\ \E s \in Available(derby) : SetSlot(d, Claim(derby, s))
           \/ policy = "PUSH_BACK_ONE" /\ WriteDerby(d, PushBackOne(derby))
           \/ policy = "PUSH_TO_END" /\ WriteDerby(d, PushToEnd(derby))
        /\ UNCHANGED <<members, schedule, policy, op, serial, left>>

-----------------------------------------------------------------------------
(* The matchups draft: a pick is a game of the picker's schedule            *)

Picking(d) == drafts[d].type = "matchups" /\ drafts[d].status = "in_progress"
                  /\ drafts[d].pick > 0

Game(r, week, opponent) == [roster |-> r, week |-> week, opponent |-> opponent]
Busy(d, r, week) == \E g \in drafts[d].games : g.roster = r /\ g.week = week
Meetings(d, r, o) == Cardinality({g \in drafts[d].games : g.roster = r /\ g.opponent = o})

\* ceil(weeks / (teams - 1))
MostMeetings(d) ==
    LET teams == Len(OrderOf(d))
    IN  IF teams < 2 THEN 0 ELSE (drafts[d].rounds + teams - 2) \div (teams - 1)

AvailableGames(d) ==
    LET me == drafts[d].current
    IN  {g \in [roster : {me}, week : 1..drafts[d].rounds, opponent : Listed(OrderOf(d))] :
            /\ g.opponent # me
            /\ ~Busy(d, me, g.week) /\ ~Busy(d, g.opponent, g.week)
            /\ Meetings(d, me, g.opponent) < MostMeetings(d)}

\* The engine reads the number of teams from draft_state.totalTeams, which
\* nothing writes.
TotalTeams == 0
IsDraftComplete(d) == drafts[d].pick >= (TotalTeams \div 2) * drafts[d].rounds

\* The rounds of a matchups draft snake.
PickerOf(d, n) ==
    LET teams == Len(OrderOf(d))
        inRound == ((n - 1) % teams) + 1
        round == ((n - 1) \div teams) + 1
    IN  OrderOf(d)[IF round % 2 = 0 THEN teams - inRound + 1 ELSE inRound]

Pair(g) == <<g.week, {g.roster, g.opponent}>>

\* finalizeDraftCompletion; nobody has drafted a player.
FinalizeGames(games) == schedule' = schedule \cup {Pair(g) : g \in games}

\* Both rows of the game are written and the draft moves on; when it is over
\* the games become the league's matchups.
TakeGame(d, g) ==
    LET draft == drafts[d]
        both == draft.games \cup {g, Game(g.opponent, g.week, g.roster)}
    IN  IF IsDraftComplete(d) \/ draft.pick >= Len(OrderOf(d)) * draft.rounds
        THEN /\ drafts' = [drafts EXCEPT ![d].games = both, ![d].status = "completed",
                                         ![d].current = NoRoster]
             /\ FinalizeGames(both)
        ELSE /\ drafts' = [drafts EXCEPT ![d].games = both, ![d].pick = @ + 1,
                                         ![d].current = PickerOf(d, draft.pick + 1)]
             /\ UNCHANGED schedule

MatchupPick(d, week, opponent) ==
    /\ Picking(d) /\ Game(drafts[d].current, week, opponent) \in AvailableGames(d)
    /\ TakeGame(d, Game(drafts[d].current, week, opponent))
    /\ UNCHANGED <<members, assets, policy, op, serial, left>>

\* performAutoPickInternal: the first week, and in it the first in the order.
AutoMatchup(d) ==
    /\ Picking(d)
    /\ \E g \in AvailableGames(d) :
          /\ \A h \in AvailableGames(d) :
                \/ g.week < h.week
                \/ /\ g.week = h.week
                   /\ PlaceOf(OrderOf(d), g.opponent) <= PlaceOf(OrderOf(d), h.opponent)
          /\ TakeGame(d, g)
    /\ UNCHANGED <<members, assets, policy, op, serial, left>>

-----------------------------------------------------------------------------
Commissioner(d) ==
    \/ AskRandom(d) \/ AskConfirm(d) \/ AskOwnership(d) \/ AskDelete(d) \/ AskPause(d)
    \/ \E n \in RoundChoices : AskRounds(d, n)
    \/ \E choice \in RookieChoices : AskRookiePicks(d, choice)
    \/ StartDraft(d) \/ StartDerby(d)

Writes ==
    \/ Randomize \/ ConfirmOrder \/ OrderByOwnership \/ WriteRounds \/ DropPicks
    \/ GeneratePicks \/ OfferRookiePicks \/ DeleteDraft \/ PauseOrResume \/ GiveUp

SetupNext ==
    \/ Join
    \/ \E preset \in Kinds : CreateDraft(preset)
    \/ \E key \in DOMAIN assets, r \in Rosters : TradePick(key, r)
    \/ Writes
    \/ \E d \in DOMAIN drafts :
          \/ Commissioner(d)
          \/ \E r \in Rosters, s \in Rosters : PickSlot(d, r, s)
          \/ Timeout(d)
          \/ \E week \in RoundChoices, r \in Rosters : MatchupPick(d, week, r)
          \/ AutoMatchup(d)

SetupSpec == SetupInit /\ [][SetupNext]_setupVars

\* The derby job runs as long as the process does.
FairSetupSpec == SetupSpec /\ \A d \in 1..MaxDrafts : WF_setupVars(d \in DOMAIN drafts /\ Timeout(d))

-----------------------------------------------------------------------------
(* Properties                                                               *)

\* In a derby the turn order still holds every roster it started with once,
\* nobody has two slots, and the one asked is the one at the current place and
\* has no slot yet: whatever the timeouts, the pushes and the stale writes of
\* pauses, somebody who may claim is asked.
DerbyInOrder ==
    \A d \in DOMAIN drafts : InDerby(d) =>
        LET derby == drafts[d].derby
        IN  /\ derby.turn \in Orders(Listed(derby.turn))
            /\ derby.picker = derby.turn[derby.idx]
            /\ ~HasSlot(derby, derby.picker)
            /\ \A s, t \in DOMAIN derby.slots :
                  derby.slots[s] = derby.slots[t] /\ s # t => derby.slots[s] = Free

\* A slot a team has claimed is its place in the order when the derby ends; it
\* is lost before only to a pause or a resume that read the draft earlier, or
\* with the draft.
StaleWrite == op.kind = "pause" /\ op' = NoOp
ClaimsAreKept ==
    [][\A d \in DOMAIN drafts \cap DOMAIN drafts' : InDerby(d) =>
          \A s \in DOMAIN drafts[d].derby.slots :
              LET roster == drafts[d].derby.slots[s]
              IN  roster # Free =>
                      \/ StaleWrite
                      \/ IF InDerby(d)' THEN drafts'[d].derby.slots[s] = roster
                         ELSE drafts'[d].order[s] = roster]_setupVars

\* A pick stays with its owner and its draft until it is traded, through new
\* drafts, orders and derbies.  It ceases to exist, and the trade with it, only
\* when its draft is deleted or gets other rounds, or when the rookie picks of
\* its season are offered anew.
PicksAreKept ==
    [][\A key \in DOMAIN assets :
          IF key \in DOMAIN assets'
          THEN /\ assets[key].draft # Unlinked => assets'[key].draft = assets[key].draft
               /\ assets'[key].owner # assets[key].owner => left'.trade < left.trade
          ELSE \/ assets[key].draft \notin DOMAIN drafts'
               \/ op.kind = "repick" /\ assets[key].draft = op.draft
               \/ op.kind = "rookies" /\ assets[key].draft = Unlinked]_setupVars

\* While a derby runs everybody in it without a slot is asked again and again,
\* and with AUTO_RANDOM_SLOT the derby comes to its end.  PUSH_BACK_ONE lets
\* two absent teams change places for ever and is left out.
Waiting(d, r) ==
    /\ d \in DOMAIN drafts /\ InDerby(d) /\ drafts[d].status = "in_progress"
    /\ r \in Listed(drafts[d].derby.turn) /\ ~HasSlot(drafts[d].derby, r)
Asked(d, r) == Waiting(d, r) /\ drafts[d].derby.picker = r
EveryoneIsAsked ==
    policy # "PUSH_BACK_ONE" =>
        \A d \in 1..MaxDrafts, r \in Rosters : Waiting(d, r) ~> (Asked(d, r) \/ ~Waiting(d, r))

\* "In matchups drafts, completion means every team has a matchup for every
\* week" (matchups-draft.engine.ts:330).
SchedulesAreComplete ==
    \A d \in DOMAIN drafts :
        drafts[d].type = "matchups" /\ drafts[d].status = "completed"
            /\ Len(drafts[d].order) % 2 = 0 =>
                \A i \in DOMAIN drafts[d].order, week \in 1..drafts[d].rounds :
                    Busy(d, drafts[d].order[i], week)
=============================================================================
