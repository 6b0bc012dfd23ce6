------------------------------- MODULE Lineups -------------------------------
(***************************************************************************)
(* The lineups of one week of a league and their points: lineups.service,  *)
(* lineups.repository, scoring.service, scoring-calculator, the best-ball  *)
(* optimizer, the stats-sync job and the scores that the finalization of   *)
(* the week writes (matchups.service).                                     *)
(*                                                                         *)
(* A lineup row has no lock of its own: a request reads it, checks, and    *)
(* upserts it in a later statement (Ask..., Write).  Weekly scores and     *)
(* best-ball lineups are computed under the LEAGUE lock, in one action     *)
(* each; the stats-sync job and the finalization of the week go through    *)
(* their steps one by one.  Points are whole numbers; live projections are *)
(* kept in parts of a point (Whole to the point).                          *)
(***************************************************************************)
EXTENDS Integers, Sequences, FiniteSets, FiniteSetsExt, SequencesExt, Functions

CONSTANTS
    Roster,        \* rosters of the week's matchup
    Player,        \* player ids
    Position,      \* position of each player
    Game,          \* the NFL game each player plays in
    FirstSquad,    \* players of each roster when the week opens
    RosterConfig,  \* roster_config of the league: slot counts that it sets
    Line,          \* stat lines a player may have: own points, points allowed
    Projection,    \* projected line of each player, or None
    Whole,         \* parts of a point in live projections
    Moves,         \* bound: players that change rosters during the week
    Wanted,        \* slots managers ask for in the instance
    None

ASSUME LineupsAssumption ==
    /\ Player \subseteq Nat /\ IsFiniteSet(Player)
    /\ Whole \in Nat \ {0} /\ Moves \in Nat
    /\ FirstSquad \in [Roster -> SUBSET Player]
    /\ \A l \in Line : l.own \in Int /\ l.pa \in Nat
    /\ None \notin Roster

VARIABLES
    bestball,  \* leagueSettings.rosterType = 'bestball'
    squad,     \* roster_players
    nfl,       \* status of each NFL game
    stats,     \* player_stats of the week
    row,       \* roster_lineups of the week
    asked,     \* upserts of requests that have passed their checks
    tick,      \* the step the stats-sync job is at
    fin,       \* the step a finalization is at
    final,     \* points of the final matchup, or None
    moves      \* auxiliary: players that have changed rosters

vars == <<bestball, squad, nfl, stats, row, asked, tick, fin, final, moves>>
world == <<bestball, squad, nfl, moves>>

-----------------------------------------------------------------------------
(* Slots                                                                    *)

Reserve == {"IR", "TAXI"}
StarterSlots == <<"QB", "RB", "WR", "TE", "FLEX", "SUPER_FLEX", "REC_FLEX",
                  "K", "DST", "DL", "LB", "DB", "IDP_FLEX">>

\* SLOT_ELIGIBILITY (DST for DEF, a keyword of proofs), and the same table in canFillSlot and validateLineup.
Eligible ==
    [QB |-> {"QB"}, RB |-> {"RB"}, WR |-> {"WR"}, TE |-> {"TE"},
     FLEX |-> {"RB", "WR", "TE"}, SUPER_FLEX |-> {"QB", "RB", "WR", "TE"},
     REC_FLEX |-> {"WR", "TE"}, K |-> {"K"}, DST |-> {"DST"}, DL |-> {"DL"},
     LB |-> {"LB"}, DB |-> {"DB"}, IDP_FLEX |-> {"DL", "LB", "DB"}]

DefaultConfig ==
    [QB |-> 1, RB |-> 2, WR |-> 2, TE |-> 1, FLEX |-> 1, SUPER_FLEX |-> 0,
     REC_FLEX |-> 0, K |-> 1, DST |-> 1, DL |-> 0, LB |-> 0, DB |-> 0,
     IDP_FLEX |-> 0, BN |-> 6, IR |-> 0, TAXI |-> 0]

Count(slot) ==
    IF slot \in DOMAIN RosterConfig THEN RosterConfig[slot] ELSE DefaultConfig[slot]

CanFill(p, slot) ==
    slot \in DOMAIN Eligible => Position[p] \in Eligible[slot]

\* A lineup maps players to slots; In(l, s) are the players in slot s.
In(lineup, slot) == {p \in DOMAIN lineup : lineup[p] = slot}
Starters(lineup) == {p \in DOMAIN lineup : lineup[p] \in ToSet(StarterSlots)}

\* The slots whose players calculateLineupPoints adds up.
Official == {"QB", "RB", "WR", "TE", "FLEX", "K", "DST"}

\* validateLineup: only bench slots are not counted.
Valid(lineup, players) ==
    /\ DOMAIN lineup \subseteq players
    /\ \A slot \in ToSet(StarterSlots) \union Reserve :
          Cardinality(In(lineup, slot)) <= Count(slot)
    /\ \A p \in DOMAIN lineup : CanFill(p, lineup[p])

-----------------------------------------------------------------------------
(* Points                                                                   *)

\* getDefensePointsAllowedScore with the default rules.
PointsAllowedScore(pa) ==
    CASE pa = 0 -> 10 [] pa \in 1..6 -> 7 [] pa \in 7..13 -> 4
      [] pa \in 14..20 -> 1 [] pa \in 21..27 -> 0 [] pa \in 28..34 -> -1
      [] OTHER -> -4

\* calculatePlayerPoints: the bracket is added for every player, whatever the
\* position; a player who is not a defence has allowed 0 points.
PlayerPoints(line) == line.own + PointsAllowedScore(line.pa)

ActualPoints(p) == IF stats[p] = None THEN 0 ELSE PlayerPoints(stats[p])
ProjectedPoints(p) ==
    IF Projection[p] # None THEN PlayerPoints(Projection[p]) ELSE ActualPoints(p)

\* calculateLineupPoints
OfficialTotal(lineup) ==
    MapThenSumSet(ActualPoints, {p \in DOMAIN lineup : lineup[p] \in Official})

\* getStarterIds and the sum of calculateWeeklyLiveActualTotalsForLeague.
LiveTotal(lineup) == MapThenSumSet(ActualPoints, Starters(lineup))

HasAnyStats(p) == stats[p] # None /\ (stats[p].own # 0 \/ stats[p].pa # 0)

\* calculateRemainingStats: what the projection has beyond the actual line,
\* with no points allowed.
RemainingLine(p) ==
    [own |-> Max({0, Projection[p].own - stats[p].own}), pa |-> 0]

\* For a defence in play: the bracket its projected points allowed lead to.
\* (The estimate is rounded down to a whole number of points allowed.)
AllowedDelta(p, left) ==
    LET actual == stats[p].pa
        final_ == actual + (Max({0, Projection[p].pa - actual}) * left) \div Whole
    IN  IF Position[p] = "DST"
        THEN PointsAllowedScore(final_) - PointsAllowedScore(actual) ELSE 0

\* Live projection of one player, with `left` parts of his game to be played.
LiveProjection(p, left) ==
    CASE nfl[Game[p]] = "before" ->
           Whole * (IF HasAnyStats(p) THEN ActualPoints(p) ELSE ProjectedPoints(p))
      [] nfl[Game[p]] = "over" -> Whole * ActualPoints(p)
      [] OTHER ->
           IF stats[p] # None /\ Projection[p] # None
           THEN Whole * (ActualPoints(p) + AllowedDelta(p, left))
                  + left * PlayerPoints(RemainingLine(p))
           ELSE Whole * ProjectedPoints(p)

ProjectedTotal(lineup, left) ==
    MapThenSumSet(LAMBDA p : LiveProjection(p, left), Starters(lineup))

-----------------------------------------------------------------------------
(* The best-ball optimizer                                                  *)

\* slotInstances: each starter slot as often as it is configured.
SlotInstances ==
    FlattenSeq([i \in DOMAIN StarterSlots |->
                  [j \in 1..Count(StarterSlots[i]) |-> StarterSlots[i]]])

\* The flow that one augmenting path leads to: the first player of the path
\* is new, each one takes the place of the next and the last a free instance.
Shift(flow, path, free) ==
    [p \in DOMAIN flow \union {path[1]} |->
       IF ~Contains(path, p) THEN flow[p]
       ELSE LET i == CHOOSE i \in DOMAIN path : path[i] = p
            IN  IF i = Len(path) THEN free ELSE flow[path[i + 1]]]

\* Paths through the residual graph that start with player p.
Shifts_Faulty(flow, p) ==
    LET free == DOMAIN SlotInstances \ Range(flow)
        flows == {Shift(flow, <<p>>, f) : f \in free}
    IN  {g \in flows : \A q \in DOMAIN g : CanFill(q, SlotInstances[g[q]])}

Shifts(flow, p) ==
    LET free == DOMAIN SlotInstances \ Range(flow)
        paths == {<<p>> \o s : s \in
                    UNION {SetToAllKPermutations(k) : k \in SUBSET DOMAIN flow}}
        flows == {Shift(flow, path, f) : path \in paths, f \in free}
    IN  {g \in flows : \A q \in DOMAIN g : CanFill(q, SlotInstances[g[q]])}

\* One round of minCostMaxFlow.  A path costs the points of its first player,
\* the others only change places: the cheapest one brings in the player with
\* the most points.  Which of equal paths the queue finds first is left open.
Augmented(flow, players, points) ==
    LET new == {p \in players \ DOMAIN flow : Shifts(flow, p) # {}}
        best == {p \in new : \A q \in new : points[q] <= points[p]}
    IN  IF new = {} THEN {flow} ELSE UNION {Shifts(flow, p) : p \in best}

Flows(players, points) ==
    LET rounds[k \in 0..Len(SlotInstances)] ==
          IF k = 0 THEN {<<>>}
          ELSE UNION {Augmented(flow, players, points) : flow \in rounds[k - 1]}
    IN  rounds[Len(SlotInstances)]

\* optimizeBestballLineup and generateBestballLineupsForLeague: players in
\* reserve keep their slots, the rest are starters or on the bench.
BestballLineups(r, points) ==
    LET old == IF row[r] = None THEN <<>> ELSE row[r].lineup
        reserve == {p \in DOMAIN old : old[p] \in Reserve}
        players == squad[r] \ reserve
    IN  {[p \in squad[r] \union reserve |->
            IF p \in reserve THEN old[p]
            ELSE IF p \in DOMAIN flow THEN SlotInstances[flow[p]] ELSE "BN"]
           : flow \in Flows(players, points)}

-----------------------------------------------------------------------------
(* Rows                                                                     *)

NewRow(lineup) ==
    [lineup |-> lineup, locked |-> FALSE, total |-> None, live |-> None,
     projected |-> None]

\* INSERT ... ON CONFLICT DO UPDATE SET lineup: the rest of the row stays.
Upsert(old, lineup) ==
    IF old = None THEN NewRow(lineup) ELSE [old EXCEPT !.lineup = lineup]

Locked(r) == row[r] # None /\ row[r].locked
Update(change(_)) == [r \in Roster |-> IF row[r] = None THEN None ELSE change(row[r])]

\* movePlayerInLineup
Moved(lineup, p, slot) ==
    [q \in DOMAIN lineup \union {p} |-> IF q = p THEN slot ELSE lineup[q]]

Bench(r) == [p \in squad[r] |-> "BN"]

TypeOK ==
    /\ bestball \in BOOLEAN
    /\ squad \in [Roster -> SUBSET Player]
    /\ nfl \in [Range(Game) -> {"before", "live", "over"}]
    /\ stats \in [Player -> Line \union {None}]
    /\ \A r \in Roster : row[r] # None =>
         /\ DOMAIN row[r].lineup \subseteq Player
         /\ row[r].locked \in BOOLEAN
         /\ row[r].total \in Int \union {None}
    /\ tick \in {"idle", "generate", "live", "lock"}
    /\ fin \in {"idle", "score", "commit"}
    /\ moves \in 0..Moves

Init ==
    /\ bestball \in BOOLEAN
    /\ squad = FirstSquad
    /\ nfl = [g \in Range(Game) |-> "before"]
    /\ stats = [p \in Player |-> None]
    /\ row = [r \in Roster |-> None]
    /\ asked = None /\ tick = "idle" /\ fin = "idle" /\ final = None /\ moves = 0

-----------------------------------------------------------------------------
(* Requests of managers and of the commissioner                             *)

\* getLineup of a week without a row: everybody on the bench.
View(r) ==
    /\ asked = None /\ row[r] = None
    /\ asked' = [roster |-> r, lineup |-> Bench(r)]
    /\ UNCHANGED <<world, stats, row, tick, fin, final>>

\* setLineup, up to its upsert.
AskSet(r, lineup) ==
    /\ asked = None /\ ~bestball /\ ~Locked(r)
    /\ Valid(lineup, squad[r])
    /\ asked' = [roster |-> r, lineup |-> lineup]
    /\ UNCHANGED <<world, stats, row, tick, fin, final>>

AskMove_Faulty(r, p, slot) ==
    /\ asked = None /\ row[r] # None
    /\ ~bestball /\ ~Locked(r)
    /\ p \in squad[r] /\ CanFill(p, slot)
    /\ asked' = [roster |-> r, lineup |-> Moved(row[r].lineup, p, slot)]
    /\ UNCHANGED <<world, stats, row, tick, fin, final>>

\* movePlayer of a week that has a row (getLineup has created it).
AskMove(r, p, slot) ==
    /\ asked = None /\ row[r] # None
    /\ ~bestball /\ ~Locked(r)
    /\ p \in squad[r] /\ CanFill(p, slot)
    /\ Valid(Moved(row[r].lineup, p, slot), squad[r])
    /\ asked' = [roster |-> r, lineup |-> Moved(row[r].lineup, p, slot)]
    /\ UNCHANGED <<world, stats, row, tick, fin, final>>

\* The upsert of a request: nothing is read again.
Write ==
    /\ asked # None
    /\ row' = [row EXCEPT ![asked.roster] = Upsert(@, asked.lineup)]
    /\ asked' = None
    /\ UNCHANGED <<world, stats, tick, fin, final>>

\* The rows that are there.
AllLocked == Update(LAMBDA x : [x EXCEPT !.locked = TRUE])

\* lockLineups
LockLineups ==
    /\ row' = AllLocked
    /\ UNCHANGED <<world, stats, asked, tick, fin, final>>

\* updateLeague: the roster type may change until the season starts.
ChangeRosterType ==
    /\ \A g \in Range(Game) : nfl[g] = "before"
    /\ bestball' = ~bestball
    /\ UNCHANGED <<squad, nfl, moves, stats, row, asked, tick, fin, final>>

\* Scores of a week, at the commissioner's request.
Scored == Update(LAMBDA x : [x EXCEPT !.total = OfficialTotal(x.lineup)])

CalculateWeeklyScores ==
    /\ row' = Scored
    /\ UNCHANGED <<world, stats, asked, tick, fin, final>>

-----------------------------------------------------------------------------
(* The world: trades and drops (RosterMoves, TradeLifecycle), NFL games     *)

\* ... to another roster or, dropped, to none.
PlayerMoves(p, r, s) ==
    /\ moves < Moves /\ p \in squad[r] /\ r # s
    /\ squad' = [x \in Roster |-> IF x = s THEN squad[x] \union {p} ELSE squad[x] \ {p}]
    /\ moves' = moves + 1
    /\ UNCHANGED <<bestball, nfl, stats, row, asked, tick, fin, final>>

GameGoesOn(g) ==
    /\ nfl[g] # "over"
    /\ nfl' = [nfl EXCEPT ![g] = IF @ = "before" THEN "live" ELSE "over"]
    /\ UNCHANGED <<bestball, squad, moves, stats, row, asked, tick, fin, final>>

-----------------------------------------------------------------------------
(* The stats-sync job                                                       *)

Generated(r, points) == IF squad[r] = {} THEN {row[r]}
                        ELSE {Upsert(row[r], l) : l \in BestballLineups(r, points)}

GenerateBestball(points) ==
    IF bestball
    THEN \E new \in [Roster -> UNION {Generated(r, points) : r \in Roster}] :
            /\ \A r \in Roster : new[r] \in Generated(r, points)
            /\ row' = new
    ELSE UNCHANGED row

\* 'live_projected' and 'final' points (buildPointsMap).
LivePoints == [p \in Player |-> ProjectedPoints(p)]
FinalPoints == [p \in Player |-> ActualPoints(p)]

\* The lines of players whose games have begun come in, one per tick at most;
\* a league whose week is final is left alone.
TickSync ==
    /\ tick = "idle"
    /\ \/ UNCHANGED stats
       \/ \E p \in Player, l \in Line :
             /\ nfl[Game[p]] # "before"
             /\ Position[p] # "DST" => l.pa = 0
             /\ stats' = [stats EXCEPT ![p] = l]
    /\ tick' = IF final = None THEN "generate" ELSE "lock"
    /\ UNCHANGED <<world, row, asked, fin, final>>

TickGenerate ==
    /\ tick = "generate" /\ tick' = "live"
    /\ GenerateBestball(LivePoints)
    /\ UNCHANGED <<world, stats, asked, fin, final>>

\* batchUpdateLivePoints: live actual totals, then live projected totals with
\* what is left to play.
WithLivePoints(left) ==
    Update(LAMBDA x : [x EXCEPT !.live = LiveTotal(x.lineup),
                                !.projected = ProjectedTotal(x.lineup, left)])

TickLive ==
    /\ tick = "live" /\ tick' = "lock"
    /\ \E left \in 1..Whole - 1 : row' = WithLivePoints(left)
    /\ UNCHANGED <<world, stats, asked, fin, final>>

\* True on every day but Wednesday and the Thursday before the game, and so on
\* a Tuesday before any game: the calendar is left open.
PastThursdayLockTime == BOOLEAN

\* checkAndLockLineups of thursday_2020 leagues.
TickLock ==
    /\ tick = "lock" /\ tick' = "idle"
    /\ \E past \in PastThursdayLockTime : row' = IF past THEN AllLocked ELSE row
    /\ UNCHANGED <<world, stats, asked, fin, final>>

-----------------------------------------------------------------------------
(* Finalization of the week                                                 *)

\* No game is in progress at the moment; a best-ball league gets its lineups
\* from the actual points.
FinalizeStart ==
    /\ fin = "idle" /\ fin' = "score"
    /\ \A g \in Range(Game) : nfl[g] # "live"
    /\ GenerateBestball(FinalPoints)
    /\ UNCHANGED <<world, stats, asked, tick, final>>

\* The scores are written again even when the week turns out to be final.
FinalizeScore ==
    /\ fin = "score" /\ fin' = "commit"
    /\ row' = Scored
    /\ UNCHANGED <<world, stats, asked, tick, final>>

Total(r) == IF row[r] = None \/ row[r].total = None THEN 0 ELSE row[r].total

FinalizeCommit ==
    /\ fin = "commit" /\ fin' = "idle"
    /\ final' = IF final = None THEN [r \in Roster |-> Total(r)] ELSE final
    /\ UNCHANGED <<world, stats, row, asked, tick>>

Next ==
    \/ \E r \in Roster : View(r)
    \/ \E r \in Roster : \E lineup \in [squad[r] -> Wanted] : AskSet(r, lineup)
    \/ \E r \in Roster, p \in Player, slot \in Wanted : AskMove(r, p, slot)
    \/ Write
    \/ LockLineups
    \/ ChangeRosterType
    \/ CalculateWeeklyScores
    \/ \E p \in Player, r \in Roster, s \in Roster \union {None} : PlayerMoves(p, r, s)
    \/ \E g \in Range(Game) : GameGoesOn(g)
    \/ TickSync \/ TickGenerate \/ TickLive \/ TickLock
    \/ FinalizeStart \/ FinalizeScore \/ FinalizeCommit

Spec == Init /\ [][Next]_vars

-----------------------------------------------------------------------------
(* Properties                                                               *)

\* Whatever requests, moves of players, locks and jobs come between the check
\* of a lineup and its upsert, a stored lineup never has more players in a
\* slot than the league's configuration allows, nor a starter whose position
\* the slot does not take (validateLineup, optimizeBestballLineup).
LegalLineups ==
    \A r \in Roster : row[r] # None =>
       LET l == row[r].lineup
       IN  /\ \A slot \in ToSet(StarterSlots) \union Reserve :
                 Cardinality(In(l, slot)) <= Count(slot)
           /\ \A p \in DOMAIN l : CanFill(p, l[p])

\* Every lineup that players could be put in, as a reference: injections of
\* sets of players into slot instances.
Placements(players) ==
    UNION {{f \in Injection(s, DOMAIN SlotInstances) :
              \A p \in s : CanFill(p, SlotInstances[f[p]])} : s \in SUBSET players}

SumOf(points, players) == MapThenSumSet(LAMBDA p : points[p], players)

IsBest(lineup, players, points) ==
    LET mine == Starters(lineup)
    IN  \A f \in Placements(players) :
          \/ Cardinality(DOMAIN f) < Cardinality(mine)
          \/ /\ Cardinality(DOMAIN f) = Cardinality(mine)
             /\ SumOf(points, DOMAIN f) <= SumOf(points, mine)

\* A best-ball lineup that the job or the finalization generates fills as many
\* starter slots as can be filled and, with that many, no other choice of
\* players has more points: the augmenting paths of minCostMaxFlow never have
\* to give up a player they brought in.
BestLineup ==
    [][/\ bestball
       /\ (tick = "generate" /\ tick' = "live") \/ (fin = "idle" /\ fin' = "score")
       => \A r \in Roster : squad[r] # {} =>
            IsBest(row'[r].lineup,
                   {p \in squad[r] : row'[r].lineup[p] \notin Reserve},
                   IF fin' # fin THEN FinalPoints ELSE LivePoints)]_vars

\* The total of a week's lineup is the sum over its starters, every slot that
\* is not the bench, injured reserve or the taxi squad ("Get all starter
\* player IDs from a lineup").
EveryStarterCounts ==
    [][\A r \in Roster :
         row[r] # None /\ row'[r] # None /\ row'[r].total # row[r].total =>
            row'[r].total = LiveTotal(row[r].lineup)]_vars

\* A week is final only after the last of its games ("Please wait until all
\* games are complete.").  The code asks whether a game is in progress: a
\* week can be finalized between its Thursday and its Sunday games.
FinalAfterAllGames == final # None => \A g \in Range(Game) : nfl[g] = "over"
=============================================================================
