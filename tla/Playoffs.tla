------------------------------ MODULE Playoffs ------------------------------
(***************************************************************************)
(* The playoff bracket of one league and season: PlayoffService and its    *)
(* repository (modules/playoffs), the resolution rules of domain/playoff,  *)
(* and the commissioner's finalisation of a week (MatchupService), as far  *)
(* as it decides playoff games.                                            *)
(*                                                                         *)
(* Every request of the commissioner runs in two steps, because the        *)
(* service does: it reads and validates on the pool, then it takes the     *)
(* LEAGUE lock (finalisation: the LINEUP locks) and writes with what it    *)
(* read.  The two steps of different requests interleave.                  *)
(*                                                                         *)
(* A roster is its place in the standings the bracket is seeded from:      *)
(* seed s of the winners bracket is roster s, seed s of the consolation    *)
(* bracket is roster PlayoffTeams + s.  Points are decided per game by     *)
(* the environment when its week is finalised.  The code's series id       *)
(* (a uuid, or null) is the triple bracket type, round, position.          *)
(***************************************************************************)
EXTENDS Integers, Sequences, FiniteSets

CONSTANTS
    PlayoffTeams,       \* 4, 6 or 8
    ConsolationTeams,   \* 4, 6 or 8, or 0 for consolationType 'NONE'
    EnableThirdPlace,   \* enableThirdPlaceGame of the request
    WeeksByRound,       \* weeks of each round, 1 or 2
    StartWeek,          \* first playoff week
    Requests,           \* requests the server handles at the same time
    Outcomes(_),        \* points a game can end with
    MaxFinalizers,      \* bound: finalisations in progress at the same time
    MaxBrackets,        \* bound: brackets generated in all
    Null

ASSUME BracketAssumption ==
    /\ PlayoffTeams \in {4, 6, 8}
    /\ ConsolationTeams \in {0, 4, 6, 8}
    /\ EnableThirdPlace \in BOOLEAN
    /\ StartWeek \in 1..18
    /\ Len(WeeksByRound) = (IF PlayoffTeams = 4 THEN 2 ELSE 3)
    /\ \A r \in DOMAIN WeeksByRound : WeeksByRound[r] \in {1, 2}
    /\ MaxBrackets \in Nat /\ IsFiniteSet(Requests)

VARIABLES
    bracket,    \* the playoff_brackets row of the season, or Null
    matchups,   \* the playoff rows of matchups
    req,        \* what each request has read, or Null
    made        \* brackets created so far: the next row id

bracketVars == <<bracket, matchups, req, made>>

BracketTypes == {"WINNERS", "THIRD_PLACE", "CONSOLATION"}

-----------------------------------------------------------------------------
(* Rounds, weeks and the first-round pairings                               *)

CalculateTotalRounds(teams) == IF teams = 4 THEN 2 ELSE 3

TotalRounds == CalculateTotalRounds(PlayoffTeams)
RoundsOf(bt) ==
    IF bt = "CONSOLATION" THEN CalculateTotalRounds(ConsolationTeams) ELSE TotalRounds
TeamsOf(bt) == IF bt = "CONSOLATION" THEN ConsolationTeams ELSE PlayoffTeams

\* weeksByRound?.[round - 1] ?? 1
WeeksOf(r) == IF r \in DOMAIN WeeksByRound THEN WeeksByRound[r] ELSE 1

WeekStart_Faulty(r) == StartWeek + (IF r > 2 THEN WeeksOf(2) ELSE 0)
\* No bracket has a fourth round.
WeekStart(r) ==
    StartWeek + (IF r > 1 THEN WeeksOf(1) ELSE 0) + (IF r > 2 THEN WeeksOf(2) ELSE 0)

WeekEnd(r) == WeekStart(r) + WeeksOf(r) - 1

PlayoffWeeks == StartWeek..(StartWeek + 5)

\* Position, better seed, other seed of every first-round pairing.
FirstRound(teams) ==
    CASE teams = 4 -> {<<1, 1, 4>>, <<2, 2, 3>>}
      [] teams = 6 -> {<<1, 3, 6>>, <<2, 4, 5>>}
      [] teams = 8 -> {<<1, 1, 8>>, <<2, 4, 5>>, <<3, 3, 6>>, <<4, 2, 7>>}
      [] OTHER -> {}

ByeSeeds(teams) == IF teams = 6 THEN {1, 2} ELSE {}

SeedRoster(bt, s) == IF bt = "CONSOLATION" THEN PlayoffTeams + s ELSE s

\* The row of playoff_seeds of a seed.
SeedRow(bt, s) == [roster |-> SeedRoster(bt, s), seed |-> s]

-----------------------------------------------------------------------------
(* Rows of matchups                                                         *)

\* One row per week of the round: the games of a series, or its single game.
SeriesRows(bid, bt, r, pos, a, sa, b, sb) ==
    {[bid |-> bid, bt |-> bt, round |-> r, pos |-> pos, game |-> k, len |-> WeeksOf(r),
      week |-> WeekStart(r) + k - 1, a |-> a, sa |-> sa, b |-> b, sb |-> sb,
      final |-> FALSE, pa |-> 0, pb |-> 0] : k \in 1..WeeksOf(r)}

SlotOf(g) == <<g.bt, g.round, g.pos, g.game>>

\* INSERT ... ON CONFLICT (bracket type, round, position, game) DO NOTHING
WithRows(gs, rows) ==
    gs \union {g \in rows : \A h \in gs : SlotOf(h) # SlotOf(g)}

\* series_id is only written for rounds of more than one week.
HasSeries(g) == g.len > 1
SeriesOf(g) == {h \in matchups : HasSeries(h) /\ h.bt = g.bt /\ h.round = g.round /\ h.pos = g.pos}

IsComplete(series) ==
    \A g \in series : Cardinality({h \in series : h.final}) >= g.len

SomeGame(series) == CHOOSE g \in series : TRUE

\* resolveMatchupWinner, resolveSeriesWinner: points, then seed, then roster.
Resolve(a, sa, ta, b, sb, tb) ==
    IF \/ ta > tb
       \/ ta = tb /\ sa < sb
       \/ ta = tb /\ sa = sb /\ a < b
    THEN a ELSE b

GameWinner(g) == Resolve(g.a, g.sa, g.pa, g.b, g.sb, g.pb)

\* A sum over the games of a series, of which there are at most two.
SumOver(series, Points(_)) ==
    LET Of(k) == IF \E g \in series : g.game = k
                 THEN Points(CHOOSE g \in series : g.game = k) ELSE 0
    IN  Of(1) + Of(2)
PointsA(g) == g.pa
PointsB(g) == g.pb
SeriesWinner_Faulty(series) ==
    LET g == SomeGame(series)
    IN  IF SumOver(series, PointsA) >= SumOver(series, PointsB) THEN g.a ELSE g.b
SeriesWinner(series) ==
    LET g == SomeGame(series)
    IN  Resolve(g.a, g.sa, SumOver(series, PointsA), g.b, g.sb, SumOver(series, PointsB))

SeriesLoser(series) ==
    LET g == SomeGame(series) IN IF SeriesWinner(series) = g.a THEN g.b ELSE g.a
SeedIn(series, roster) ==
    LET g == SomeGame(series) IN IF roster = g.a THEN g.sa ELSE g.sb

\* getFinalizedSeriesEndingInWeek: only rows that carry a series id count.
CompletedSeries(bt, week) ==
    {s \in {SeriesOf(g) : g \in {h \in matchups : /\ h.bt = bt /\ h.week = week
                                              /\ h.final /\ HasSeries(h)
                                              /\ h.game = h.len}} : IsComplete(s)}

AllSeriesComplete(bt, r) ==
    LET all == {SeriesOf(g) : g \in {h \in matchups : h.bt = bt /\ h.round = r /\ HasSeries(h)}}
    IN  all # {} /\ \A s \in all : IsComplete(s)

GamesOfType(bt) == {g \in matchups : g.bt = bt}

RoundExists(bt, r) == \E g \in GamesOfType(bt) : g.round = r

-----------------------------------------------------------------------------
(* The rows that an advance creates                                         *)

Winners(completed) ==
    {[roster |-> SeriesWinner(s), seed |-> SeedIn(s, SeriesWinner(s)), pos |-> SomeGame(s).pos]
        : s \in completed}
Losers(completed) ==
    {[roster |-> SeriesLoser(s), seed |-> SeedIn(s, SeriesLoser(s))] : s \in completed}

\* How many winners come before one in the order of their bracket positions.
Place(w, winners) == Cardinality({v.pos : v \in winners} \cap (1..(w.pos - 1)))

PairRows(bid, bt, r, pos, x, y) ==
    SeriesRows(bid, bt, r, pos, x.roster, x.seed, y.roster, y.seed)

\* Round 2 of a six-team bracket: the byes meet 4v5 (position 2) and 3v6.
ByeRows(bid, bt, winners) ==
    LET At(p) == CHOOSE w \in winners : w.pos = p
    IN  PairRows(bid, bt, 2, 1, SeedRow(bt, 1), At(2))
        \union PairRows(bid, bt, 2, 2, SeedRow(bt, 2), At(1))

\* In any other round the winners meet two by two.
Pairs(winners) ==
    {x \in winners \X winners : /\ Place(x[1], winners) % 2 = 0
                               /\ Place(x[2], winners) = Place(x[1], winners) + 1}

NextRoundRows(bid, bt, r, completed) ==
    LET winners == Winners(completed)
    IN  IF TeamsOf(bt) = 6 /\ r = 2 /\ {1, 2} \subseteq {w.pos : w \in winners}
        THEN ByeRows(bid, bt, winners)
        ELSE UNION {PairRows(bid, bt, r, (Place(x[1], winners) \div 2) + 1, x[1], x[2])
                        : x \in Pairs(winners)}

ThirdPlaceRows(bid, completed) ==
    LET losers == Losers(completed)
    IN  IF Cardinality(losers) = 2 /\ ~RoundExists("THIRD_PLACE", TotalRounds)
        THEN UNION {PairRows(bid, "THIRD_PLACE", TotalRounds, 2, x[1], x[2])
                        : x \in {y \in losers \X losers : y[1].seed < y[2].seed}}
        ELSE {}

\* advanceWinnersBracket, advanceConsolationBracket below their last round.
CreatedBy(bid, bt, r, week) ==
    LET completed == CompletedSeries(bt, week)
    IN  IF r = 0 \/ r = RoundsOf(bt) \/ completed = {} \/ ~AllSeriesComplete(bt, r)
        THEN {}
        ELSE (IF bt = "WINNERS" /\ r = TotalRounds - 1 /\ EnableThirdPlace
              THEN ThirdPlaceRows(bid, completed) ELSE {})
             \union
             (IF RoundExists(bt, r + 1) THEN {}
              ELSE NextRoundRows(bid, bt, r + 1, completed))

\* The winner a last round decides, or Null.
DecidedBy(bt, r, week) ==
    LET completed == CompletedSeries(bt, week)
    IN  IF r = RoundsOf(bt) /\ completed # {}
        THEN SeriesWinner(CHOOSE s \in completed : TRUE) ELSE Null

-----------------------------------------------------------------------------
(* Completion                                                               *)

IsBracketFullyComplete(b) ==
    /\ b.champion # Null
    /\ EnableThirdPlace => b.third # Null
    /\ ConsolationTeams # 0 => b.consolation # Null

\* finalizeBracketIfComplete, called after every winner that is set.
FinalizedIfComplete(b) ==
    IF IsBracketFullyComplete(b) THEN [b EXCEPT !.status = "completed"] ELSE b

\* setChampion, setConsolationWinner, setThirdPlaceWinner: what is decided.
WithWinners(b, first, cons, third) ==
    [b EXCEPT !.champion = IF first # Null THEN first ELSE @,
              !.consolation = IF cons # Null THEN cons ELSE @,
              !.third = IF third # Null THEN third ELSE @]

HasStartedMatchups == \E g \in matchups : g.final \/ g.pa > 0 \/ g.pb > 0

-----------------------------------------------------------------------------
(* Requests                                                                 *)

BracketInit ==
    /\ bracket = Null
    /\ matchups = {}
    /\ req = [p \in Requests |-> Null]
    /\ made = 0

\* An existing bracket is answered with its view; otherwise the pool reads
\* (conflicting regular games, standings, team counts) have all passed.
GenerateStart(p) ==
    /\ req[p] = Null
    /\ bracket = Null
    /\ made < MaxBrackets
    /\ req' = [req EXCEPT ![p] = [op |-> "generate"]]
    /\ UNCHANGED <<bracket, matchups, made>>

FirstRoundRows(bid, bt) ==
    UNION {PairRows(bid, bt, 1, x[1], SeedRow(bt, x[2]), SeedRow(bt, x[3]))
               : x \in FirstRound(TeamsOf(bt))}

\* A row of playoff_brackets, whose winners are rosters or not decided yet.
Winner == (1..(PlayoffTeams + ConsolationTeams)) \union {Null}
Bracket ==
    [id : 1..MaxBrackets, status : {"pending", "active", "completed"},
     champion : Winner, third : Winner, consolation : Winner]

ASSUME NullAssumption == Null \notin Bracket

NewBracket(id) ==
    [id |-> id, status |-> "pending", champion |-> Null, third |-> Null, consolation |-> Null]

\* Under the LEAGUE lock.  UNIQUE (league_id, season) rolls a second one back.
GenerateCommit(p) ==
    /\ req[p] # Null /\ req[p].op = "generate"
    /\ req' = [req EXCEPT ![p] = Null]
    /\ IF bracket # Null \/ made = MaxBrackets
       THEN UNCHANGED <<bracket, matchups, made>>
       ELSE /\ made' = made + 1
            /\ bracket' = NewBracket(made')
            /\ matchups' = WithRows(WithRows(matchups, FirstRoundRows(made', "WINNERS")),
                                 IF ConsolationTeams = 0 THEN {}
                                 ELSE FirstRoundRows(made', "CONSOLATION"))

\* hasStartedMatchups is asked before the lock is taken.
DeleteStart(p) ==
    /\ req[p] = Null
    /\ bracket # Null
    /\ ~HasStartedMatchups
    /\ req' = [req EXCEPT ![p] = [op |-> "delete", id |-> bracket.id]]
    /\ UNCHANGED <<bracket, matchups, made>>

DeleteCommit_Faulty(p) ==
    /\ req[p] # Null /\ req[p].op = "delete"
    /\ req' = [req EXCEPT ![p] = Null]
    /\ matchups' = {g \in matchups : g.final}
    /\ bracket' = IF bracket # Null /\ bracket.id = req[p].id THEN Null ELSE bracket
    /\ UNCHANGED made
\* All playoff rows of the season go, and the bracket that was read.
DeleteCommit(p) ==
    /\ req[p] # Null /\ req[p].op = "delete"
    /\ req' = [req EXCEPT ![p] = Null]
    /\ matchups' = {}
    /\ bracket' = IF bracket # Null /\ bracket.id = req[p].id THEN Null ELSE bracket
    /\ UNCHANGED made

\* finalizeWeekMatchups reads the rows of the week, and refuses a week that
\* is final, before it takes the lineup locks.
FinalizeStart(p, week) ==
    LET rows == {g \in matchups : g.week = week}
    IN  /\ req[p] = Null
        /\ rows # {}
        /\ \E g \in rows : ~g.final
        /\ Cardinality({q \in Requests : req[q] # Null /\ req[q].op = "finalize"}) < MaxFinalizers
        /\ req' = [req EXCEPT ![p] = [op |-> "finalize", week |-> week,
                                      ids |-> {<<g.bid, SlotOf(g)>> : g \in rows}]]
        /\ UNCHANGED <<bracket, matchups, made>>

\* Every row that was read, by id, gets the points of its lineups and is final.
FinalizeCommit(p) ==
    /\ req[p] # Null /\ req[p].op = "finalize"
    /\ req' = [req EXCEPT ![p] = Null]
    /\ LET hit == {g \in matchups : <<g.bid, SlotOf(g)>> \in req[p].ids}
       IN  \E points \in [hit -> UNION {Outcomes(g) : g \in hit}] :
             /\ \A g \in hit : points[g] \in Outcomes(g)
             /\ matchups' = (matchups \ hit) \union
                         {[g EXCEPT !.final = TRUE, !.pa = points[g][1], !.pb = points[g][2]]
                              : g \in hit}
    /\ UNCHANGED <<bracket, made>>

\* The round of the final rows of a type in a week, 0 when there is none.
FinalRound(bt, week) ==
    LET rows == {g \in matchups : g.bt = bt /\ g.week = week /\ g.final}
    IN  IF rows = {} THEN 0 ELSE (SomeGame(rows)).round

IsThirdPlaceGame_Faulty(g) == g.bt = "THIRD_PLACE" /\ g.round = TotalRounds /\ g.pos = 1
IsThirdPlaceGame(g) == g.bt = "THIRD_PLACE" /\ g.round = TotalRounds /\ g.pos = 2

\* What advanceWinners reads before the LEAGUE lock.
AdvanceStart(p, week) ==
    LET third == {g \in matchups : IsThirdPlaceGame(g) /\ g.week = week /\ g.final}
    IN  /\ req[p] = Null
        /\ bracket # Null
        /\ ~(bracket.status = "completed" /\ IsBracketFullyComplete(bracket))
        /\ \E g \in matchups : g.week = week /\ g.final
        /\ req' = [req EXCEPT ![p] =
                     [op |-> "advance", week |-> week, id |-> bracket.id,
                      pending |-> bracket.status = "pending",
                      winners |-> FinalRound("WINNERS", week),
                      consolation |-> FinalRound("CONSOLATION", week),
                      third |-> IF third = {} \/ ~EnableThirdPlace THEN Null
                                ELSE GameWinner(SomeGame(third))]]
        /\ UNCHANGED <<bracket, matchups, made>>

\* The body under the lock; the row it updates is the bracket it read.
AdvanceCommit(p) ==
    LET r     == req[p]
        first == DecidedBy("WINNERS", r.winners, r.week)
        cons  == DecidedBy("CONSOLATION", r.consolation, r.week)
        set   == WithWinners(bracket, first, cons, r.third)
        ended == IF first # Null \/ cons # Null \/ r.third # Null
                 THEN FinalizedIfComplete(set) ELSE set
    IN  /\ r # Null /\ r.op = "advance"
        /\ req' = [req EXCEPT ![p] = Null]
        /\ matchups' = WithRows(WithRows(matchups, CreatedBy(r.id, "WINNERS", r.winners, r.week)),
                             CreatedBy(r.id, "CONSOLATION", r.consolation, r.week))
        /\ bracket' = IF bracket = Null \/ bracket.id # r.id THEN bracket
                      ELSE IF r.pending THEN [ended EXCEPT !.status = "active"]
                      ELSE ended
        /\ UNCHANGED made

Commit(p) ==
    GenerateCommit(p) \/ DeleteCommit(p) \/ FinalizeCommit(p) \/ AdvanceCommit(p)

BracketNext ==
    \E p \in Requests :
        \/ GenerateStart(p)
        \/ DeleteStart(p)
        \/ \E week \in PlayoffWeeks : FinalizeStart(p, week) \/ AdvanceStart(p, week)
        \/ GenerateCommit(p)
        \/ DeleteCommit(p)
        \/ FinalizeCommit(p)
        \/ AdvanceCommit(p)

\* Every accepted request runs to its end.  No job of the program plays the
\* commissioner's part, so the assumption is about him: he finalises a week
\* in the end, and until the bracket is completed he advances the last week of
\* every round, of an earlier one too when its winners are still missing.
Fairness ==
    /\ \A p \in Requests : WF_bracketVars(Commit(p))
    /\ SF_bracketVars(\E p \in Requests, week \in PlayoffWeeks : FinalizeStart(p, week))
    /\ \A r \in 1..TotalRounds : SF_bracketVars(\E p \in Requests : AdvanceStart(p, WeekEnd(r)))

BracketSpec == BracketInit /\ [][BracketNext]_bracketVars
FairBracketSpec == BracketSpec /\ Fairness

-----------------------------------------------------------------------------
(* The bracket as it is answered to every request                           *)

\* A game shows its own winner, whatever its series.
Shown(g) ==
    [week |-> g.week, pos |-> g.pos, a |-> g.a, b |-> g.b, final |-> g.final,
     winner |-> IF g.final THEN GameWinner(g) ELSE Null]

RoundShown(bt, r) ==
    [weekStart |-> WeekStart(r), weekEnd |-> WeekEnd(r),
     matchups |-> {Shown(g) : g \in {h \in GamesOfType(bt) : h.round = r}}]

ConsolationShown ==
    IF ConsolationTeams = 0 THEN <<>>
    ELSE [r \in 1..RoundsOf("CONSOLATION") |-> RoundShown("CONSOLATION", r)]

BracketView ==
    [rounds |-> [r \in 1..TotalRounds |-> RoundShown("WINNERS", r)],
     consolation |-> ConsolationShown,
     champion |-> IF bracket = Null THEN Null ELSE bracket.champion]

-----------------------------------------------------------------------------
(* Properties                                                               *)

\* The bracket, the rows and the requests have the shape the schema and the
\* service give them: the weeks of a row are those of its round, and a request
\* to advance remembers rounds and winners that exist.
BracketTypeOK ==
    /\ bracket = Null \/ bracket \in Bracket
    /\ made \in 0..MaxBrackets
    /\ \A g \in matchups : /\ g.bt \in BracketTypes
                           /\ g.week \in WeekStart(g.round)..WeekEnd(g.round)
                           /\ g.game \in 1..g.len
                           /\ {g.a, g.b} \subseteq 1..(PlayoffTeams + ConsolationTeams)
    /\ \A p \in Requests : req[p] # Null /\ req[p].op = "advance" =>
           /\ req[p].winners \in 0..TotalRounds
           /\ req[p].consolation \in 0..RoundsOf("CONSOLATION")
           /\ req[p].third \in Winner

\* Whatever deletes, second clicks and stale requests do, a team has at most
\* one playoff game a week (a lineup scores once), and a slot of the bracket
\* is filled once (createNextRoundMatchupsFromSeries, ON CONFLICT DO NOTHING).
OneGameAWeek ==
    \A g, h \in matchups :
        /\ g.week = h.week /\ {g.a, g.b} \intersect {h.a, h.b} # {} => g = h
        /\ SlotOf(g) = SlotOf(h) => g = h

\* No playoff game survives its bracket: an advance or a finalisation that
\* was under way when the bracket was deleted leaves no row behind, which a
\* later bracket would take for its own next round.
GamesHaveBracket == matchups # {} => bracket # Null

\* The aggregate rule, stated on the rows: more points over the weeks of a
\* series, and the better seed when they are level.
WonSeries(bt, r, roster) ==
    \E pos \in {g.pos : g \in {h \in matchups : h.bt = bt /\ h.round = r}} :
        LET S == {g \in matchups : g.bt = bt /\ g.round = r /\ g.pos = pos}
            For(g) == IF g.a = roster THEN g.pa ELSE g.pb
            Against(g) == IF g.a = roster THEN g.pb ELSE g.pa
            Mine(g) == IF g.a = roster THEN g.sa ELSE g.sb
            Theirs(g) == IF g.a = roster THEN g.sb ELSE g.sa
        IN  /\ \A g \in S : g.final /\ roster \in {g.a, g.b}
            /\ \/ SumOver(S, For) > SumOver(S, Against)
               \/ /\ SumOver(S, For) = SumOver(S, Against)
                  /\ \A g \in S : Mine(g) < Theirs(g)

\* In the bracket as shown, a team stands in a later round because it won
\* its series of the round before or had the bye, and the champion won the
\* championship series.
ShownTeamsWon ==
    LET view == BracketView
        Earned(bt, rounds) ==
            \A r \in DOMAIN rounds : r > 1 =>
                \A g \in rounds[r].matchups : \A t \in {g.a, g.b} :
                    \/ WonSeries(bt, r - 1, t)
                    \/ r = 2 /\ \E s \in ByeSeeds(TeamsOf(bt)) : t = SeedRoster(bt, s)
    IN  /\ Earned("WINNERS", view.rounds)
        /\ Earned("CONSOLATION", view.consolation)
        /\ view.champion # Null /\ matchups # {} => WonSeries("WINNERS", TotalRounds, view.champion)

\* Playoff games that are not deleted lead to a completed bracket, with its
\* champion, its third place and its consolation winner.  (A bracket can lose
\* its games: a delete that read an earlier bracket removes the rows of the
\* bracket generated since, and keeps its row.)
PlayoffsEnd ==
    matchups # {} ~> (matchups = {} \/ (bracket # Null /\ bracket.status = "completed"))
=============================================================================
