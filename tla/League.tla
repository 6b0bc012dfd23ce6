------------------------------- MODULE League -------------------------------
(***************************************************************************)
(* The life of one league: its members (roster.service, leagues.service,   *)
(* invitations.service, dues.service), its schedule, finalized weeks,      *)
(* medians and standings (modules/matchups), and its week and phase, which *)
(* the commissioner and the season job both write (week-advancement).      *)
(*                                                                         *)
(* What runs under the LEAGUE lock is one action.  Everything else reads,  *)
(* checks and writes in statements of its own: such a request waits in     *)
(* `requests` between what it has read and what it will write.             *)
(***************************************************************************)
EXTENDS Integers, Sequences, FiniteSets, FiniteSetsExt, SequencesExt, Functions

CONSTANTS
    User, Founder, \* users, and the one who creates the league
    FirstId,       \* the next value of rosters.id when the league is created
    Totals,        \* total_rosters values commissioners ask for
    Public,        \* is_public
    Weeks,         \* weeks of a generated schedule
    Played,        \* bound: weeks that are finalized
    Points,        \* points a lineup may have
    NflWeeks,      \* bound: last week of the NFL state
    Year,          \* season of the league
    ResetYears,    \* bound: seasons it is reset to
    RowStatuses,   \* league_seasons.status the row of the league may have
    Budgets,       \* bounds: what a behaviour spends per kind of event
    None

ASSUME LeagueAssumption ==
    /\ Founder \in User /\ IsFiniteSet(User) /\ FirstId \in Nat \ {0}
    /\ Totals \subseteq 2..20 /\ Totals # {} /\ Weeks \in 1..18
    /\ Points \subseteq Nat /\ NflWeeks \in 1..18

VARIABLES
    league,    \* row of leagues, with the status of its draft
    row,       \* its row of league_seasons
    members,   \* rows of rosters
    serial,    \* next rosters.id
    invite,    \* league_invitations of each user (the last one)
    dues,      \* league_dues and the rosters that have paid
    games,     \* rows of matchups
    scores,    \* total_points of roster_lineups, per finalized week
    medians,   \* weekly_median_results
    nfl,       \* week and type of the NFL state
    job,       \* the step of the week job
    requests,  \* requests between their checks and their writes
    budget

vars == <<league, row, members, serial, invite, dues, games, scores, medians,
          nfl, job, requests, budget>>

Spend(kind) == /\ budget[kind] > 0
               /\ budget' = [budget EXCEPT ![kind] = @ - 1]

Phases == <<"pre_season", "regular_season", "playoffs", "offseason">>

-----------------------------------------------------------------------------
(* Rosters                                                                  *)

Active == {m \in members : ~m.benched}
IsMember(u) == \E m \in members : m.user = u
RosterIds == {m.id : m \in members}

\* settings.commissioner_roster_id is the slot number of the first roster.
CommissionerSlot == 1
Commissioner == {m \in members : m.slot = CommissionerSlot}

\* getNextRosterId
NextSlot == 1 + Max({0} \union {m.slot : m \in members})

\* findByLeagueId: ORDER BY is_benched, roster_id.
RosterOrder ==
    LET before(a, b) == \/ ~a.benched /\ b.benched
                        \/ a.benched = b.benched /\ a.slot < b.slot
        ordered == SetToSortSeq(members, before)
    IN  [i \in DOMAIN ordered |-> ordered[i].id]

\* canJoinLeagueNow
CanJoinNow == /\ league.status = "pre_draft"
              /\ league.draft = "not_started"
              /\ games = {}

\* canJoinAsBench
SomeoneHasNotPaid ==
    /\ dues.on
    /\ Cardinality({m \in Active : m.id \in dues.paid}) < Cardinality(Active)

NewRoster(u, benched) ==
    [id |-> serial, slot |-> NextSlot, user |-> u, benched |-> benched]

Full == Cardinality(Active) >= league.total

\* joinLeagueInternal, without its refusals.
Join_Faulty(u) ==
    /\ members' = members \union {NewRoster(u, FALSE)}
    /\ serial' = serial + 1

Join(u) ==
    /\ members' = members \union {NewRoster(u, Full)}
    /\ serial' = serial + 1

MayJoin(u) == CanJoinNow /\ ~IsMember(u) /\ (Full => SomeoneHasNotPaid)

-----------------------------------------------------------------------------
(* Schedules                                                                *)

\* rotateTeams: the first team stays, the others move `round` places.
Rotated_Faulty(teams, round) ==
    LET n == Len(teams)
    IN  [i \in 1..n |-> teams[((i - 1 - round + n) % n) + 1]]

Rotated(teams, round) ==
    LET others == Len(teams) - 1
    IN  [i \in 1..Len(teams) |->
           IF i = 1 THEN teams[1]
           ELSE teams[((i - 2 - round + others) % others) + 2]]

NewGame(year, week, home, away) ==
    [year |-> year, week |-> week, home |-> home, away |-> away, score |-> None, final |-> FALSE]

\* generateRoundRobinMatchups: -1 is the bye of an odd number of teams; the
\* lower id is at home in even rounds.
RoundRobin(ids, weeks, year) ==
    LET teams == IF Len(ids) % 2 = 0 THEN ids ELSE Append(ids, -1)
        n == Len(teams)
        round(w) == (w - 1) % (n - 1)
        pair(w, i) == {Rotated(teams, round(w))[i],
                       Rotated(teams, round(w))[n + 1 - i]}
        home(w, p) == IF round(w) % 2 = 0 THEN Min(p) ELSE Max(p)
        game(w, p) == NewGame(year, w, home(w, p), CHOOSE x \in p : x # home(w, p))
    IN  UNION {{game(w, pair(w, i)) : i \in {i \in 1..(n \div 2) : -1 \notin pair(w, i)}}
                 : w \in 1..weeks}

\* The unique keys of matchups: home and away once a week, a pair once a week.
Clash(g, h) ==
    /\ g.week = h.week
    /\ \/ g.home = h.home
       \/ g.away = h.away
       \/ {g.home, g.away} = {h.home, h.away}

GamesOf(week) == {g \in games : g.week = week}
PlayedBy(r, week) == {g \in GamesOf(week) : r \in {g.home, g.away}}

-----------------------------------------------------------------------------
(* Medians and standings                                                    *)

\* Twice calculateMedian, a whole number.
TwiceMedian(points) ==
    LET less(a, b) == \/ points[a] < points[b]
                      \/ points[a] = points[b] /\ a < b
        ids == SetToSortSeq(DOMAIN points, less)
        n == Len(ids)
    IN  points[ids[(n + 1) \div 2]] + points[ids[n \div 2 + 1]]

\* getMedianResult
MedianResult(p, twice) == IF 2 * p > twice THEN "W" ELSE IF 2 * p < twice THEN "L" ELSE "T"

MedianResults(points) ==
    [r \in DOMAIN points |-> MedianResult(points[r], TwiceMedian(points))]

\* getStandings over the finals and the median results.
Wins(r) ==
    Cardinality({g \in games : g.final /\
        \/ g.home = r /\ g.score[1] > g.score[2]
        \/ g.away = r /\ g.score[2] > g.score[1]})

Losses(r) ==
    Cardinality({g \in games : g.final /\
        \/ g.home = r /\ g.score[1] < g.score[2]
        \/ g.away = r /\ g.score[2] < g.score[1]})

MedianWins(r) ==
    Cardinality({w \in DOMAIN medians : GamesOf(w) # {} /\ r \in DOMAIN medians[w]
                                          /\ medians[w][r] = "W"})
TotalWins(r) == Wins(r) + (IF league.median THEN MedianWins(r) ELSE 0)

PointsFor(r) ==
    FoldSet(LAMBDA g, sum : sum + (IF g.home = r THEN g.score[1] ELSE g.score[2]),
            0, {g \in games : g.final /\ r \in {g.home, g.away}})

\* The order of the table: wins, then points.
Above(a, b) == \/ TotalWins(a) > TotalWins(b)
               \/ TotalWins(a) = TotalWins(b) /\ PointsFor(a) > PointsFor(b)

-----------------------------------------------------------------------------
(* Creating and joining                                                     *)

\* createLeague, in one transaction.
Init ==
    /\ \E total \in Totals, median \in BOOLEAN, status \in RowStatuses :
          /\ league = [status |-> "pre_draft", draft |-> "not_started",
                       phase |-> "pre_season", week |-> 1, total |-> total,
                       median |-> median, year |-> Year]
          /\ row = [status |-> status, phase |-> "pre_season", week |-> 1]
    /\ members = {[id |-> FirstId, slot |-> CommissionerSlot,
                   user |-> Founder, benched |-> FALSE]}
    /\ serial = FirstId + 1
    /\ invite = [u \in User |-> "none"]
    /\ dues = [on |-> FALSE, paid |-> {}]
    /\ games = {} /\ scores = <<>> /\ medians = <<>>
    /\ nfl = [week |-> 1, type |-> "preseason"]
    /\ job = None /\ requests = {}
    /\ budget \in Budgets

season == <<games, scores, medians>>
calendar == <<row, nfl, job>>

\* joinPublicLeague
JoinPublic(u) ==
    /\ Public /\ MayJoin(u) /\ Join(u) /\ Spend("member")
    /\ UNCHANGED <<league, calendar, invite, dues, season, requests>>

\* devBulkAddUsers, for one user: no check of the phase, no bench.
BulkAdd(u) ==
    /\ league.status # "deleted"
    /\ ~IsMember(u) /\ ~Full /\ Join(u) /\ Spend("member")
    /\ UNCHANGED <<league, calendar, invite, dues, season, requests>>

\* sendInvitation, by any member.
SendInvitation(u) ==
    /\ members # {} /\ league.status = "pre_draft"
    /\ ~IsMember(u) /\ invite[u] # "pending" /\ ~Full
    /\ invite' = [invite EXCEPT ![u] = "pending"] /\ Spend("member")
    /\ UNCHANGED <<league, calendar, members, serial, dues, season, requests>>

\* acceptInvitation up to its conditional update.
Accept(u) ==
    /\ invite[u] = "pending"
    /\ invite' = [invite EXCEPT ![u] = "accepted"]
    /\ requests' = requests \union {[kind |-> "accept", user |-> u]}
    /\ UNCHANGED <<league, calendar, members, serial, dues, season, budget>>

\* The rest of acceptInvitation: the join, or revertToPending when it throws.
\* The unique index of pending invitations makes a revert fail if another one
\* has been sent.
AcceptJoins(q) ==
    /\ q.kind = "accept" /\ requests' = requests \ {q}
    /\ \/ MayJoin(q.user) /\ Join(q.user) /\ UNCHANGED invite
       \/ /\ ~MayJoin(q.user)
          /\ invite' = [invite EXCEPT ![q.user] = "pending"]
          /\ UNCHANGED <<members, serial>>
    /\ UNCHANGED <<league, calendar, dues, season, budget>>

\* declineInvitation: the status is read, then written without a condition.
AskDecline(u) ==
    /\ invite[u] = "pending"
    /\ requests' = requests \union {[kind |-> "decline", user |-> u]}
    /\ Spend("member")
    /\ UNCHANGED <<league, calendar, members, serial, invite, dues, season>>

Decline(q) ==
    /\ q.kind = "decline" /\ requests' = requests \ {q}
    /\ invite' = [invite EXCEPT ![q.user] = IF @ = "none" THEN @ ELSE "declined"]
    /\ UNCHANGED <<league, calendar, members, serial, dues, season, budget>>

\* cancelInvitation
CancelInvitation(u) ==
    /\ invite[u] = "pending"
    /\ invite' = [invite EXCEPT ![u] = "none"] /\ Spend("member")
    /\ UNCHANGED <<league, calendar, members, serial, dues, season, requests>>

-----------------------------------------------------------------------------
(* The commissioner and the members                                         *)

\* isCommissioner
Commanded == \E m \in members : m.slot = CommissionerSlot

\* The rows that ON DELETE CASCADE takes with rosters.
Without(gone) ==
    /\ members' = {m \in members : m.id \notin gone}
    /\ games' = {g \in games : {g.home, g.away} \cap gone = {}}
    /\ scores' = [w \in DOMAIN scores |-> Restrict(scores[w], DOMAIN scores[w] \ gone)]
    /\ medians' = [w \in {w \in DOMAIN medians : DOMAIN medians[w] \ gone # {}} |->
                     Restrict(medians[w], DOMAIN medians[w] \ gone)]
    /\ dues' = [dues EXCEPT !.paid = @ \ gone]

\* kickMember, under the ROSTER lock; its checks hold until its deletes.
Kick_Faulty(m) ==
    /\ Commanded
    /\ Without({m.id}) /\ Spend("member")
    /\ UNCHANGED <<league, calendar, serial, invite, requests>>

Kick(m) ==
    /\ Commanded /\ m.slot # CommissionerSlot
    /\ Without({m.id}) /\ Spend("member")
    /\ UNCHANGED <<league, calendar, serial, invite, requests>>

\* reinstateMember
Reinstate(m) ==
    /\ Commanded /\ m.benched /\ ~Full
    /\ members' = (members \ {m}) \union {[m EXCEPT !.benched = FALSE]}
    /\ Spend("member")
    /\ UNCHANGED <<league, calendar, serial, invite, dues, season, requests>>

\* handleTotalRostersChange up to getNewestMembers.
Newest(count) ==
    LET others == {m \in Active : m.slot # CommissionerSlot}
    IN  {m.id : m \in {m \in others :
           Cardinality({o \in others : o.id > m.id}) < count}}

AskResize(total) ==
    /\ Commanded /\ league.status = "pre_draft" /\ total # league.total
    /\ requests' = requests \union
         {[kind |-> "resize", total |-> total,
           bench |-> Newest(Cardinality(Active) - total)]}
    /\ Spend("setting")
    /\ UNCHANGED <<league, calendar, members, serial, invite, dues, season>>

\* benchMember of one of them, without a lock.
BenchOne(q) ==
    /\ q.kind = "resize"
    /\ \E id \in q.bench :
          /\ requests' = (requests \ {q}) \union {[q EXCEPT !.bench = @ \ {id}]}
          /\ members' = {IF m.id = id THEN [m EXCEPT !.benched = TRUE] ELSE m
                           : m \in members}
    /\ UNCHANGED <<league, calendar, serial, invite, dues, season, budget>>

\* updateLeague: the update of leagues.
Resize(q) ==
    /\ q.kind = "resize" /\ q.bench = {}
    /\ requests' = requests \ {q} /\ league' = [league EXCEPT !.total = q.total]
    /\ UNCHANGED <<calendar, members, serial, invite, dues, season, budget>>

\* updateLeague with useLeagueMedian: no week may be final when it is checked.
AskMedian ==
    /\ Commanded /\ ~\E g \in games : g.final
    /\ requests' = requests \union {[kind |-> "median", use |-> ~league.median]}
    /\ Spend("setting")
    /\ UNCHANGED <<league, calendar, members, serial, invite, dues, season>>

SetMedian(q) ==
    /\ q.kind = "median"
    /\ requests' = requests \ {q} /\ league' = [league EXCEPT !.median = q.use]
    /\ UNCHANGED <<calendar, members, serial, invite, dues, season, budget>>

\* upsertDuesConfig, deleteDuesConfig and markPaymentStatus.
SetDues ==
    /\ Commanded /\ Spend("setting")
    /\ \/ dues' = [dues EXCEPT !.on = TRUE]
       \/ dues.on /\ dues' = [on |-> FALSE, paid |-> {}]
       \/ dues.on /\ \E r \in RosterIds : \E paid \in {dues.paid \union {r}, dues.paid \ {r}} :
            dues' = [dues EXCEPT !.paid = paid]
    /\ dues' # dues
    /\ UNCHANGED <<league, calendar, members, serial, invite, season, requests>>

\* resetLeagueForNewSeason
MayReset == Commanded /\ league.phase \in {"offseason", "pre_season"}

\* resetForNewSeason.  The roster it means to keep is looked for by the
\* commissioner's slot number among the ids; league_seasons is not touched.
Reset(year, keepMembers) ==
    /\ MayReset /\ year \in ResetYears
    /\ members' = IF keepMembers THEN members
                  ELSE {m \in members : m.id = CommissionerSlot}
    /\ league' = [league EXCEPT !.year = year, !.phase = "pre_season", !.week = 1,
                                !.status = "pre_draft",
                                !.draft = "not_started"]
    /\ games' = {} /\ scores' = <<>>
    /\ medians' = IF keepMembers /\ year = league.year THEN medians ELSE <<>>
    /\ dues' = [dues EXCEPT !.paid = {}]
    /\ Spend("setting")
    /\ UNCHANGED <<calendar, serial, invite, requests>>

\* deleteLeague
Delete ==
    /\ Commanded /\ league' = [league EXCEPT !.status = "deleted", !.phase = "deleted"]
    /\ Without(RosterIds) /\ requests' = {}
    /\ invite' = [u \in User |-> "none"] /\ Spend("setting")
    /\ UNCHANGED <<calendar, serial>>

-----------------------------------------------------------------------------
(* The schedule                                                             *)

\* generateSchedule: rosters read and matchups computed before the transaction.
AskSchedule ==
    /\ Commanded /\ Cardinality(members) >= 2
    /\ requests' = requests \union
         {[kind |-> "schedule", games |-> RoundRobin(RosterOrder, Weeks, league.year)]}
    /\ Spend("season")
    /\ UNCHANGED <<league, calendar, members, serial, invite, dues, season>>

\* The COUNT of the transaction; nobody sees its rows before it commits.
CountSchedule(q) ==
    /\ q.kind = "schedule" /\ games = {}
    /\ requests' = (requests \ {q}) \union {[q EXCEPT !.kind = "insert"]}
    /\ UNCHANGED <<league, calendar, members, serial, invite, dues, season, budget>>

\* The inserts: a row whose key is taken, or whose roster is gone, undoes all.
InsertSchedule(q) ==
    /\ q.kind = "insert"
    /\ requests' = requests \ {q}
    /\ games' = IF \E g \in q.games : \/ \E h \in games : Clash(g, h)
                                      \/ ~({g.home, g.away} \subseteq RosterIds)
                THEN games ELSE games \union q.games
    /\ UNCHANGED <<league, calendar, members, serial, invite, dues, scores, medians, budget>>

\* A request refused by its COUNT, or lost with its process.
Abandon(q) ==
    /\ \/ q.kind = "schedule" /\ games # {}
       \/ budget["crash"] > 0
    /\ requests' = requests \ {q}
    /\ budget' = IF q.kind = "schedule" /\ games # {} THEN budget
                 ELSE [budget EXCEPT !["crash"] = @ - 1]
    /\ UNCHANGED <<league, calendar, members, serial, invite, dues, season>>

\* A draft of the league starts (external to this module).
DraftStarts ==
    /\ league.status = "pre_draft" /\ league.draft = "not_started"
    /\ league' = [league EXCEPT !.draft = "started"] /\ Spend("season")
    /\ UNCHANGED <<calendar, members, serial, invite, dues, season, requests>>

\* finalizeDraftCompletion: the status, and generateScheduleSystem.
DraftCompletes ==
    /\ league.status = "pre_draft" /\ league.draft = "started"
    /\ league' = [league EXCEPT !.status = "regular_season", !.draft = "completed"]
    /\ games' = IF games = {} /\ Cardinality(members) >= 2
                THEN RoundRobin(RosterOrder, Weeks, league.year) ELSE games
    /\ UNCHANGED <<calendar, members, serial, invite, dues, scores, medians, requests, budget>>

-----------------------------------------------------------------------------
(* Finals, medians                                                          *)

\* What tells rows of matchups apart.
Rows(set) == {<<g.year, g.week, g.home, g.away>> : g \in set}

\* finalizeWeekMatchups up to its check: calculateWeeklyScores writes every
\* lineup of the week before the finals are looked at.
AskFinalize(week) ==
    /\ Commanded /\ week \in Played /\ \E g \in games : week <= g.week
    /\ \E points \in [RosterIds -> Points] :
          scores' = [w \in DOMAIN scores \union {week} |->
                       IF w = week THEN points ELSE scores[w]]
    /\ requests' = IF GamesOf(week) # {} /\ \A g \in GamesOf(week) : g.final
                   THEN requests
                   ELSE requests \union {[kind |-> "finalize", week |-> week,
                                          rows |-> Rows(GamesOf(week)),
                                          median |-> league.median]}
    /\ Spend("season")
    /\ UNCHANGED <<league, calendar, members, serial, invite, dues, games, medians>>

Score(r, week) ==
    IF week \in DOMAIN scores /\ r \in DOMAIN scores[week] THEN scores[week][r] ELSE 0

\* calculateAndStoreMedianResults, of all rosters of the league.
StoreMedian(week) ==
    medians' = IF Cardinality(members) < 2 THEN medians
               ELSE [w \in DOMAIN medians \union {week} |->
                       IF w = week
                       THEN MedianResults([r \in RosterIds |-> Score(r, week)])
                       ELSE medians[w]]

\* The transaction of finalizeWeekMatchups: undone when a row it has read is
\* gone.
Finalize(q) ==
    /\ q.kind = "finalize" /\ requests' = requests \ {q}
    /\ IF q.rows \subseteq Rows(games)
       THEN /\ games' = {IF Rows({g}) \subseteq q.rows
                         THEN [g EXCEPT !.final = TRUE,
                                        !.score = <<Score(g.home, q.week), Score(g.away, q.week)>>]
                         ELSE g : g \in games}
            /\ IF q.median THEN StoreMedian(q.week) ELSE UNCHANGED medians
       ELSE UNCHANGED <<games, medians>>
    /\ UNCHANGED <<league, calendar, members, serial, invite, dues, scores, budget>>

\* recalculateWeekMedian
RecalculateMedian_Faulty(week) ==
    /\ Commanded /\ league.median /\ week \in Played
    /\ GamesOf(week) # {}
    /\ StoreMedian(week) /\ Spend("season")
    /\ UNCHANGED <<league, calendar, members, serial, invite, dues, games, scores, requests>>

RecalculateMedian(week) ==
    /\ Commanded /\ league.median /\ week \in Played
    /\ GamesOf(week) # {} /\ \A g \in GamesOf(week) : g.final
    /\ StoreMedian(week) /\ Spend("season")
    /\ UNCHANGED <<league, calendar, members, serial, invite, dues, games, scores, requests>>

-----------------------------------------------------------------------------
(* The week and the phase                                                   *)

\* The NFL state of the provider (external): weeks of the season, in order.
NflGoesOn ==
    /\ \/ nfl.type = "preseason" /\ nfl' = [week |-> 1, type |-> "regular"]
       \/ /\ nfl.type = "regular" /\ nfl.week < NflWeeks
          /\ nfl' = [nfl EXCEPT !.week = @ + 1]
       \/ /\ nfl.type = "regular" /\ nfl.week = NflWeeks
          /\ nfl' = [week |-> 1, type |-> "postseason"]
    /\ Spend("season")
    /\ UNCHANGED <<league, row, job, members, serial, invite, dues, season, requests>>

\* updateSeasonControls: checked against the league read, then written.
Order(phase) == CHOOSE i \in DOMAIN Phases : Phases[i] = phase

AskControls ==
    /\ Commanded
    /\ \/ \E w \in league.week..NflWeeks :
             requests' = requests \union {[kind |-> "controls", week |-> w, phase |-> None]}
       \/ \E p \in ToSet(Phases) :
             /\ p = "offseason" \/ Order(p) >= Order(league.phase)
             /\ requests' = requests \union {[kind |-> "controls", week |-> None, phase |-> p]}
    /\ Spend("setting")
    /\ UNCHANGED <<league, calendar, members, serial, invite, dues, season>>

Control(q) ==
    /\ q.kind = "controls" /\ requests' = requests \ {q}
    /\ league' = IF q.phase = None THEN [league EXCEPT !.week = q.week]
                 ELSE [league EXCEPT !.phase = q.phase]
    /\ UNCHANGED <<calendar, members, serial, invite, dues, season, budget>>

InSeason == league.phase \in {"regular_season", "playoffs"} /\ league.year = Year

\* checkAndAdvanceWeek: the update of leagues, then that of league_seasons.
AdvanceWeek_Faulty ==
    /\ job = None /\ InSeason /\ league.week + 1 = nfl.week
    /\ league' = [league EXCEPT !.week = nfl.week]
    /\ job' = [step |-> "week", week |-> nfl.week]
    /\ UNCHANGED <<row, nfl, members, serial, invite, dues, season, requests, budget>>

AdvanceWeek ==
    /\ job = None /\ InSeason /\ league.week < nfl.week
    /\ league' = [league EXCEPT !.week = nfl.week]
    /\ job' = [step |-> "week", week |-> nfl.week]
    /\ UNCHANGED <<row, nfl, members, serial, invite, dues, season, requests, budget>>

\* advanceSeasonStatus: the updates of leagues.
NextPhase ==
    CASE nfl.type = "regular" /\ league.phase = "pre_season" /\ row.status = "in_season"
           -> "regular_season"
      [] nfl.type = "postseason" /\ league.phase = "regular_season" -> "playoffs"
      [] OTHER -> None

AdvancePhase ==
    /\ job = None /\ NextPhase # None /\ league.year = Year
    /\ league' = [league EXCEPT !.phase = NextPhase]
    /\ job' = [step |-> "phase", phase |-> NextPhase]
    /\ UNCHANGED <<row, nfl, members, serial, invite, dues, season, requests, budget>>

\* The updates of league_seasons.
AdvanceRow ==
    /\ job # None /\ job' = None
    /\ row' = IF job.step = "week" THEN [row EXCEPT !.week = job.week]
              ELSE [row EXCEPT !.phase = job.phase]
    /\ UNCHANGED <<league, nfl, members, serial, invite, dues, season, requests, budget>>

JobCrash ==
    /\ job # None /\ job' = None /\ Spend("crash")
    /\ UNCHANGED <<league, row, nfl, members, serial, invite, dues, season, requests>>

-----------------------------------------------------------------------------
ByUser(u) == JoinPublic(u) \/ BulkAdd(u) \/ SendInvitation(u) \/ Accept(u)
                \/ AskDecline(u) \/ CancelInvitation(u)
ByRoster(m) == Kick(m) \/ Reinstate(m)
Goes(q) == AcceptJoins(q) \/ Decline(q) \/ BenchOne(q) \/ Resize(q) \/ SetMedian(q)
             \/ CountSchedule(q) \/ InsertSchedule(q) \/ Finalize(q) \/ Control(q)

Next ==
    \/ \E u \in User : ByUser(u)
    \/ \E m \in members : ByRoster(m)
    \/ \E q \in requests : Goes(q) \/ Abandon(q)
    \/ \E total \in Totals : AskResize(total)
    \/ AskMedian \/ SetDues \/ Delete
    \/ \E year \in ResetYears, keep \in BOOLEAN : Reset(year, keep)
    \/ AskSchedule \/ DraftStarts \/ DraftCompletes
    \/ \E week \in Played : AskFinalize(week) \/ RecalculateMedian(week)
    \/ NflGoesOn \/ AskControls
    \/ AdvanceWeek \/ AdvancePhase \/ AdvanceRow \/ JobCrash

Spec == Init /\ [][Next]_vars

\* The week job ticks every few minutes on some process, and the provider's
\* season goes on.
FairSpec == Spec /\ WF_vars(AdvanceWeek) /\ WF_vars(AdvancePhase)
                 /\ WF_vars(AdvanceRow)

-----------------------------------------------------------------------------
(* Properties                                                               *)

\* Rows of every table have their columns' types, and serial ids are fresh.
TypeOK ==
    /\ \A m \in members :
          /\ m.id \in FirstId..(serial - 1) /\ m.slot \in Nat \ {0}
          /\ m.user \in User /\ m.benched \in BOOLEAN
    /\ dues.paid \subseteq RosterIds
    /\ \A g \in games : {g.home, g.away} \subseteq RosterIds
    /\ \A w \in DOMAIN medians : DOMAIN medians[w] \subseteq RosterIds
    /\ league.week \in 1..18 /\ row.week \in 1..18

\* However many schedules are generated at once, a roster plays at most once a
\* week, and any two pairs of rosters meet equally often, give or take one
\* game (generateSchedule, generateScheduleSystem, rotateTeams).
OneSchedule ==
    LET teams == UNION {{g.home, g.away} : g \in games}
        meetings(p) == Cardinality({g \in games : {g.home, g.away} = p})
        pairs == kSubset(2, teams)
    IN  /\ \A w \in 1..Weeks, r \in teams : Cardinality(PlayedBy(r, w)) <= 1
        /\ \A p, q \in pairs : meetings(p) <= meetings(q) + 1

\* A median of a week is stored only with all games of the week final, also
\* by a finalization that has read the games before others kicked members or
\* finalized (finalizeWeekMatchups, recalculateWeekMedian).
MedianAfterFinal ==
    [][\A w \in DOMAIN medians' :
         \/ /\ w \in DOMAIN medians
            /\ \A r \in DOMAIN medians'[w] :
                  r \in DOMAIN medians[w] /\ medians'[w][r] = medians[w][r]
         \/ \A g \in games' : g.week = w => g.final]_vars

\* In the table the head-to-head wins and losses of the league are as many,
\* whatever was kicked, rescored or finalized twice (getStandings).
RecordsBalance ==
    MapThenSumSet(Wins, RosterIds) = MapThenSumSet(Losses, RosterIds)

\* The commissioner's roster is not benched, replaced or removed while other
\* rosters stay: not by a smaller league, not by a kick, not by a reset.
CommissionerStays ==
    [][\A m \in Commissioner : m \in members' \/ members' = {}]_vars

\* A league comes to have more active members than teams only by the update
\* that makes it smaller, when somebody joined after the count; joining,
\* reinstating and bulk adding never overfill it.
OnlyResizeOverfills ==
    [][/\ Cardinality(Active) <= league.total
       /\ Cardinality(Active') > league.total'
       => league'.total < league.total]_vars

\* While a league is in its season, its week catches up with the NFL week
\* after any crash or write of the commissioner (checkAndAdvanceWeek).
Behind == InSeason /\ league.week < nfl.week
WeekFollowsNfl == Behind ~> ~Behind

\* week-advancement: "league_seasons.status = 'in_season' means draft completed":
\* a league whose draft is completed enters its regular season with the NFL.
SeasonOpens ==
    (league.draft = "completed" /\ nfl.type = "regular")
       ~> (league.phase # "pre_season" \/ league.draft # "completed" \/ nfl.type # "regular")
=============================================================================
