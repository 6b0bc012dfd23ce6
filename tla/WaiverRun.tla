----------------------------- MODULE WaiverRun -----------------------------
(***************************************************************************)
(* Waiver claims of one league and week, from submission to the hourly run *)
(* that decides them: src/modules/waivers.  Submitting, cancelling,        *)
(* editing and reordering claims and the run itself are transactions under *)
(* the WAIVER lock; free agents come and go under another lock while the   *)
(* run is going on.  The run works from a picture of rosters, budgets and  *)
(* priorities it loads once and updates in memory as claims win, and its   *)
(* statements write the same facts to the tables.                          *)
(* Operators whose name ends in _Faulty are wrong on purpose: the mutation *)
(* tests put them in the place of the operator they precede.               *)
(***************************************************************************)
EXTENDS Integers, FiniteSets, Sequences, FiniteSetsExt, Columns

CONSTANTS Roster,      \* roster ids
          Player,
          Offers,      \* the claims managers submit
          Bids,        \* the bids they change theirs to
          Adds, Drops, \* the free-agent moves that meet a run
          InitRows,    \* <<roster, player>> rows of roster_players
          InitBudget,  \* FAAB budget of every roster
          InitPrio,    \* waiver_priority
          MaxSize,     \* getMaxRosterSize(league.settings)
          MaxClaims,   \* bound: claims submitted
          MaxHour,     \* bound: processing windows
          MaxAsked,    \* bound: cancellations and edits under way at once
          None         \* a claim without a drop

Id == 1 .. MaxClaims
Hour == 1 .. MaxHour
Offer == [roster : Roster, player : Player, drop : Player \cup {None}, bid : Nat]
\* "outbid" stands for status 'failed' with reason 'Outbid by another team'.
ClaimStatus == {"none", "pending", "successful", "failed", "outbid", "invalid", "cancelled"}

ASSUME RosterAssumption == Roster \subseteq Nat /\ IsFiniteSet(Roster)
ASSUME OffersAssumption == Offers \subseteq Offer /\ Bids \subseteq Nat
ASSUME MovesAssumption == Adds \cup Drops \subseteq Roster \X Player
ASSUME RowsAssumption == InitRows \subseteq Roster \X Player
ASSUME PrioAssumption ==
  /\ InitPrio \in [Roster -> Nat \ {0}]
  /\ \A r, s \in Roster : InitPrio[r] = InitPrio[s] => r = s
ASSUME NumbersAssumption == {InitBudget, MaxSize, MaxClaims, MaxHour, MaxAsked} \subseteq Nat
ASSUME NoneAssumption == None \notin Player

VARIABLES
  mode,      \* the league's waiverType
  hour,      \* the wall clock, truncated to the hour
  claims,    \* committed rows of waiver_claims
  rows,      \* committed rows of roster_players
  budget,    \* committed remaining_budget
  prio,      \* committed waiver_priority
  ran,       \* the windows with a row in waiver_processing_runs
  asked,     \* cancellations and edits past their check outside the lock
  step,      \* where the run stands, "idle" when there is none
  window,    \* the window the run works for
  round,     \* claims of the current round whose conflict group is to come
  queue,     \* candidates left in the current conflict group, best first
  aborted,   \* PostgreSQL has put the run's transaction in the failed state
  tab,       \* the tables as the run's transaction sees and writes them
  mem        \* the run's picture in memory

user == <<mode, hour, asked>>
tables == <<claims, rows, budget, prio, ran>>
run == <<step, window, round, queue, aborted, tab, mem>>
vars == <<user, tables, run>>

Claim == [roster : Roster, player : Player, drop : Player \cup {None}, bid : Nat,
          order : Nat, status : ClaimStatus, run : Hour \cup {0}]

NoTables == [claims |-> <<>>, gone |-> {}, came |-> {}, budget |-> <<>>, prio |-> <<>>]
NoMemory == [owned |-> {}, has |-> <<>>, size |-> <<>>, budget |-> <<>>, prio |-> <<>>,
             max |-> 0]

TypeOK ==
  /\ mode \in {"faab", "standard"} /\ hour \in Hour /\ ran \subseteq Hour
  /\ claims \in Seq(Claim) /\ Len(claims) <= MaxClaims
  /\ rows \subseteq Roster \X Player
  /\ budget \in [Roster -> Nat]
  /\ prio \in [Roster -> Nat] /\ \A r, s \in Roster : prio[r] = prio[s] => r = s
  /\ \A a \in asked : a.claim \in DOMAIN claims
  /\ step \in {"idle", "choose", "drop", "add", "charge", "caught"}
  /\ step # "idle" => /\ tab.claims \in Seq(Claim) /\ DOMAIN tab.claims = DOMAIN claims
                      /\ tab.budget \in [Roster -> Nat] /\ tab.prio \in [Roster -> Nat]
                      /\ tab.gone \subseteq rows
  /\ round \subseteq DOMAIN claims
  /\ \A i \in DOMAIN queue : queue[i] \in DOMAIN claims

Pending(cs) == {c \in DOMAIN cs : cs[c].status = "pending"}
\* getPendingByRoster.
PendingOf(r) == {c \in Pending(claims) : claims[c].roster = r}

Owned(R) == {x[2] : x \in R}
PlayersOf(R, r) == {x[2] : x \in {y \in R : y[1] = r}}

\* roster_players as the run's transaction sees it.
Seen == (rows \ tab.gone) \cup tab.came

FullBudgets == [r \in Roster |-> InitBudget]

Init ==
  /\ mode \in {"faab", "standard"}
  /\ hour = 1
  /\ claims = <<>>
  /\ rows = InitRows
  /\ budget = FullBudgets
  /\ prio = InitPrio
  /\ ran = {}
  /\ asked = {}
  /\ step = "idle" /\ window = 1 /\ round = {} /\ queue = <<>> /\ aborted = FALSE
  /\ tab = NoTables /\ mem = NoMemory

-----------------------------------------------------------------------------
(* A multi-row UPDATE of a column with a unique constraint                 *)

\* PostgreSQL checks a constraint that is not deferrable row by row: updating
\* old to new in this order of rows meets a value another row still has.
Clash(old, new, order) ==
  \E i \in DOMAIN order : \E y \in DOMAIN old \ {order[i]} :
    new[order[i]] = IF \E j \in 1 .. i - 1 : order[j] = y THEN new[y] ELSE old[y]

RowOrders(S) ==
  {f \in [1 .. Cardinality(S) -> S] : \A i, j \in DOMAIN f : f[i] = f[j] => i = j}

MaxOf(f) == Max({f[r] : r \in DOMAIN f})

\* rotatePriority: the claimer becomes last and the rosters behind it move up.
Rotated(p, r) ==
  [x \in Roster |-> IF x = r THEN MaxOf(p) ELSE IF p[x] > p[r] THEN p[x] - 1 ELSE p[x]]

-----------------------------------------------------------------------------
(* What managers do                                                        *)

\* The WAIVER lock is free.
LockFree == step = "idle"

\* getNextClaimOrder, among the claims of the roster that are pending.
NextOrder(r) == Max({claims[c].order : c \in PendingOf(r)} \cup {0}) + 1

NewClaim(o) ==
  [roster |-> o.roster, player |-> o.player, drop |-> o.drop, bid |-> o.bid,
   order |-> NextOrder(o.roster), status |-> "pending", run |-> 0]

\* submitClaim.
Submit(o) ==
  /\ LockFree
  /\ Len(claims) < MaxClaims
  /\ o.player \notin Owned(rows)
  /\ \A c \in PendingOf(o.roster) : claims[c].player # o.player
  /\ mode = "faab" => o.bid <= budget[o.roster]
  /\ o.drop # None => <<o.roster, o.drop>> \in rows
  /\ claims' = Append(claims, NewClaim(o))
  /\ UNCHANGED <<user, rows, budget, prio, ran, run>>

\* cancelClaim and updateClaim look at the claim before they take the lock.
Ask(c, bid) ==
  /\ c \in Pending(claims)
  /\ Cardinality(asked) < MaxAsked
  /\ bid # None => mode = "faab"
  /\ asked' = asked \cup {[claim |-> c, bid |-> bid]}
  /\ UNCHANGED <<mode, hour, tables, run>>

\* The cancellation is not conditional on the status any more.
Cancel_Faulty(a) ==
  /\ LockFree
  /\ a \in asked /\ a.bid = None
  /\ claims' = [claims EXCEPT ![a.claim].status = "cancelled"]
  /\ asked' = asked \ {a}
  /\ UNCHANGED <<mode, hour, rows, budget, prio, ran, run>>

CancelIfPending(c) ==
  IF c \in Pending(claims) THEN [claims EXCEPT ![c].status = "cancelled"] ELSE claims

\* cancelClaim, under the lock.
Cancel(a) ==
  /\ LockFree
  /\ a \in asked /\ a.bid = None
  /\ claims' = CancelIfPending(a.claim)
  /\ asked' = asked \ {a}
  /\ UNCHANGED <<mode, hour, rows, budget, prio, ran, run>>

\* updateClaim trusts the status it read before it had the lock.
EditBid_Faulty(a) ==
  /\ LockFree
  /\ a \in asked /\ a.bid # None
  /\ claims' = [claims EXCEPT ![a.claim].bid = a.bid]
  /\ asked' = asked \ {a}
  /\ UNCHANGED <<mode, hour, rows, budget, prio, ran, run>>

UpdateBid(c, bid) == [claims EXCEPT ![c].bid = bid]

\* updateClaim with a new bid, which may use the budget and the old bid.
EditBid(a) ==
  /\ LockFree
  /\ a \in asked /\ a.bid # None
  /\ LET c == claims[a.claim]
     IN claims' = IF c.status = "pending" /\ a.bid <= budget[c.roster] + c.bid
                  THEN UpdateBid(a.claim, a.bid) ELSE claims
  /\ asked' = asked \ {a}
  /\ UNCHANGED <<mode, hour, rows, budget, prio, ran, run>>

\* The claims of P get the numbers 1, 2, ... in the order given; a clash with
\* the unique index on the order of pending claims is an error.
Renumber(P, order) ==
  LET old == [c \in P |-> claims[c].order]
      new == [c \in P |-> CHOOSE i \in DOMAIN order : order[i] = c]
  IN /\ \E visited \in RowOrders(P) : ~Clash(old, new, visited)
     /\ claims' = [c \in DOMAIN claims |->
                     IF c \in P THEN [claims[c] EXCEPT !.order = new[c]] ELSE claims[c]]

\* reorderClaims: all pending claims of a roster.
Reorder(r) ==
  /\ LockFree
  /\ \E order \in RowOrders(PendingOf(r)) : Renumber(PendingOf(r), order)
  /\ UNCHANGED <<user, rows, budget, prio, ran, run>>

\* A free agent joins a roster, or a player leaves one, under the LEAGUE lock
\* while the run goes on; rows the run has written are locked.
AddFreeAgent(r, p) ==
  /\ <<r, p>> \in Adds
  /\ p \notin Owned(rows)
  /\ <<r, p>> \notin tab.came
  /\ Cardinality(PlayersOf(rows, r)) < MaxSize
  /\ rows' = rows \cup {<<r, p>>}
  /\ UNCHANGED <<user, claims, budget, prio, ran, run>>

DropPlayer(r, p) ==
  /\ <<r, p>> \in Drops
  /\ <<r, p>> \in rows \ tab.gone
  /\ rows' = rows \ {<<r, p>>}
  /\ UNCHANGED <<user, claims, budget, prio, ran, run>>

NewHour ==
  /\ hour < MaxHour
  /\ hour' = hour + 1
  /\ UNCHANGED <<mode, asked, tables, run>>

-----------------------------------------------------------------------------
(* The run                                                                 *)

\* tryCreate: one run per window.
WindowIsNew == hour \notin ran

\* The pending claims no run has taken up.
Untaken == {c \in Pending(claims) : claims[c].run = 0}
Snapshot ==
  [c \in DOMAIN claims |->
     IF c \in Untaken THEN [claims[c] EXCEPT !.run = hour] ELSE claims[c]]

\* initializeRosterStates and the loads around it.
Loaded ==
  [owned |-> Owned(rows),
   has |-> [r \in Roster |-> PlayersOf(rows, r)],
   size |-> [r \in Roster |-> Cardinality(PlayersOf(rows, r))],
   budget |-> budget, prio |-> prio, max |-> MaxOf(prio)]

\* BEGIN, the lock, the run's row, the snapshot of the claims, and the loads.
StartRun ==
  /\ LockFree /\ WindowIsNew /\ Untaken # {}
  /\ tab' = [claims |-> Snapshot, gone |-> {}, came |-> {}, budget |-> budget, prio |-> prio]
  /\ mem' = Loaded
  /\ step' = "choose" /\ window' = hour /\ round' = {} /\ queue' = <<>> /\ aborted' = FALSE
  /\ UNCHANGED <<user, tables>>

\* The snapshotted claims without a decision.
Open == {c \in Pending(tab.claims) : tab.claims[c].run = window}

\* extractRoundClaims: the first open claim of every roster.
NextRound ==
  /\ step = "choose" /\ queue = <<>> /\ round = {}
  /\ Open # {}
  /\ round' = {c \in Open : \A d \in Open :
                 tab.claims[d].roster = tab.claims[c].roster
                   => tab.claims[c].order <= tab.claims[d].order}
  /\ UNCHANGED <<user, tables, step, window, queue, aborted, tab, mem>>

\* The lower bid comes first.
Beats_Faulty(c, d) ==
  LET x == tab.claims[c]
      y == tab.claims[d]
  IN IF mode = "faab" /\ x.bid # y.bid THEN x.bid < y.bid
     ELSE mem.prio[x.roster] < mem.prio[y.roster]

\* compareClaims: bid, then current priority; priorities are distinct.
Beats(c, d) ==
  LET x == tab.claims[c]
      y == tab.claims[d]
  IN IF mode = "faab" /\ x.bid # y.bid THEN x.bid > y.bid
     ELSE mem.prio[x.roster] < mem.prio[y.roster]

\* The candidates of a conflict group, best first.
Ranked(group) ==
  {order \in RowOrders(group) : \A i, j \in DOMAIN order : i < j => Beats(order[i], order[j])}

\* The next conflict group, in the order in which rosters appear.
NextGroup ==
  /\ step = "choose" /\ queue = <<>> /\ round # {}
  /\ LET first == CHOOSE c \in round : \A d \in round :
                    tab.claims[c].roster <= tab.claims[d].roster
         group == {c \in round : tab.claims[c].player = tab.claims[first].player}
     IN queue' \in Ranked(group) /\ round' = round \ group
  /\ UNCHANGED <<user, tables, step, window, aborted, tab, mem>>

Decided(cs, S, s) == [c \in DOMAIN cs |-> IF c \in S THEN [cs[c] EXCEPT !.status = s] ELSE cs[c]]

\* The candidate is marked with a status that is not a win.
TurnDown(s) ==
  /\ tab' = [tab EXCEPT !.claims = Decided(@, {Head(queue)}, s)]
  /\ queue' = Tail(queue)
  /\ step' = "choose"
  /\ UNCHANGED <<user, tables, window, round, aborted, mem>>

Goto(s) == step' = s /\ UNCHANGED <<user, tables, window, round, queue, aborted, tab, mem>>

\* The ownership check and validateClaimWithState.
Eligible(c) ==
  /\ c.player \notin mem.owned /\ c.player \notin mem.has[c.roster]
  /\ c.drop # None => c.drop \in mem.has[c.roster]
  /\ c.drop = None => mem.size[c.roster] < MaxSize
  /\ mode = "faab" => c.bid <= mem.budget[c.roster]

Judge ==
  /\ step = "choose" /\ queue # <<>>
  /\ LET c == tab.claims[Head(queue)]
     IN IF Eligible(c) THEN Goto(IF c.drop = None THEN "add" ELSE "drop") ELSE TurnDown("invalid")

\* executeClaim's drop; a player who has left in the meantime is no obstacle.
Drop ==
  /\ step = "drop"
  /\ LET c == tab.claims[Head(queue)]
         row == <<c.roster, c.drop>>
     IN tab' = IF row \in Seen
               THEN [tab EXCEPT !.gone = @ \cup ({row} \cap rows), !.came = @ \ {row}]
               ELSE tab
  /\ step' = "add"
  /\ UNCHANGED <<user, tables, window, round, queue, aborted, mem>>

\* A player who has an owner by now is passed over silently.
Add_Faulty ==
  /\ step = "add"
  /\ LET c == tab.claims[Head(queue)]
     IN IF Cardinality(PlayersOf(Seen, c.roster)) >= MaxSize THEN Goto("caught")
        ELSE /\ tab' = IF c.player \in Owned(Seen) THEN tab
                       ELSE [tab EXCEPT !.came = @ \cup {<<c.roster, c.player>>}]
             /\ step' = "charge"
             /\ UNCHANGED <<user, tables, window, round, queue, aborted, mem>>

\* addPlayerToRoster asks the database again.
Add ==
  /\ step = "add"
  /\ LET c == tab.claims[Head(queue)]
     IN CASE c.player \in Owned(Seen) -> TurnDown("invalid")
          [] c.player \notin Owned(Seen) /\ Cardinality(PlayersOf(Seen, c.roster)) >= MaxSize
               -> Goto("caught")
          [] OTHER -> /\ tab' = [tab EXCEPT !.came = @ \cup {<<c.roster, c.player>>}]
                      /\ step' = "charge"
                      /\ UNCHANGED <<user, tables, window, round, queue, aborted, mem>>

\* updateRosterStateAfterWin and the league's ownership.
Won(m, c) ==
  [m EXCEPT !.owned = (@ \cup {c.player}) \ {c.drop},
            !.has[c.roster] = (@ \cup {c.player}) \ {c.drop},
            !.size[c.roster] = IF c.drop = None THEN @ + 1 ELSE @,
            !.budget[c.roster] = IF mode = "faab" THEN @ - c.bid ELSE @,
            !.prio = IF mode = "faab" THEN @
                     ELSE [r \in Roster |-> IF r = c.roster THEN m.max
                                            ELSE IF @[r] > m.prio[c.roster] THEN @[r] - 1 ELSE @[r]]]

\* The candidate wins, and the rest of the group is outbid.
Win(newBudget, newPrio) ==
  /\ tab' = [tab EXCEPT !.budget = newBudget, !.prio = newPrio,
                        !.claims = Decided(Decided(@, {Head(queue)}, "successful"),
                                           {Tail(queue)[i] : i \in DOMAIN Tail(queue)}, "outbid")]
  /\ mem' = Won(mem, tab.claims[Head(queue)])
  /\ queue' = <<>>
  /\ step' = "choose"
  /\ UNCHANGED <<user, tables, window, round, aborted>>

\* A statement fails: the error is caught, the transaction is in error.
Break ==
  /\ aborted' = TRUE /\ step' = "caught"
  /\ UNCHANGED <<user, tables, window, round, queue, tab, mem>>

\* deductBudget; the table refuses a negative budget.
Deduct ==
  /\ step = "charge" /\ mode = "faab"
  /\ LET c == tab.claims[Head(queue)]
     IN IF tab.budget[c.roster] < c.bid THEN Break
        ELSE Win([tab.budget EXCEPT ![c.roster] = @ - c.bid], tab.prio)

\* rotatePriority, whichever order PostgreSQL visits the rows in.
Rotate ==
  /\ step = "charge" /\ mode = "standard"
  /\ LET new == Rotated(tab.prio, tab.claims[Head(queue)].roster)
     IN \E order \in RowOrders(Roster) :
          IF Clash(tab.prio, new, order) THEN Break ELSE Win(tab.budget, new)

EndRun ==
  /\ step' = "idle" /\ window' = 1 /\ round' = {} /\ queue' = <<>> /\ aborted' = FALSE
  /\ tab' = NoTables /\ mem' = NoMemory

RollBack == EndRun /\ UNCHANGED <<user, tables>>

\* The catch block marks the claim failed, which takes a live transaction.
Catch ==
  /\ step = "caught"
  /\ IF aborted THEN RollBack ELSE TurnDown("failed")

\* No claim of the snapshot is left: the results are recorded and committed.
CommitRun ==
  /\ step = "choose" /\ queue = <<>> /\ round = {} /\ Open = {}
  /\ claims' = tab.claims /\ budget' = tab.budget /\ prio' = tab.prio
  /\ rows' = Seen /\ ran' = ran \cup {window}
  /\ EndRun
  /\ UNCHANGED user

\* Any other error, a lost connection or a crash ends the run.
Abort == step # "idle" /\ RollBack

Next ==
  \/ \E o \in Offers : Submit(o)
  \/ \E c \in DOMAIN claims, b \in Bids \cup {None} : Ask(c, b)
  \/ \E a \in asked : Cancel(a) \/ EditBid(a)
  \/ \E r \in Roster : Reorder(r)
  \/ \E r \in Roster, p \in Player : AddFreeAgent(r, p) \/ DropPlayer(r, p)
  \/ NewHour
  \/ StartRun \/ NextRound \/ NextGroup \/ Judge \/ Drop \/ Add
  \/ Deduct \/ Rotate \/ Catch \/ CommitRun \/ Abort

Spec == Init /\ [][Next]_vars

-----------------------------------------------------------------------------
(* Properties                                                              *)

\* What a roster paid for the claims it has won.
Spent(cs, r) ==
  SumOf([c \in DOMAIN cs |->
           IF cs[c].roster = r /\ cs[c].status = "successful" THEN cs[c].bid ELSE 0])

\* Every roster has spent exactly the bids of its successful claims, across
\* crashed and repeated runs and edits that race with a run.
BudgetsBalance ==
  mode = "faab" => \A r \in Roster : budget[r] = InitBudget - Spent(claims, r)

\* Whenever the run weighs the next claim, the budgets and priorities it has
\* in memory are those its transaction has written.
MemoryMatchesTables ==
  step = "choose" => mem.budget = tab.budget /\ mem.prio = tab.prio

\* A claim a run has taken up is decided when the run commits: it would never
\* be taken up again.
NothingStranded == \A c \in DOMAIN claims : claims[c].run # 0 => claims[c].status # "pending"

\* A claim is reported as outbid only if the same run gave the player to
\* another roster whose claim ranks before it.
OutbidByBetter ==
  \A c \in DOMAIN claims : claims[c].status = "outbid" =>
    \E w \in DOMAIN claims :
      /\ claims[w].status = "successful" /\ claims[w].run = claims[c].run
      /\ claims[w].player = claims[c].player /\ claims[w].roster # claims[c].roster
      /\ mode = "faab" => claims[w].bid >= claims[c].bid

\* A decision is final: no cancellation, edit or later run changes it.
DecidedOnce ==
  [][\A c \in DOMAIN claims : claims[c].status # "pending" => claims'[c] = claims[c]]_vars

\* When a run commits, every claim it calls successful has brought its player
\* to the roster, or the run has carried out another claim of that roster which
\* drops him.  That claim need not have won: executeClaim drops before it adds,
\* and a player who is refused by then does not bring the dropped one back.
WinsAreReal ==
  [][CommitRun => \A c \in Pending(claims) : claims'[c].status = "successful" =>
       \/ <<claims[c].roster, claims[c].player>> \in rows'
       \/ \E d \in Pending(claims) :
            /\ claims'[d].status \in {"successful", "invalid", "failed"}
            /\ claims[d].roster = claims[c].roster /\ claims[d].drop = claims[c].player]_vars

\* One bad claim does not take the decisions about all the others with it:
\* the error a claim raises is caught and the run goes on.
BadClaimIsContained == [][~(Catch /\ step' = "idle")]_vars
=============================================================================
