------------------------------ MODULE Auction -------------------------------
(***************************************************************************)
(* The auction of one draft, fast or slow: src/modules/drafts/auction, its *)
(* job and the pause and resume of draft-state.service.  In a fast auction *)
(* one roster at a time nominates a player and one lot is open; in a slow  *)
(* one every roster nominates and lots run side by side.  The job settles  *)
(* expired lots one by one and then advances the nominator, and handles    *)
(* nominations that time out, in transactions of their own.                *)
(* What a handler does under the DRAFT lock, or holding the row of the lot *)
(* (FOR UPDATE), is one step; what it read before it took the lock is a    *)
(* step before.                                                            *)
(* Operators whose name ends in _Faulty are wrong on purpose: the mutation *)
(* tests put them in the place of the operator they precede.               *)
(***************************************************************************)
EXTENDS AuctionMath, FiniteSets, SequencesExt

CONSTANTS Setups,        \* auction modes and time-out actions looked at
          Order,          \* draft_order: the rosters in nomination order
          Player,
          Bids,          \* the maximum bids managers set
          NominationTicks, ResetTicks, WindowTicks, LongestLot,  \* timers
          MaxActivePerTeam,
          BudgetQueryRuns, \* the database accepts the budget query with FOR UPDATE
          MaxLots,       \* bound: lots after which no manager nominates
          MaxRequests,   \* bound: requests to pause or resume
          MaxCrashes,    \* bound: restarts of the process and failed advancements
          Nobody

Roster == {Order[i] : i \in DOMAIN Order}
Turn == 1 .. Len(Order)
Ticks == 0 .. Larger(Larger(NominationTicks, ResetTicks), WindowTicks)
Frozen == -1             \* a NULL deadline
Lot == 1 .. MaxLots + Cardinality(Player)

ASSUME OrderAssumption == Order \in Seq(Roster) /\ Len(Order) > 0 /\ Nobody \notin Roster
ASSUME SetupsAssumption ==
  Setups \subseteq {"fast", "slow"} \X {"auto_skip_nominator", "auto_nominate_no_open_bid",
                                     "auto_nominate_and_open_bid"}
ASSUME TimerAssumption ==
  {NominationTicks, ResetTicks, WindowTicks, LongestLot, MaxActivePerTeam,
   MaxLots, MaxRequests, MaxCrashes} \subseteq Nat
ASSUME BidsAssumption == Bids \subseteq Nat
ASSUME QueryAssumption == BudgetQueryRuns \in BOOLEAN

VARIABLES
  mode,      \* settings.auctionMode
  onTimeout, \* settings.fastAuctionTimeoutAction
  status,    \* drafts.status
  turn,      \* drafts.current_pick, modulo the number of rosters
  pickLeft,  \* ticks to pick_deadline, the nomination's
  lots,      \* rows of auction_lots, with their rows of auction_proxy_bids
  picks,     \* rows of draft_picks: <<roster, player>>
  saved,     \* draftState.remainingSeconds and pausedLotState
  asked,     \* requests to pause or resume that have read the draft
  requests,
  found,     \* expired lots the settlement job has still to settle
  owed,      \* advanceNominator calls the jobs have still to make
  closing,   \* completeAuctionDraft calls they have still to make
  crashes

vars == <<mode, onTimeout, status, turn, pickLeft, lots, picks, saved, asked, requests, found,
          owed, closing, crashes>>

\* The settlement job and the job of nomination time-outs.
Job == {"settle", "timeout"}
NoCalls == [j \in Job |-> 0]

NoSaved == [pick |-> 0, lot |-> 0, left |-> 0]

LotRow == [player : Player, nominator : Roster, status : {"active", "won", "passed"},
           bid : Nat, leader : Roster \cup {Nobody}, left : Ticks \cup {Frozen},
           age : 0 .. LongestLot, proxies : Seq([roster : Roster, max : Nat])]

SavedState == [pick : Ticks, lot : Lot \cup {0}, left : Ticks]
Request == [kind : {"pause", "resume"}, pick : Ticks \cup {Frozen},
            saved : SavedState]

TypeOK ==
  /\ mode \in {"fast", "slow"}
  /\ onTimeout \in {"auto_skip_nominator", "auto_nominate_no_open_bid",
                    "auto_nominate_and_open_bid"}
  /\ status \in {"in_progress", "paused", "completed"}
  /\ turn \in Turn /\ pickLeft \in Ticks \cup {Frozen}
  /\ lots \in Seq(LotRow) /\ DOMAIN lots \subseteq Lot
  /\ \A l \in DOMAIN lots : \A i, j \in DOMAIN lots[l].proxies :
       lots[l].proxies[i].roster = lots[l].proxies[j].roster => i = j
  /\ picks \in Seq(Roster \X Player)
  /\ saved \in SavedState /\ asked \in Seq(Request) /\ requests \in 0 .. MaxRequests
  /\ found \in Seq(Lot) /\ owed \in [Job -> Nat] /\ closing \in [Job -> Nat] /\ crashes \in 0 .. MaxCrashes

Nominator == Order[turn]
Active == {l \in DOMAIN lots : lots[l].status = "active"}
Taken == {picks[i][2] : i \in DOMAIN picks}

\* getRosterBudgetDataWithClient.
Budget(r) ==
  LET Of(st) == {l \in DOMAIN lots : lots[l].status = st /\ lots[l].leader = r}
      Paid(S) == SumOf([l \in DOMAIN lots |-> IF l \in S THEN lots[l].bid ELSE 0])
  IN [spent |-> Paid(Of("won")), won |-> Cardinality(Of("won")), leading |-> Paid(Of("active"))]

\* findLotByDraftAndPlayerWithClient and draft_picks.
Nominated(p) == \E l \in DOMAIN lots : lots[l].player = p /\ lots[l].status # "passed"

\* findBestAvailablePlayerForAuction and findRandomEligiblePlayerForAuction
\* also leave out the players whose lot was passed.
Eligible == {p \in Player \ Taken : \A l \in DOMAIN lots : lots[l].player # p}

Init ==
  /\ \E s \in Setups : mode = s[1] /\ onTimeout = s[2]
  /\ status = "in_progress" /\ turn = 1
  /\ pickLeft = IF mode = "fast" THEN NominationTicks ELSE Frozen
  /\ lots = <<>> /\ picks = <<>> /\ saved = NoSaved /\ asked = <<>> /\ requests = 0
  /\ found = <<>> /\ owed = NoCalls /\ closing = NoCalls /\ crashes = 0

-----------------------------------------------------------------------------
(* Nominations and bids                                                    *)

\* createLotWithClient.
NewLot(r, p, left) ==
  [player |-> p, nominator |-> r, status |-> "active", bid |-> MinBid, leader |-> Nobody,
   left |-> left, age |-> 0, proxies |-> <<>>]

\* setNominatorAsOpeningBidder.
OpenedBy(lot, r, max) ==
  [lot EXCEPT !.leader = r, !.proxies = <<[roster |-> r, max |-> max]>>]

FastLot(r, p) == NewLot(r, p, Smaller(NominationTicks, LongestLot))

\* nominate of the fast auction.
FastNominate(r, p) ==
  /\ BudgetQueryRuns
  /\ mode = "fast" /\ status = "in_progress" /\ Nominator = r
  /\ Active = {}
  /\ p \notin Taken /\ ~Nominated(p)
  /\ Budget(r).won < Slots
  /\ CanAffordMinBid(Budget(r))
  /\ Len(lots) < MaxLots
  /\ lots' = Append(lots, OpenedBy(FastLot(r, p), r, MinBid))
  /\ UNCHANGED <<mode, onTimeout, status, turn, pickLeft, picks, saved, asked, requests, found,
                 owed, closing, crashes>>

\* The upsert into auction_proxy_bids.
WithProxy(proxies, r, max) ==
  IF \E i \in DOMAIN proxies : proxies[i].roster = r
  THEN [i \in DOMAIN proxies |->
          IF proxies[i].roster = r THEN [proxies[i] EXCEPT !.max = max] ELSE proxies[i]]
  ELSE Append(proxies, [roster |-> r, max |-> max])

\* resolvePriceWithClient: its compare-and-set never fails, because every
\* caller holds the row of the lot.
Resolved(lot) ==
  LET ranked == Ranked(lot.proxies)
  IN [lot EXCEPT !.leader = ranked[1].roster, !.bid = LeadingPrice(ranked, lot.bid)]

\* What both auctions ask of a bid's budget.
BidFits(r, lot, max) ==
  LET m == Budget(r)
  IN /\ m.won < Slots
     /\ max <= MaxAffordable(m, lot.bid, lot.leader = r)
     /\ max + m.spent + Reserve(m) <= Total

\* A leader may lower its maximum below the bid that stands.
FastBidAllowed_Faulty(r, lot, max) ==
  max >= (IF lot.leader \in {r, Nobody} THEN MinBid ELSE lot.bid + Increment)

FastBidAllowed(r, lot, max) ==
  max >= (IF lot.leader \in {r, Nobody} THEN lot.bid ELSE lot.bid + Increment)

\* In a fast auction any change of leader or price extends the deadline.
FastPriced(lot, r, max) ==
  LET after == Resolved([lot EXCEPT !.proxies = WithProxy(@, r, max)])
  IN IF after.leader = lot.leader /\ after.bid = lot.bid THEN after
     ELSE [after EXCEPT !.left = Extended(@, lot.age, ResetTicks, LongestLot)]

\* setMaxBid of the fast auction.  A request repeated with its idempotency
\* key changes nothing.
FastBid(r, l, max) ==
  LET lot == lots[l]
  IN /\ BudgetQueryRuns
     /\ mode = "fast" /\ lot.status = "active" /\ lot.left > 0
     /\ FastBidAllowed(r, lot, max) /\ BidFits(r, lot, max)
     /\ lots' = [lots EXCEPT ![l] = FastPriced(lot, r, max)]
     /\ UNCHANGED <<mode, onTimeout, status, turn, pickLeft, picks, saved, asked, requests, found,
                    owed, closing, crashes>>

\* countActiveLotsForRosterWithClient: the lots it has nominated.
OwnLots(r) == {l \in Active : lots[l].nominator = r}

\* nominate of the slow auction looks at the draft before it takes the locks,
\* at any time since the start, and only at the lots inside them.
SlowNominate(r, p) ==
  /\ BudgetQueryRuns
  /\ mode = "slow" /\ p \notin Taken
  /\ Budget(r).won < Slots
  /\ Cardinality(OwnLots(r)) < MaxActivePerTeam
  /\ ~Nominated(p)
  /\ Len(lots) < MaxLots
  /\ lots' = Append(lots, NewLot(r, p, WindowTicks))
  /\ UNCHANGED <<mode, onTimeout, status, turn, pickLeft, picks, saved, asked, requests, found,
                 owed, closing, crashes>>

\* In a slow auction only a new leader restarts the timer.
SlowPriced(lot, r, max) ==
  LET after == Resolved([lot EXCEPT !.proxies = WithProxy(@, r, max)])
  IN IF after.leader = lot.leader THEN after ELSE [after EXCEPT !.left = WindowTicks]

\* setMaxBid of the slow auction.
SlowBid(r, l, max) ==
  LET lot == lots[l]
  IN /\ BudgetQueryRuns
     /\ mode = "slow" /\ lot.status = "active" /\ lot.left # 0
     /\ max >= MinBid /\ BidFits(r, lot, max)
     /\ lots' = [lots EXCEPT ![l] = SlowPriced(lot, r, max)]
     /\ UNCHANGED <<mode, onTimeout, status, turn, pickLeft, picks, saved, asked, requests, found,
                    owed, closing, crashes>>

-----------------------------------------------------------------------------
(* The jobs                                                                *)

\* findExpiredLots, under the JOB lock of settlement.
FindExpired ==
  /\ found = <<>>
  /\ LET expired == {l \in Active : lots[l].left = 0}
     IN expired # {} /\ found' \in SetToSeqs(expired)
  /\ UNCHANGED <<mode, onTimeout, status, turn, pickLeft, lots, picks, saved, asked, requests, owed,
                 closing, crashes>>

Passed(lot) == [lot EXCEPT !.status = "passed", !.proxies = <<>>]

\* The settlement charges the current bid without looking at the budget.
CanSettleAt_Faulty(l, i) == TRUE

\* The i-th bidder can pay its price.
CanSettleAt(l, i) ==
  LET ranked == Ranked(lots[l].proxies)
  IN CanSettle(Budget(ranked[i].roster), SettlePrice(ranked, i, lots[l].bid))

\* The update to 'won' and the insert into draft_picks.
Award(l, i) ==
  LET ranked == Ranked(lots[l].proxies)
  IN /\ lots' = [lots EXCEPT ![l].status = "won", ![l].leader = ranked[i].roster,
                             ![l].bid = SettlePrice(ranked, i, @), ![l].proxies = <<>>]
     /\ picks' = Append(picks, <<ranked[i].roster, lots[l].player>>)

\* No bidder can afford the lot, or there is none.
Pass(l) == lots' = [lots EXCEPT ![l] = Passed(@)] /\ UNCHANGED picks

\* settleLot: the first bidder of the ranking who can pay gets the player.
\* The deadline is not looked at again, and neither is the draft.
SettleLot(l) ==
  /\ lots[l].status = "active"
  /\ lots[l].proxies # <<>> => BudgetQueryRuns
  /\ \/ \E i \in DOMAIN lots[l].proxies :
          CanSettleAt(l, i) /\ (\A j \in 1 .. i - 1 : ~CanSettleAt(l, j)) /\ Award(l, i)
     \/ (\A i \in DOMAIN lots[l].proxies : ~CanSettleAt(l, i)) /\ Pass(l)

\* processExpiredLots settles what was found; the error of one lot does not
\* stop the others, and a fast auction owes an advancement for each result.
ProcessExpired ==
  /\ found # <<>>
  /\ found' = Tail(found)
  /\ \/ SettleLot(Head(found)) /\ owed' = IF mode = "fast" THEN [owed EXCEPT !["settle"] = @ + 1] ELSE owed
     \/ /\ lots[Head(found)].status # "active" \/ ~BudgetQueryRuns
        /\ UNCHANGED <<lots, picks, owed>>
  /\ UNCHANGED <<mode, onTimeout, status, turn, pickLeft, saved, asked, requests, closing, crashes>>

\* The k-th turn after the current one.
TurnAfter(k) == ((turn + k - 1) % Len(Order)) + 1

\* The k-th roster in turn is the first that may nominate.
NextTurn(k) ==
  /\ MayNominate(Budget(Order[TurnAfter(k)]))
  /\ \A j \in 1 .. k - 1 : ~MayNominate(Budget(Order[TurnAfter(j)]))

\* advanceNominatorInternal under the DRAFT lock.
AdvanceNominatorInternal(j) ==
  \/ status # "in_progress" /\ UNCHANGED <<turn, pickLeft, closing>>
  \/ /\ status = "in_progress" /\ Eligible # {} /\ BudgetQueryRuns
     /\ \E k \in Turn :
          NextTurn(k) /\ turn' = TurnAfter(k) /\ pickLeft' = NominationTicks
     /\ UNCHANGED closing
  \/ /\ status = "in_progress"
     /\ Eligible = {} \/ \A r \in Roster : ~MayNominate(Budget(r))
     /\ closing' = [closing EXCEPT ![j] = @ + 1]
     /\ UNCHANGED <<turn, pickLeft>>

\* advanceNominator of the settlement job, or after a skipped nomination.
AdvanceNominator(j) ==
  /\ owed[j] > 0 /\ owed' = [owed EXCEPT ![j] = @ - 1]
  /\ AdvanceNominatorInternal(j)
  /\ UNCHANGED <<mode, onTimeout, status, lots, picks, saved, asked, requests, found, crashes>>

\* Three attempts and forceAdvanceNominator fail: the call is given up.
AdvanceGivenUp(j) ==
  /\ owed[j] > 0 /\ owed' = [owed EXCEPT ![j] = @ - 1]
  /\ crashes < MaxCrashes /\ crashes' = crashes + 1
  /\ UNCHANGED <<mode, onTimeout, status, turn, pickLeft, lots, picks, saved, asked, requests, found,
                 closing>>

\* completeAuctionDraft, in a transaction of its own and unconditionally.
CompleteAuctionDraft(j) ==
  /\ closing[j] > 0 /\ closing' = [closing EXCEPT ![j] = @ - 1]
  /\ status' = "completed"
  /\ UNCHANGED <<mode, onTimeout, turn, pickLeft, lots, picks, saved, asked, requests, found, owed,
                 crashes>>

\* resolveTimeoutAction: what becomes of a nomination that timed out.
Skips ==
  \/ onTimeout = "auto_skip_nominator"
  \/ Eligible = {}
  \/ ~MayNominate(Budget(Nominator))

\* The lot of a nomination that timed out, opened with a bid of the
\* nominator unless the settings say otherwise.
AutoLot(p) ==
  LET lot == FastLot(Nominator, p)
  IN IF onTimeout = "auto_nominate_no_open_bid" THEN lot
     ELSE OpenedBy(lot, Nominator, FallbackMax(Budget(Nominator)))

\* A timed-out nomination that is skipped does not advance the turn.
SkipNomination_Faulty == Skips /\ owed' = owed /\ UNCHANGED lots

SkipNomination ==
  Skips /\ owed' = [owed EXCEPT !["timeout"] = @ + 1] /\ UNCHANGED lots

\* processNominationTimeouts: the query of the job.
NominationTimedOut == mode = "fast" /\ status = "in_progress" /\ pickLeft = 0 /\ Active = {}

\* autoNominate checks the same again under the DRAFT lock; a skip is followed by an
\* advancement in another transaction.
AutoNominate ==
  /\ owed["timeout"] = 0 /\ closing["timeout"] = 0
  /\ NominationTimedOut
  /\ (onTimeout = "auto_skip_nominator" \/ Eligible = {}) \/ BudgetQueryRuns
  /\ \/ SkipNomination
     \/ \E p \in Eligible :
          ~Skips /\ lots' = Append(lots, AutoLot(p)) /\ UNCHANGED owed
  /\ UNCHANGED <<mode, onTimeout, status, turn, pickLeft, picks, saved, asked, requests, found,
                 closing, crashes>>

\* The process dies: what it held in memory is gone.
Crash ==
  /\ crashes < MaxCrashes /\ crashes' = crashes + 1
  /\ found # <<>> \/ owed # NoCalls \/ closing # NoCalls
  /\ found' = <<>> /\ owed' = NoCalls /\ closing' = NoCalls /\ asked' = <<>>
  /\ UNCHANGED <<mode, onTimeout, status, turn, pickLeft, lots, picks, saved, requests>>

-----------------------------------------------------------------------------
(* The commissioner and the clock                                          *)

\* pauseDraft and resumeDraft read the draft before they take the lock.
AskPause ==
  /\ mode = "fast" /\ status = "in_progress" /\ requests < MaxRequests /\ requests' = requests + 1
  /\ asked' = Append(asked, [kind |-> "pause", pick |-> pickLeft, saved |-> NoSaved])
  /\ UNCHANGED <<mode, onTimeout, status, turn, pickLeft, lots, picks, saved, found, owed,
                 closing, crashes>>

AskResume ==
  /\ mode = "fast" /\ status = "paused" /\ requests < MaxRequests /\ requests' = requests + 1
  /\ asked' = Append(asked, [kind |-> "resume", pick |-> Frozen, saved |-> saved])
  /\ UNCHANGED <<mode, onTimeout, status, turn, pickLeft, lots, picks, saved, found, owed,
                 closing, crashes>>

\* pauseDraft of a fast auction freezes the open lot, and does not look at
\* the status again.
FastPause(i) ==
  /\ asked[i].kind = "pause"
  /\ asked' = RemoveAt(asked, i)
  /\ status' = "paused" /\ pickLeft' = Frozen
  /\ LET remaining == IF asked[i].pick = Frozen THEN NominationTicks ELSE asked[i].pick
     IN \/ /\ Active = {} /\ UNCHANGED lots
           /\ saved' = [pick |-> remaining, lot |-> 0, left |-> 0]
        \/ \E l \in Active :
             /\ lots' = [lots EXCEPT ![l].left = Frozen]
             /\ saved' = [pick |-> remaining, lot |-> l, left |-> Larger(0, lots[l].left)]
  /\ UNCHANGED <<mode, onTimeout, turn, picks, requests, found, owed, closing, crashes>>

\* resumeDraft of a fast auction restores what the draft it read had saved.
FastResume(i) ==
  /\ asked[i].kind = "resume"
  /\ asked' = RemoveAt(asked, i)
  /\ status' = "in_progress" /\ pickLeft' = asked[i].saved.pick
  /\ lots' = [l \in DOMAIN lots |->
       IF l = asked[i].saved.lot /\ lots[l].status = "active"
       THEN [lots[l] EXCEPT !.left = asked[i].saved.left] ELSE lots[l]]
  /\ saved' = NoSaved
  /\ UNCHANGED <<mode, onTimeout, turn, picks, requests, found, owed, closing, crashes>>

\* In a slow auction updateWithLock looks at the status again, and the lots
\* run on.
SlowPauseOrResume ==
  /\ mode = "slow" /\ status # "completed"
  /\ status' = IF status = "paused" THEN "in_progress" ELSE "paused"
  /\ UNCHANGED <<mode, onTimeout, turn, pickLeft, lots, picks, saved, asked, requests, found,
                 owed, closing, crashes>>

\* completeDraft of the commissioner.
CompleteDraft ==
  /\ status # "completed" /\ status' = "completed" /\ pickLeft' = Frozen
  /\ UNCHANGED <<mode, onTimeout, turn, lots, picks, saved, asked, requests, found, owed, closing,
                 crashes>>

Less(ticks) == IF ticks > 0 THEN ticks - 1 ELSE ticks

Clock ==
  /\ pickLeft > 0 \/ \E l \in Active : lots[l].left > 0
  /\ pickLeft' = Less(pickLeft)
  /\ asked' = [i \in DOMAIN asked |-> [asked[i] EXCEPT !.pick = Less(@)]]
  /\ lots' = [l \in DOMAIN lots |->
       IF l \notin Active THEN lots[l]
       ELSE [lots[l] EXCEPT !.left = Less(@),
                            !.age = IF mode = "fast" THEN Smaller(LongestLot, @ + 1) ELSE @]]
  /\ UNCHANGED <<mode, onTimeout, status, turn, picks, saved, requests, found, owed, closing, crashes>>

Next ==
  \/ \E r \in Roster, p \in Player : FastNominate(r, p) \/ SlowNominate(r, p)
  \/ \E r \in Roster, l \in DOMAIN lots, b \in Bids : FastBid(r, l, b) \/ SlowBid(r, l, b)
  \/ AskPause \/ AskResume \/ SlowPauseOrResume
  \/ \E i \in DOMAIN asked : FastPause(i) \/ FastResume(i)
  \/ FindExpired \/ ProcessExpired \/ AutoNominate
  \/ \E j \in Job : AdvanceNominator(j) \/ AdvanceGivenUp(j) \/ CompleteAuctionDraft(j)
  \/ Crash \/ CompleteDraft \/ Clock

Spec == Init /\ [][Next]_vars

\* Time passes, both jobs tick every five seconds, and what they call runs.
FairSpec ==
  /\ Spec
  /\ WF_vars(Clock) /\ WF_vars(FindExpired) /\ WF_vars(ProcessExpired)
  /\ WF_vars(AutoNominate)
  /\ \A j \in Job : WF_vars(AdvanceNominator(j)) /\ WF_vars(CompleteAuctionDraft(j))

-----------------------------------------------------------------------------
(* Properties                                                              *)

\* However lots, bids and settlements interleave, a roster that has won a lot
\* never has more players than slots, and keeps a minimum bid for each slot
\* still open: bids on parallel lots may overcommit it, settlements must not.
SpentWithinBudget ==
  \A r \in Roster : Budget(r).won > 0 =>
    /\ Budget(r).won <= Slots
    /\ Budget(r).spent + (Slots - Budget(r).won) * MinBid <= Total

\* Every lot that was won is one pick of its winner, and no player is
\* drafted twice, though lots are found by one query and settled by others.
PicksAreWonLots ==
  /\ \A i, j \in DOMAIN picks : picks[i][2] = picks[j][2] => i = j
  /\ {picks[i] : i \in DOMAIN picks} =
       {<<lots[l].leader, lots[l].player>> : l \in {k \in DOMAIN lots : lots[k].status = "won"}}

\* In a fast auction the winner pays no more than the maximum it has set.
FastWinnerPaysWithinBid ==
  [][mode = "fast" =>
      \A l \in DOMAIN lots : lots[l].status = "active" /\ lots'[l].status = "won" =>
        \E i \in DOMAIN lots[l].proxies :
          /\ lots[l].proxies[i].roster = lots'[l].leader
          /\ lots[l].proxies[i].max >= lots'[l].bid]_vars

\* The same of both auctions.
WinnerPaysWithinBid ==
  [][\A l \in DOMAIN lots : lots[l].status = "active" /\ lots'[l].status = "won" =>
        \E i \in DOMAIN lots[l].proxies :
          /\ lots[l].proxies[i].roster = lots'[l].leader
          /\ lots[l].proxies[i].max >= lots'[l].bid]_vars

\* A running fast auction has no frozen lot.
LotsRunWithTheDraft ==
  mode = "fast" /\ status = "in_progress" => \A l \in Active : lots[l].left # Frozen

\* A fast auction that nominates for idle managers does not stop by itself:
\* unless it is paused, or a stale resume has left its lot frozen, it is
\* completed, across crashes between a settlement and what must follow it.
AuctionEnds ==
  (mode = "fast" /\ onTimeout # "auto_skip_nominator" /\ status = "in_progress")
    ~> (status # "in_progress" \/ ~LotsRunWithTheDraft)
=============================================================================
