--------------------------- MODULE TradeLifecycle ---------------------------
(***************************************************************************)
(* The life of the trades of one league: src/modules/trades and the waiver *)
(* run that invalidates trades.  Requests and jobs are transactions that   *)
(* run statement by statement at READ COMMITTED.  A use case first reads   *)
(* the trade without any lock, then takes its advisory locks, reads again, *)
(* and writes; the waiver run writes trades under the WAIVER lock alone,   *)
(* and the expiration job without any lock.                                *)
(* The database outlives a deployment, so trades of earlier versions may   *)
(* be pending at the start.                                                *)
(* Operators whose name ends in _Faulty are wrong on purpose: the mutation *)
(* tests put them in the place of the operator they precede.               *)
(***************************************************************************)
EXTENDS Integers, FiniteSets, Sequences

CONSTANTS Trade, Roster, Player, Voter,
          Tx,             \* concurrent transactions
          Items,          \* Items[t]: the players of trade t, with giver and receiver
          Requests,       \* what users, commissioners and jobs ask for
          InitStatus,     \* the trades table at the start
          InitOwner,      \* roster_players at the start
          MaxSize,        \* getMaxRosterSize(league.settings)
          VetoThreshold,  \* trade_veto_count
          Nobody          \* owner of a free agent; also: a claim without a drop

Status == {"none", "pending", "accepted", "in_review", "completed", "rejected",
           "cancelled", "countered", "expired", "vetoed", "failed"}

\* INVALIDATABLE_TRADE_STATUSES, and what a commissioner may cancel.
Active == {"pending", "accepted", "in_review"}

\* A row of trade_items.
Item == [player : Player, from : Roster, to : Roster]

ASSUME ItemsAssumption ==
  /\ \A t \in Trade : Items[t] \subseteq Item
  /\ \A t \in Trade : \A i, j \in Items[t] : i.player = j.player => i = j
ASSUME StartAssumption ==
  /\ InitStatus \in [Trade -> {"none", "pending"}]
  /\ InitOwner \in [Player -> Roster \cup {Nobody}]
ASSUME ParameterAssumption == MaxSize \in Nat /\ VetoThreshold \in Nat \ {0}
ASSUME NobodyAssumption == Nobody \notin Roster \cup Player
\* The mark of an unwritten row is no owner.
ASSUME MarkAssumption == "same" \notin Roster \cup {Nobody}

\* The methods of TradesService and the other writers of the tables.  In a
\* league whose trading is locked proposals and acceptances are refused at once,
\* counter-offers are not.
\* An acceptance carries the league's review setting as the use case read it.
Request ==
  [kind : {"propose", "reject", "cancel", "adminCancel", "review"}, trade : Trade]
    \cup [kind : {"accept"}, trade : Trade, reviewed : BOOLEAN]
    \cup [kind : {"counter"}, trade : Trade, new : Trade]
    \cup [kind : {"vote"}, trade : Trade, voter : Voter, ballot : {"approve", "veto"}]
    \cup [kind : {"waiver"}, roster : Roster, add : Player, drop : Player \cup {Nobody}]
    \cup [kind : {"drop"}, roster : Roster, drop : Player]

ASSUME RequestsAssumption == Requests \subseteq Request

VARIABLES
  status,   \* committed status of each trade, "none" while there is no row
  owner,    \* committed owner of each player
  votes,    \* committed rows <<voter, ballot>> of trade_votes, per trade
  req,      \* what each transaction executes, <<>> when idle
  todo,     \* the statements it has still to run
  sw,       \* uncommitted status writes: "same" where it has not written
  ow,       \* uncommitted ownership writes: "same" where it has not written
  pv        \* uncommitted votes

vars == <<status, owner, votes, req, todo, sw, ow, pv>>

TypeOK ==
  /\ status \in [Trade -> Status]
  /\ owner \in [Player -> Roster \cup {Nobody}]
  /\ votes \in [Trade -> SUBSET (Voter \X {"approve", "veto"})]
  /\ req \in [Tx -> Requests \cup {<<>>}]
  /\ sw \in [Tx -> [Trade -> Status \cup {"same"}]]
  /\ ow \in [Tx -> [Player -> Roster \cup {Nobody, "same"}]]
  /\ pv \in [Tx -> SUBSET (Voter \X {"approve", "veto"})]

-----------------------------------------------------------------------------
(* Locks, plans and visibility                                             *)

LocksOf(o) ==
  CASE o.kind = "waiver" -> {<<"WAIVER">>}
    [] o.kind = "drop" -> {<<"LEAGUE">>}
    [] o.kind \in {"accept", "review"} ->
         {<<"TRADE">>} \cup {<<"ROSTER", i.from>> : i \in Items[o.trade]}
                       \cup {<<"ROSTER", i.to>> : i \in Items[o.trade]}
    [] OTHER -> {<<"TRADE">>}

\* The statements of each use case, in the order of the code.  A statement
\* named by a status is the UPDATE of trades that sets it.
Plan(o) ==
  CASE o.kind = "propose" -> <<"lock", "validate", "insert", "details", "commit">>
    [] o.kind = "counter" -> <<"lock", "recheck", "countered", "validate", "insert",
                               "details", "commit">>
    [] o.kind = "accept" -> IF o.reviewed
                            THEN <<"lock", "recheck", "items", "in_review", "commit">>
                            ELSE <<"lock", "recheck", "items", "fits", "move",
                                   "completed", "commit">>
    [] o.kind = "reject" -> <<"lock", "recheck", "rejected", "commit">>
    [] o.kind \in {"cancel", "adminCancel"} -> <<"lock", "recheck", "cancelled", "commit">>
    [] o.kind = "vote" -> <<"lock", "recheck", "cast", "vetoed", "commit">>
    [] o.kind = "review" -> <<"lock", "count", "recheck", "sizes", "items", "fits",
                              "move", "completed", "commit">>
    [] o.kind = "drop" -> <<"lock", "drop", "commit">>
    [] o.kind = "waiver" -> <<"lock", "drop", "add", "invalidate", "commit">>

\* The statuses in which a use case may act, before and inside its lock.
Allowed(o) ==
  CASE o.kind \in {"review", "vote"} -> {"in_review"}
    [] o.kind = "adminCancel" -> Active
    [] OTHER -> {"pending"}

\* The completion of an accepted trade is not conditional on its status.
Expected_Faulty(o, s) ==
  CASE s = "completed" -> Status
    [] s \in {"in_review", "countered"} -> {"pending"}
    [] s \in {"vetoed", "failed"} -> {"in_review"}
    [] OTHER -> Status

\* The expectedStatus argument of updateStatus; reject and the two
\* cancellations pass none.
Expected(o, s) ==
  CASE s = "completed" -> IF o.kind = "accept" THEN {"pending"} ELSE {"in_review"}
    [] s \in {"in_review", "countered"} -> {"pending"}
    [] s \in {"vetoed", "failed"} -> {"in_review"}
    [] OTHER -> Status

\* findPlayerIdsInTrade.
PlayersIn(t) == {i.player : i \in Items[t]}

At(x, s) == todo[x] # <<>> /\ Head(todo[x]) = s

StatusSeen(x, t) == IF sw[x][t] = "same" THEN status[t] ELSE sw[x][t]
OwnerSeen(x, p) == IF ow[x][p] = "same" THEN owner[p] ELSE ow[x][p]
SizeSeen(x, r) == Cardinality({p \in Player : OwnerSeen(x, p) = r})

\* countVotes with the two kinds of ballots exchanged.
Vetoes_Faulty(ballots) == Cardinality({v \in ballots : v[2] = "approve"})

\* The vetoes of countVotes.
Vetoes(ballots) == Cardinality({v \in ballots : v[2] = "veto"})

TradeRowFree(x, t) == \A y \in Tx \ {x} : sw[y][t] = "same"
PlayerRowFree(x, p) == \A y \in Tx \ {x} : ow[y][p] = "same"

-----------------------------------------------------------------------------
NoStatusWrites == [t \in Trade |-> "same"]
NoOwnerWrites == [p \in Player |-> "same"]

Init ==
  /\ status = InitStatus
  /\ owner = InitOwner
  /\ votes = [t \in Trade |-> {}]
  /\ req = [x \in Tx |-> <<>>]
  /\ todo = [x \in Tx |-> <<>>]
  /\ sw = [x \in Tx |-> NoStatusWrites]
  /\ ow = [x \in Tx |-> NoOwnerWrites]
  /\ pv = [x \in Tx |-> {}]

Finish(x) ==
  /\ req' = [req EXCEPT ![x] = <<>>]
  /\ todo' = [todo EXCEPT ![x] = <<>>]
  /\ sw' = [sw EXCEPT ![x] = NoStatusWrites]
  /\ ow' = [ow EXCEPT ![x] = NoOwnerWrites]
  /\ pv' = [pv EXCEPT ![x] = {}]

\* The callback throws, or returns having written nothing.
RollBack(x) == Finish(x) /\ UNCHANGED <<status, owner, votes>>

Continue(x, rest) ==
  /\ todo' = [todo EXCEPT ![x] = rest]
  /\ UNCHANGED <<status, owner, votes, req, sw, ow, pv>>

Pass(x) == Continue(x, Tail(todo[x]))

\* A request passes the checks its use case makes before taking any lock;
\* the review job has found the trade in review and past its deadline.
Begin(x, o) ==
  /\ req[x] = <<>>
  /\ CASE o.kind = "propose" -> status[o.trade] = "none"
       [] o.kind = "counter" -> status[o.trade] = "pending" /\ status[o.new] = "none"
       [] o.kind \in {"waiver", "drop"} -> TRUE
       [] OTHER -> status[o.trade] \in Allowed(o)
  /\ req' = [req EXCEPT ![x] = o]
  /\ todo' = [todo EXCEPT ![x] = Plan(o)]
  /\ UNCHANGED <<status, owner, votes, sw, ow, pv>>

\* BEGIN and the advisory locks.
Lock(x) ==
  /\ At(x, "lock")
  /\ \A y \in Tx \ {x} :
       req[y] # <<>> /\ (\A i \in DOMAIN todo[y] : todo[y][i] # "lock")
         => LocksOf(req[x]) \cap LocksOf(req[y]) = {}
  /\ Pass(x)

\* The status is read again inside the lock.
Recheck(x) ==
  /\ At(x, "recheck")
  /\ IF StatusSeen(x, req[x].trade) \in Allowed(req[x]) THEN Pass(x) ELSE RollBack(x)

\* Every item is still on its giver's roster.
CheckItems(x) ==
  /\ At(x, "items")
  /\ IF \A i \in Items[req[x].trade] : OwnerSeen(x, i.player) = i.from
     THEN Pass(x) ELSE RollBack(x)

\* Rosters that receive more than they give stay within the limit.
Fits(x, t) ==
  LET gain(r) == Cardinality({i \in Items[t] : i.to = r})
                   - Cardinality({i \in Items[t] : i.from = r})
  IN \A r \in Roster : gain(r) > 0 => SizeSeen(x, r) + gain(r) <= MaxSize

\* After a review a trade that no longer fits fails for good.
CheckSizes(x) ==
  /\ At(x, "sizes")
  /\ IF Fits(x, req[x].trade) THEN Pass(x) ELSE Continue(x, <<"failed", "commit">>)

\* executeTrade refuses a trade that does not fit.
CheckFits(x) ==
  /\ At(x, "fits")
  /\ IF Fits(x, req[x].trade) THEN Pass(x) ELSE RollBack(x)

\* The trade a proposal or a counter-offer writes.
New(o) == IF o.kind = "counter" THEN o.new ELSE o.trade

\* findPendingByPlayer, findPendingPlayerIds.
ActiveWith(x, p) ==
  {t \in Trade : StatusSeen(x, t) \in Active /\ p \in PlayersIn(t)}

\* A proposal: the players are on the rosters that give them and in no active
\* trade, and the rosters stay within the limit.
Validate(x) ==
  /\ At(x, "validate")
  /\ LET t == New(req[x])
     IN IF /\ \A i \in Items[t] : OwnerSeen(x, i.player) = i.from
           /\ \A p \in PlayersIn(t) : ActiveWith(x, p) = {}
           /\ Fits(x, t)
        THEN Pass(x) ELSE RollBack(x)

\* executeTrade's single UPDATE of roster_players and its row count.
Move(x) ==
  /\ At(x, "move")
  /\ LET items == Items[req[x].trade]
     IN /\ \A i \in items : PlayerRowFree(x, i.player)
        /\ IF \A i \in items : owner[i.player] = i.from
           THEN /\ ow' = [ow EXCEPT ![x] = [p \in Player |->
                            IF p \in PlayersIn(req[x].trade)
                            THEN (CHOOSE i \in items : i.player = p).to ELSE @[p]]]
                /\ todo' = [todo EXCEPT ![x] = Tail(@)]
                /\ UNCHANGED <<status, owner, votes, req, sw, pv>>
           ELSE RollBack(x)

\* updateStatus, updateStatusWithReason and setReviewPeriod.  When the
\* conditional UPDATE matches no row the use cases throw, but the review job
\* returns { skipped: true } and commits what it has done so far.
Update(x) ==
  /\ todo[x] # <<>> /\ Head(todo[x]) \in Status
  /\ LET t == req[x].trade
         s == Head(todo[x])
     IN /\ TradeRowFree(x, t)
        /\ IF StatusSeen(x, t) \in Expected(req[x], s)
           THEN /\ sw' = [sw EXCEPT ![x][t] = s]
                /\ todo' = [todo EXCEPT ![x] = Tail(@)]
                /\ UNCHANGED <<status, owner, votes, req, ow, pv>>
           ELSE IF req[x].kind = "review" THEN Pass(x) ELSE RollBack(x)

\* proposeTradeCore inserts the new trade.
InsertTrade(x) ==
  /\ At(x, "insert")
  /\ TradeRowFree(x, New(req[x]))
  /\ sw' = [sw EXCEPT ![x][New(req[x])] = "pending"]
  /\ todo' = [todo EXCEPT ![x] = Tail(@)]
  /\ UNCHANGED <<status, owner, votes, req, ow, pv>>

\* findByIdWithDetails reads the trade back through the pool, that is on
\* another connection: it sees committed rows only.
ReadBack(x) ==
  /\ At(x, "details")
  /\ IF status[New(req[x])] = "none" THEN RollBack(x) ELSE Pass(x)

\* UNIQUE(trade_id, roster_id), ON CONFLICT DO NOTHING.
HasVoted(t, voter) == \E v \in votes[t] : v[1] = voter

\* The ballot of a roster that has not voted, and the veto when it decides.
CastVote(x) ==
  /\ At(x, "cast")
  /\ LET t == req[x].trade
         ballot == <<req[x].voter, req[x].ballot>>
     IN IF HasVoted(t, req[x].voter)
        THEN Continue(x, <<"commit">>)
        ELSE /\ pv' = [pv EXCEPT ![x] = {ballot}]
             /\ todo' = [todo EXCEPT ![x] =
                  IF Vetoes(votes[t] \cup {ballot}) >= VetoThreshold
                  THEN Tail(@) ELSE <<"commit">>]
             /\ UNCHANGED <<status, owner, votes, req, sw, ow>>

\* The review job counts the vetoes.
CountVetoes(x) ==
  /\ At(x, "count")
  /\ IF Vetoes(votes[req[x].trade]) >= VetoThreshold
     THEN Continue(x, <<"vetoed", "commit">>)
     ELSE Pass(x)

\* A player leaves a roster; a waiver run goes on when he has left before.
Drop(x) ==
  /\ At(x, "drop")
  /\ LET p == req[x].drop
     IN IF p = Nobody THEN Pass(x)
        ELSE /\ PlayerRowFree(x, p)
             /\ IF OwnerSeen(x, p) = req[x].roster
                THEN /\ ow' = [ow EXCEPT ![x][p] = Nobody]
                     /\ todo' = [todo EXCEPT ![x] = Tail(@)]
                     /\ UNCHANGED <<status, owner, votes, req, sw, pv>>
                ELSE IF req[x].kind = "waiver" THEN Pass(x) ELSE RollBack(x)

\* The claimed player joins the roster, or the claim is refused.
Add(x) ==
  /\ At(x, "add")
  /\ IF OwnerSeen(x, req[x].add) = Nobody /\ SizeSeen(x, req[x].roster) < MaxSize
     THEN /\ ow' = [ow EXCEPT ![x][req[x].add] = req[x].roster]
          /\ todo' = [todo EXCEPT ![x] = Tail(@)]
          /\ UNCHANGED <<status, owner, votes, req, sw, pv>>
     ELSE Continue(x, <<"commit">>)

\* The active trades that contain the claimed or the dropped player expire.
Invalidate(x) ==
  /\ At(x, "invalidate")
  /\ LET hit == ActiveWith(x, req[x].add) \cup ActiveWith(x, req[x].drop)
     IN /\ \A t \in hit : TradeRowFree(x, t)
        /\ sw' = [sw EXCEPT ![x] = [t \in Trade |-> IF t \in hit THEN "expired" ELSE @[t]]]
  /\ todo' = [todo EXCEPT ![x] = Tail(@)]
  /\ UNCHANGED <<status, owner, votes, req, ow, pv>>

Commit(x) ==
  /\ At(x, "commit")
  /\ status' = [t \in Trade |-> StatusSeen(x, t)]
  /\ owner' = [p \in Player |-> OwnerSeen(x, p)]
  /\ votes' = IF pv[x] = {} THEN votes ELSE [votes EXCEPT ![req[x].trade] = @ \cup pv[x]]
  /\ Finish(x)

\* A timeout, a lost connection or a crash of the process.
Abort(x) == req[x] # <<>> /\ RollBack(x)

\* The expiration job looks for a status no trade is ever in.
Expire_Faulty(t) ==
  /\ status[t] = "accepted"
  /\ status' = [status EXCEPT ![t] = "expired"]
  /\ UNCHANGED <<owner, votes, req, todo, sw, ow, pv>>

\* The expiration job: a conditional UPDATE in a transaction of its own.
Expire(t) ==
  /\ status[t] = "pending"
  /\ \A y \in Tx : sw[y][t] = "same"
  /\ status' = [status EXCEPT ![t] = "expired"]
  /\ UNCHANGED <<owner, votes, req, todo, sw, ow, pv>>

\* The next statement of a transaction.
Step(x) ==
  \/ Lock(x) \/ Recheck(x) \/ CheckItems(x) \/ CheckSizes(x) \/ CheckFits(x)
  \/ Move(x) \/ Update(x)
  \/ Validate(x) \/ InsertTrade(x) \/ ReadBack(x)
  \/ CastVote(x) \/ CountVetoes(x)
  \/ Drop(x) \/ Add(x) \/ Invalidate(x)
  \/ Commit(x)

Next ==
  \/ \E x \in Tx : Step(x) \/ Abort(x) \/ \E o \in Requests : Begin(x, o)
  \/ \E t \in Trade : Expire(t)

Spec == Init /\ [][Next]_vars

\* Statements finish; the expiration job ticks for ever and PostgreSQL queues
\* its UPDATE behind the transaction that has the trade locked.
FairSpec ==
  /\ Spec
  /\ \A x \in Tx : WF_vars(Step(x))
  /\ \A t \in Trade : SF_vars(Expire(t))

-----------------------------------------------------------------------------
(* Properties                                                              *)

Phase ==
  [t \in Trade |-> CASE status[t] = "none" -> "absent"
                     [] status[t] \in Active -> "open"
                     [] status[t] = "completed" -> "executed"
                     [] OTHER -> "dead"]

Contract == INSTANCE TradeContract WITH phase <- Phase

\* The whole machinery implements TradeContract: the unconditional updates
\* of reject and cancel and the writers outside the TRADE lock included, no
\* trade is executed twice, executed in part, executed when dead or revived.
KeepsContract == Contract!Spec

\* A trade the league has vetoed is never executed, although ballots, the
\* waiver run and the review job race for it.
VetoStops ==
  \A t \in Trade :
    Cardinality({v \in votes[t] : v[2] = "veto"}) >= VetoThreshold => status[t] # "completed"

\* No proposal stays pending for ever: it is answered, invalidated or expires.
PendingEnds == \A t \in Trade : status[t] = "pending" ~> status[t] # "pending"

\* The players of a trade change hands only when the trade is completed.
MovesOnlyWhenCompleted ==
  [][\A x \in Tx :
       Commit(x) /\ req[x].kind \in {"accept", "review"} /\ owner' # owner
         => status'[req[x].trade] = "completed"]_vars

\* A proposal that has been written is found when it is read back.
ProposalReadBack ==
  \A x \in Tx : At(x, "details") /\ req[x].kind = "propose" => status[req[x].trade] # "none"
=============================================================================
