------------------------ MODULE TradeLifecycleProofs ------------------------
(***************************************************************************)
(* The life of trades, for every number of trades, transactions, voters    *)
(* and players: use cases, jobs and waiver runs together implement         *)
(* TradeContract, and a trade that the league has vetoed is not executed.  *)
(***************************************************************************)
EXTENDS TradeLifecycle, FiniteSetTheorems, TLAPS

\* What a request of each kind may still have to run.  A proposal never gets
\* past reading its trade back, because no other connection sees it.
Rest(o) ==
  CASE o.kind = "propose" ->
         {<<"lock", "validate", "insert", "details", "commit">>,
          <<"validate", "insert", "details", "commit">>,
          <<"insert", "details", "commit">>, <<"details", "commit">>}
    [] o.kind = "counter" ->
         {<<"lock", "recheck", "countered", "validate", "insert", "details", "commit">>,
          <<"recheck", "countered", "validate", "insert", "details", "commit">>,
          <<"countered", "validate", "insert", "details", "commit">>,
          <<"validate", "insert", "details", "commit">>,
          <<"insert", "details", "commit">>, <<"details", "commit">>}
    [] o.kind = "accept" /\ o.reviewed ->
         {<<"lock", "recheck", "items", "in_review", "commit">>,
          <<"recheck", "items", "in_review", "commit">>,
          <<"items", "in_review", "commit">>, <<"in_review", "commit">>, <<"commit">>}
    [] o.kind = "accept" /\ ~o.reviewed ->
         {<<"lock", "recheck", "items", "fits", "move", "completed", "commit">>,
          <<"recheck", "items", "fits", "move", "completed", "commit">>,
          <<"items", "fits", "move", "completed", "commit">>,
          <<"fits", "move", "completed", "commit">>,
          <<"move", "completed", "commit">>, <<"completed", "commit">>, <<"commit">>}
    [] o.kind = "reject" ->
         {<<"lock", "recheck", "rejected", "commit">>, <<"recheck", "rejected", "commit">>,
          <<"rejected", "commit">>, <<"commit">>}
    [] o.kind \in {"cancel", "adminCancel"} ->
         {<<"lock", "recheck", "cancelled", "commit">>, <<"recheck", "cancelled", "commit">>,
          <<"cancelled", "commit">>, <<"commit">>}
    [] o.kind = "vote" ->
         {<<"lock", "recheck", "cast", "vetoed", "commit">>,
          <<"recheck", "cast", "vetoed", "commit">>,
          <<"cast", "vetoed", "commit">>, <<"vetoed", "commit">>, <<"commit">>}
    [] o.kind = "review" ->
         {<<"lock", "count", "recheck", "sizes", "items", "fits", "move", "completed",
            "commit">>,
          <<"count", "recheck", "sizes", "items", "fits", "move", "completed", "commit">>,
          <<"recheck", "sizes", "items", "fits", "move", "completed", "commit">>,
          <<"sizes", "items", "fits", "move", "completed", "commit">>,
          <<"items", "fits", "move", "completed", "commit">>,
          <<"fits", "move", "completed", "commit">>,
          <<"move", "completed", "commit">>, <<"completed", "commit">>,
          <<"vetoed", "commit">>, <<"failed", "commit">>, <<"commit">>}
    [] o.kind = "drop" ->
         {<<"lock", "drop", "commit">>, <<"drop", "commit">>, <<"commit">>}
    [] o.kind = "waiver" ->
         {<<"lock", "drop", "add", "invalidate", "commit">>,
          <<"drop", "add", "invalidate", "commit">>,
          <<"add", "invalidate", "commit">>, <<"invalidate", "commit">>, <<"commit">>}

Idle(x) ==
  /\ req[x] = <<>> /\ todo[x] = <<>>
  /\ sw[x] = NoStatusWrites /\ ow[x] = NoOwnerWrites /\ pv[x] = {}
Running(x) == req[x] \in Requests /\ req[x] # <<>> /\ todo[x] \in Rest(req[x])
\* It has its advisory locks.
Locked(x) == Running(x) /\ todo[x] # Plan(req[x])

Dead == {"rejected", "cancelled", "countered", "expired", "vetoed", "failed"}
Creates(o) == o.kind \in {"propose", "counter"}
Executes(o) == o.kind \in {"accept", "review"}
OnTrade(o) == o.kind \notin {"waiver", "drop"}
\* The uncommitted rows of an executed trade.
Handover(t) ==
  [p \in Player |-> IF p \in PlayersIn(t)
                    THEN (CHOOSE i \in Items[t] : i.player = p).to ELSE "same"]

-----------------------------------------------------------------------------
(* The invariant: of the transactions together, and of each one.           *)

Domains == todo = [x \in Tx |-> todo[x]]
Stages == \A x \in Tx : Idle(x) \/ Running(x)
Exclusive ==
  \A x, y \in Tx : x # y /\ Locked(x) /\ Locked(y)
    => LocksOf(req[x]) \cap LocksOf(req[y]) = {}
\* A row that one transaction has written waits for its end.
RowsApart(x, y) ==
  /\ \A t \in Trade : sw[x][t] = "same" \/ sw[y][t] = "same"
  /\ \A p \in Player : ow[x][p] = "same" \/ ow[y][p] = "same"
RowLocks == \A x, y \in Tx : x # y => RowsApart(x, y)

Fresh(x) == Running(x) /\ todo[x] = Plan(req[x]) => ow[x] = NoOwnerWrites
\* The trade of a request exists; the one it creates does not.
Existence(x) ==
  Running(x) =>
    /\ OnTrade(req[x]) /\ req[x].kind # "propose" => status[req[x].trade] # "none"
    /\ Creates(req[x]) => status[New(req[x])] = "none"
\* An unconditional answer was decided on under the TRADE lock.
Answer(x) ==
  Running(x) /\ req[x].kind \in {"reject", "cancel", "adminCancel"}
    /\ todo[x] \in {<<"rejected", "commit">>, <<"cancelled", "commit">>}
    => status[req[x].trade] # "completed"
\* What a transaction has written of a trade follows from its committed status.
Justified(x) ==
  \A t \in Trade :
    \/ sw[x][t] = "same"
    \/ /\ sw[x][t] = "completed" /\ status[t] \in Active
       /\ Running(x) /\ Executes(req[x]) /\ t = req[x].trade
    \/ sw[x][t] = "in_review" /\ status[t] = "pending"
    \/ sw[x][t] = "pending" /\ status[t] = "none" /\ Running(x) /\ Creates(req[x])
    \/ sw[x][t] \in Dead /\ status[t] \notin {"none", "completed"}
OwnTrade(x) ==
  Running(x) /\ OnTrade(req[x]) /\ ~Creates(req[x]) =>
    \A t \in Trade \ {req[x].trade} : sw[x][t] = "same"
\* A trade is completed with all its players moved, and not before.
Moves(x) ==
  Running(x) /\ Executes(req[x]) =>
    /\ \/ todo[x] = <<"completed", "commit">> \/ sw[x][req[x].trade] = "completed"
       => /\ ow[x] = Handover(req[x].trade)
          /\ \A i \in Items[req[x].trade] : owner[i.player] = i.from
    /\ todo[x] \notin {<<"completed", "commit">>, <<"commit">>} => ow[x] = NoOwnerWrites
\* Only a waiver claim writes the row of a free agent.
Owned(x) ==
  \A p \in Player :
    Running(x) /\ req[x].kind # "waiver" /\ ow[x][p] # "same" => owner[p] # Nobody
\* A ballot that decides the vote is committed with the veto.
Ballot(x) ==
  Running(x) =>
    /\ req[x].kind # "vote" => pv[x] = {}
    /\ req[x].kind = "vote" /\ pv[x] # {} =>
         \/ todo[x] = <<"vetoed", "commit">>
         \/ /\ todo[x] = <<"commit">>
            /\ \/ ~(Vetoes(votes[req[x].trade] \cup pv[x]) >= VetoThreshold)
               \/ sw[x][req[x].trade] = "vetoed"

Sound(x) ==
  /\ Fresh(x) /\ Existence(x) /\ Answer(x) /\ Justified(x) /\ OwnTrade(x)
  /\ Moves(x) /\ Owned(x) /\ Ballot(x)

Decided == \A t \in Trade : Vetoes(votes[t]) >= VetoThreshold => status[t] \in Dead

IInv ==
  /\ TypeOK /\ Domains /\ Stages /\ Exclusive /\ RowLocks /\ Decided
  /\ \A x \in Tx : Sound(x)

-----------------------------------------------------------------------------
(* Statements and locks                                                    *)

\* What follows each statement.
LEMMA TailTable ==
  /\ Head(<<"details", "commit">>) = "details"
  /\ Tail(<<"lock", "validate", "insert", "details", "commit">>)
       = <<"validate", "insert", "details", "commit">>
  /\ Tail(<<"validate", "insert", "details", "commit">>)
       = <<"insert", "details", "commit">>
  /\ Tail(<<"insert", "details", "commit">>) = <<"details", "commit">>
  /\ Tail(<<"details", "commit">>) = <<"commit">>
  /\ Tail(<<"lock", "recheck", "countered", "validate", "insert", "details", "commit">>)
       = <<"recheck", "countered", "validate", "insert", "details", "commit">>
  /\ Tail(<<"recheck", "countered", "validate", "insert", "details", "commit">>)
       = <<"countered", "validate", "insert", "details", "commit">>
  /\ Tail(<<"countered", "validate", "insert", "details", "commit">>)
       = <<"validate", "insert", "details", "commit">>
  /\ Tail(<<"lock", "recheck", "items", "in_review", "commit">>)
       = <<"recheck", "items", "in_review", "commit">>
  /\ Tail(<<"recheck", "items", "in_review", "commit">>)
       = <<"items", "in_review", "commit">>
  /\ Tail(<<"items", "in_review", "commit">>) = <<"in_review", "commit">>
  /\ Tail(<<"in_review", "commit">>) = <<"commit">>
  /\ Tail(<<"lock", "recheck", "items", "fits", "move", "completed", "commit">>)
       = <<"recheck", "items", "fits", "move", "completed", "commit">>
  /\ Tail(<<"recheck", "items", "fits", "move", "completed", "commit">>)
       = <<"items", "fits", "move", "completed", "commit">>
  /\ Tail(<<"items", "fits", "move", "completed", "commit">>)
       = <<"fits", "move", "completed", "commit">>
  /\ Tail(<<"fits", "move", "completed", "commit">>) = <<"move", "completed", "commit">>
  /\ Tail(<<"move", "completed", "commit">>) = <<"completed", "commit">>
  /\ Tail(<<"completed", "commit">>) = <<"commit">>
  /\ Tail(<<"lock", "recheck", "rejected", "commit">>)
       = <<"recheck", "rejected", "commit">>
  /\ Tail(<<"recheck", "rejected", "commit">>) = <<"rejected", "commit">>
  /\ Tail(<<"rejected", "commit">>) = <<"commit">>
  /\ Tail(<<"lock", "recheck", "cancelled", "commit">>)
       = <<"recheck", "cancelled", "commit">>
  /\ Tail(<<"recheck", "cancelled", "commit">>) = <<"cancelled", "commit">>
  /\ Tail(<<"cancelled", "commit">>) = <<"commit">>
  /\ Tail(<<"lock", "recheck", "cast", "vetoed", "commit">>)
       = <<"recheck", "cast", "vetoed", "commit">>
  /\ Tail(<<"recheck", "cast", "vetoed", "commit">>) = <<"cast", "vetoed", "commit">>
  /\ Tail(<<"cast", "vetoed", "commit">>) = <<"vetoed", "commit">>
  /\ Tail(<<"vetoed", "commit">>) = <<"commit">>
  /\ Tail(<<"lock", "count", "recheck", "sizes", "items", "fits", "move", "completed", "commit">>)
       = <<"count", "recheck", "sizes", "items", "fits", "move", "completed", "commit">>
  /\ Tail(<<"count", "recheck", "sizes", "items", "fits", "move", "completed", "commit">>)
       = <<"recheck", "sizes", "items", "fits", "move", "completed", "commit">>
  /\ Tail(<<"recheck", "sizes", "items", "fits", "move", "completed", "commit">>)
       = <<"sizes", "items", "fits", "move", "completed", "commit">>
  /\ Tail(<<"sizes", "items", "fits", "move", "completed", "commit">>)
       = <<"items", "fits", "move", "completed", "commit">>
  /\ Tail(<<"failed", "commit">>) = <<"commit">>
  /\ Tail(<<"lock", "drop", "commit">>) = <<"drop", "commit">>
  /\ Tail(<<"drop", "commit">>) = <<"commit">>
  /\ Tail(<<"lock", "drop", "add", "invalidate", "commit">>)
       = <<"drop", "add", "invalidate", "commit">>
  /\ Tail(<<"drop", "add", "invalidate", "commit">>) = <<"add", "invalidate", "commit">>
  /\ Tail(<<"add", "invalidate", "commit">>) = <<"invalidate", "commit">>
  /\ Tail(<<"invalidate", "commit">>) = <<"commit">>
OBVIOUS

\* Each statement leads to one the request may still have to run; it moves
\* players before it completes the trade, and checks before it answers.
LEMMA TailOfRest ==
  ASSUME NEW o \in Request, NEW s \in Rest(o), s # <<"commit">>, Head(s) # "details"
  PROVE  /\ Tail(s) \in Rest(o) /\ Tail(s) # Plan(o)
         /\ Tail(s) = <<"completed", "commit">> => Head(s) = "move"
         /\ Tail(s) \in {<<"rejected", "commit">>, <<"cancelled", "commit">>}
              => Head(s) = "recheck"
         /\ s = <<"completed", "commit">> => Tail(s) = <<"commit">>
         /\ s # <<>> /\ Head(s) # "commit"
<1>1. CASE o.kind = "propose"
  <2>1. \/ /\ s = <<"lock", "validate", "insert", "details", "commit">>
           /\ Tail(s) = <<"validate", "insert", "details", "commit">>
        \/ /\ s = <<"validate", "insert", "details", "commit">>
           /\ Tail(s) = <<"insert", "details", "commit">>
        \/ s = <<"insert", "details", "commit">> /\ Tail(s) = <<"details", "commit">>
    BY <1>1, TailTable DEF Rest
  <2>2. Tail(s) \in Rest(o)
    BY <1>1, <2>1 DEF Rest
  <2>3. Tail(s) # Plan(o)
    BY <1>1, <2>1 DEF Plan
  <2>. QED BY <2>1, <2>2, <2>3
<1>2. CASE o.kind = "counter"
  <2>1. \/ /\ s = <<"lock", "recheck", "countered", "validate", "insert", "details", "commit">>
           /\ Tail(s) = <<"recheck", "countered", "validate", "insert", "details", "commit">>
        \/ /\ s = <<"recheck", "countered", "validate", "insert", "details", "commit">>
           /\ Tail(s) = <<"countered", "validate", "insert", "details", "commit">>
        \/ /\ s = <<"countered", "validate", "insert", "details", "commit">>
           /\ Tail(s) = <<"validate", "insert", "details", "commit">>
        \/ /\ s = <<"validate", "insert", "details", "commit">>
           /\ Tail(s) = <<"insert", "details", "commit">>
        \/ s = <<"insert", "details", "commit">> /\ Tail(s) = <<"details", "commit">>
    BY <1>2, TailTable DEF Rest
  <2>2. Tail(s) \in Rest(o)
    BY <1>2, <2>1 DEF Rest
  <2>3. Tail(s) # Plan(o)
    BY <1>2, <2>1 DEF Plan
  <2>. QED BY <2>1, <2>2, <2>3
<1>3. CASE o.kind = "accept" /\ o.reviewed
  <2>1. \/ /\ s = <<"lock", "recheck", "items", "in_review", "commit">>
           /\ Tail(s) = <<"recheck", "items", "in_review", "commit">>
        \/ /\ s = <<"recheck", "items", "in_review", "commit">>
           /\ Tail(s) = <<"items", "in_review", "commit">>
        \/ /\ s = <<"items", "in_review", "commit">>
           /\ Tail(s) = <<"in_review", "commit">>
        \/ s = <<"in_review", "commit">> /\ Tail(s) = <<"commit">>
    BY <1>3, TailTable DEF Rest
  <2>2. Tail(s) \in Rest(o)
    BY <1>3, <2>1 DEF Rest
  <2>3. Tail(s) # Plan(o)
    BY <1>3, <2>1 DEF Plan
  <2>. QED BY <2>1, <2>2, <2>3
<1>4. CASE o.kind = "accept" /\ ~o.reviewed
  <2>1. \/ /\ s = <<"lock", "recheck", "items", "fits", "move", "completed", "commit">>
           /\ Tail(s) = <<"recheck", "items", "fits", "move", "completed", "commit">>
        \/ /\ s = <<"recheck", "items", "fits", "move", "completed", "commit">>
           /\ Tail(s) = <<"items", "fits", "move", "completed", "commit">>
        \/ /\ s = <<"items", "fits", "move", "completed", "commit">>
           /\ Tail(s) = <<"fits", "move", "completed", "commit">>
        \/ /\ s = <<"fits", "move", "completed", "commit">>
           /\ Tail(s) = <<"move", "completed", "commit">>
        \/ /\ s = <<"move", "completed", "commit">>
           /\ Tail(s) = <<"completed", "commit">>
        \/ s = <<"completed", "commit">> /\ Tail(s) = <<"commit">>
    BY <1>4, TailTable DEF Rest
  <2>2. Tail(s) \in Rest(o)
    BY <1>4, <2>1 DEF Rest
  <2>3. Tail(s) # Plan(o)
    BY <1>4, <2>1 DEF Plan
  <2>. QED BY <2>1, <2>2, <2>3
<1>5. CASE o.kind = "reject"
  <2>1. \/ /\ s = <<"lock", "recheck", "rejected", "commit">>
           /\ Tail(s) = <<"recheck", "rejected", "commit">>
        \/ /\ s = <<"recheck", "rejected", "commit">>
           /\ Tail(s) = <<"rejected", "commit">>
        \/ s = <<"rejected", "commit">> /\ Tail(s) = <<"commit">>
    BY <1>5, TailTable DEF Rest
  <2>2. Tail(s) \in Rest(o)
    BY <1>5, <2>1 DEF Rest
  <2>3. Tail(s) # Plan(o)
    BY <1>5, <2>1 DEF Plan
  <2>. QED BY <2>1, <2>2, <2>3
<1>6. CASE o.kind \in {"cancel", "adminCancel"}
  <2>1. \/ /\ s = <<"lock", "recheck", "cancelled", "commit">>
           /\ Tail(s) = <<"recheck", "cancelled", "commit">>
        \/ /\ s = <<"recheck", "cancelled", "commit">>
           /\ Tail(s) = <<"cancelled", "commit">>
        \/ s = <<"cancelled", "commit">> /\ Tail(s) = <<"commit">>
    BY <1>6, TailTable DEF Rest
  <2>2. Tail(s) \in Rest(o)
    BY <1>6, <2>1 DEF Rest
  <2>3. Tail(s) # Plan(o)
    BY <1>6, <2>1 DEF Plan
  <2>. QED BY <2>1, <2>2, <2>3
<1>7. CASE o.kind = "vote"
  <2>1. \/ /\ s = <<"lock", "recheck", "cast", "vetoed", "commit">>
           /\ Tail(s) = <<"recheck", "cast", "vetoed", "commit">>
        \/ /\ s = <<"recheck", "cast", "vetoed", "commit">>
           /\ Tail(s) = <<"cast", "vetoed", "commit">>
        \/ s = <<"cast", "vetoed", "commit">> /\ Tail(s) = <<"vetoed", "commit">>
        \/ s = <<"vetoed", "commit">> /\ Tail(s) = <<"commit">>
    BY <1>7, TailTable DEF Rest
  <2>2. Tail(s) \in Rest(o)
    BY <1>7, <2>1 DEF Rest
  <2>3. Tail(s) # Plan(o)
    BY <1>7, <2>1 DEF Plan
  <2>. QED BY <2>1, <2>2, <2>3
<1>8. CASE o.kind = "review"
  <2>1. \/ /\ s = <<"lock", "count", "recheck", "sizes", "items", "fits", "move", "completed", "commit">>
           /\ Tail(s) = <<"count", "recheck", "sizes", "items", "fits", "move", "completed", "commit">>
        \/ /\ s = <<"count", "recheck", "sizes", "items", "fits", "move", "completed", "commit">>
           /\ Tail(s) = <<"recheck", "sizes", "items", "fits", "move", "completed", "commit">>
        \/ /\ s = <<"recheck", "sizes", "items", "fits", "move", "completed", "commit">>
           /\ Tail(s) = <<"sizes", "items", "fits", "move", "completed", "commit">>
        \/ /\ s = <<"sizes", "items", "fits", "move", "completed", "commit">>
           /\ Tail(s) = <<"items", "fits", "move", "completed", "commit">>
        \/ /\ s = <<"items", "fits", "move", "completed", "commit">>
           /\ Tail(s) = <<"fits", "move", "completed", "commit">>
        \/ /\ s = <<"fits", "move", "completed", "commit">>
           /\ Tail(s) = <<"move", "completed", "commit">>
        \/ /\ s = <<"move", "completed", "commit">>
           /\ Tail(s) = <<"completed", "commit">>
        \/ s = <<"completed", "commit">> /\ Tail(s) = <<"commit">>
        \/ s = <<"failed", "commit">> /\ Tail(s) = <<"commit">>
        \/ s = <<"vetoed", "commit">> /\ Tail(s) = <<"commit">>
    BY <1>8, TailTable DEF Rest
  <2>2. Tail(s) \in Rest(o)
    BY <1>8, <2>1 DEF Rest
  <2>3. Tail(s) # Plan(o)
    BY <1>8, <2>1 DEF Plan
  <2>. QED BY <2>1, <2>2, <2>3
<1>9. CASE o.kind = "drop"
  <2>1. \/ s = <<"lock", "drop", "commit">> /\ Tail(s) = <<"drop", "commit">>
        \/ s = <<"drop", "commit">> /\ Tail(s) = <<"commit">>
    BY <1>9, TailTable DEF Rest
  <2>2. Tail(s) \in Rest(o)
    BY <1>9, <2>1 DEF Rest
  <2>3. Tail(s) # Plan(o)
    BY <1>9, <2>1 DEF Plan
  <2>. QED BY <2>1, <2>2, <2>3
<1>10. CASE o.kind = "waiver"
  <2>1. \/ /\ s = <<"lock", "drop", "add", "invalidate", "commit">>
           /\ Tail(s) = <<"drop", "add", "invalidate", "commit">>
        \/ /\ s = <<"drop", "add", "invalidate", "commit">>
           /\ Tail(s) = <<"add", "invalidate", "commit">>
        \/ /\ s = <<"add", "invalidate", "commit">>
           /\ Tail(s) = <<"invalidate", "commit">>
        \/ s = <<"invalidate", "commit">> /\ Tail(s) = <<"commit">>
    BY <1>10, TailTable DEF Rest
  <2>2. Tail(s) \in Rest(o)
    BY <1>10, <2>1 DEF Rest
  <2>3. Tail(s) # Plan(o)
    BY <1>10, <2>1 DEF Plan
  <2>. QED BY <2>1, <2>2, <2>3
<1>. QED BY <1>1, <1>2, <1>3, <1>4, <1>5, <1>6, <1>7, <1>8, <1>9, <1>10 DEF Request

\* A request that has left its first statement has its locks, and only then.
LEMMA LockedHasNoLock ==
  ASSUME NEW o \in Request, NEW s \in Rest(o)
  PROVE  s # Plan(o) <=> \A i \in DOMAIN s : s[i] # "lock"
<1>1. CASE o.kind = "propose"
  BY <1>1 DEF Rest, Plan
<1>2. CASE o.kind = "counter"
  BY <1>2 DEF Rest, Plan
<1>3. CASE o.kind = "accept" /\ o.reviewed
  BY <1>3 DEF Rest, Plan
<1>4. CASE o.kind = "accept" /\ ~o.reviewed
  BY <1>4 DEF Rest, Plan
<1>5. CASE o.kind = "reject"
  BY <1>5 DEF Rest, Plan
<1>6. CASE o.kind \in {"cancel", "adminCancel"}
  BY <1>6 DEF Rest, Plan
<1>7. CASE o.kind = "vote"
  BY <1>7 DEF Rest, Plan
<1>8. CASE o.kind = "review"
  BY <1>8 DEF Rest, Plan
<1>9. CASE o.kind = "drop"
  BY <1>9 DEF Rest, Plan
<1>10. CASE o.kind = "waiver"
  BY <1>10 DEF Rest, Plan
<1>. QED BY <1>1, <1>2, <1>3, <1>4, <1>5, <1>6, <1>7, <1>8, <1>9, <1>10 DEF Request

LEMMA PlanIsRest ==
  ASSUME NEW o \in Request
  PROVE  Plan(o) \in Rest(o) /\ Head(Plan(o)) = "lock" /\ Plan(o) # <<>> /\ o # <<>>
<1>1. o # <<>>
  BY DEF Request
<1>2. Plan(o) \in Rest(o)
  <2>1. CASE o.kind = "accept"
    BY <2>1 DEF Request, Plan, Rest
  <2>2. CASE o.kind # "accept"
    BY <2>2 DEF Request, Plan, Rest
  <2>. QED BY <2>1, <2>2
<1>3. Head(Plan(o)) = "lock" /\ Plan(o) # <<>>
  <2>1. CASE o.kind = "accept"
    BY <2>1 DEF Plan
  <2>2. CASE o.kind \in {"cancel", "adminCancel"}
    BY <2>2 DEF Plan
  <2>3. CASE o.kind = "propose"
    BY <2>3 DEF Plan
  <2>4. CASE o.kind = "counter"
    BY <2>4 DEF Plan
  <2>5. CASE o.kind = "reject"
    BY <2>5 DEF Plan
  <2>6. CASE o.kind = "vote"
    BY <2>6 DEF Plan
  <2>7. CASE o.kind = "review"
    BY <2>7 DEF Plan
  <2>8. CASE o.kind = "drop"
    BY <2>8 DEF Plan
  <2>9. CASE o.kind = "waiver"
    BY <2>9 DEF Plan
  <2>. QED BY <2>1, <2>2, <2>3, <2>4, <2>5, <2>6, <2>7, <2>8, <2>9 DEF Request
<1>. QED BY <1>1, <1>2, <1>3

\* Which requests run a statement, and what follows it.
LEMMA StatementCases ==
  ASSUME NEW o \in Request, NEW s \in Rest(o)
  PROVE  /\ Head(s) = "cast" => o.kind = "vote" /\ s = <<"cast", "vetoed", "commit">>
         /\ Head(s) = "move" => Executes(o) /\ s = <<"move", "completed", "commit">>
         /\ Head(s) \in {"count", "sizes"} => o.kind = "review"
         /\ Head(s) \in {"insert", "details"} => Creates(o)
         /\ Head(s) = "drop" => o.kind \in {"drop", "waiver"}
         /\ Head(s) \in {"add", "invalidate"} => o.kind = "waiver"
         /\ Head(s) = "commit" => s = <<"commit">> /\ ~Creates(o)
         /\ Head(s) \in Status =>
              \/ o.kind = "counter" /\ Head(s) = "countered"
                   /\ Tail(s) = <<"validate", "insert", "details", "commit">>
              \/ o.kind = "accept" /\ s = <<"in_review", "commit">>
              \/ Executes(o) /\ s = <<"completed", "commit">>
              \/ o.kind = "reject" /\ s = <<"rejected", "commit">>
              \/ o.kind \in {"cancel", "adminCancel"} /\ s = <<"cancelled", "commit">>
              \/ o.kind \in {"vote", "review"} /\ s = <<"vetoed", "commit">>
              \/ o.kind = "review" /\ s = <<"failed", "commit">>
<1>1. CASE o.kind = "propose"
  BY <1>1, TailTable DEF Rest, Creates, Executes, Status
<1>2. CASE o.kind = "counter"
  <2>1. \/ Head(s) \in {"lock", "recheck", "validate", "insert", "details"}
        \/ s = <<"countered", "validate", "insert", "details", "commit">>
    BY <1>2 DEF Rest
  <2>2. Head(s) \in Status => /\ Head(s) = "countered"
                             /\ Tail(s) = <<"validate", "insert", "details", "commit">>
    <3>1. CASE s = <<"countered", "validate", "insert", "details", "commit">>
      BY <3>1, TailTable
    <3>2. CASE Head(s) \in {"lock", "recheck", "validate", "insert", "details"}
      BY <3>2 DEF Status
    <3>. QED BY <2>1, <3>1, <3>2
  <2>. QED BY <1>2, <2>1, <2>2 DEF Creates
<1>3. CASE o.kind = "accept" /\ o.reviewed
  BY <1>3, TailTable DEF Rest, Creates, Executes, Status
<1>4. CASE o.kind = "accept" /\ ~o.reviewed
  BY <1>4, TailTable DEF Rest, Creates, Executes, Status
<1>5. CASE o.kind = "reject"
  BY <1>5, TailTable DEF Rest, Creates, Executes, Status
<1>6. CASE o.kind \in {"cancel", "adminCancel"}
  BY <1>6, TailTable DEF Rest, Creates, Executes, Status
<1>7. CASE o.kind = "vote"
  BY <1>7, TailTable DEF Rest, Creates, Executes, Status
<1>8. CASE o.kind = "review"
  BY <1>8, TailTable DEF Rest, Creates, Executes, Status
<1>9. CASE o.kind = "drop"
  BY <1>9, TailTable DEF Rest, Creates, Executes, Status
<1>10. CASE o.kind = "waiver"
  BY <1>10, TailTable DEF Rest, Creates, Executes, Status
<1>. QED BY <1>1, <1>2, <1>3, <1>4, <1>5, <1>6, <1>7, <1>8, <1>9, <1>10 DEF Request

\* Use cases on trades exclude each other.
LEMMA TradeLockShared ==
  ASSUME NEW o \in Request, NEW p \in Request, OnTrade(o), OnTrade(p)
  PROVE  LocksOf(o) \cap LocksOf(p) # {}
<1>1. <<"TRADE">> \in LocksOf(o) /\ <<"TRADE">> \in LocksOf(p)
  BY DEF OnTrade, LocksOf
<1>. QED BY <1>1

LEMMA AtRuns ==
  ASSUME IInv, NEW x \in Tx, todo[x] # <<>>
  PROVE  Running(x) /\ req[x] \in Request /\ todo[x] \in Rest(req[x])
BY RequestsAssumption DEF IInv, Stages, Idle, Running

-----------------------------------------------------------------------------
(* What all steps have in common                                           *)

LEMMA IdleIsSound ==
  ASSUME NEW x \in Tx, Idle(x)
  PROVE  ~Running(x) /\ Sound(x)
<1>1. ~Running(x)
  BY DEF Idle, Running
<1>2. sw[x] = NoStatusWrites
  BY DEF Idle
<1>3. Justified(x)
  BY <1>2 DEF Justified, NoStatusWrites
<1>. QED
  BY <1>1, <1>3 DEF Sound, Fresh, Existence, Answer, OwnTrade, Moves, Owned, Ballot

\* Who sees no change stays as it is.
LEMMA SameIsSound ==
  ASSUME NEW x \in Tx, Sound(x), UNCHANGED <<status, owner, votes>>,
         UNCHANGED <<req[x], todo[x], sw[x], ow[x], pv[x]>>
  PROVE  Sound(x)'
<1>1. Running(x)' <=> Running(x)
  BY DEF Running
<1>2. Fresh(x)' /\ Existence(x)' /\ Answer(x)' /\ Owned(x)' /\ Moves(x)'
  BY <1>1 DEF Sound, Fresh, Existence, Answer, Owned, Moves
<1>3. Justified(x)' /\ OwnTrade(x)'
  BY <1>1 DEF Sound, Justified, OwnTrade
<1>4. Ballot(x)'
  BY <1>1 DEF Sound, Ballot
<1>. QED BY <1>2, <1>3, <1>4 DEF Sound

LEMMA InitInv == Init => IInv
<1>. SUFFICES ASSUME Init PROVE IInv
  OBVIOUS
<1>1. TypeOK
  <2>1. status \in [Trade -> Status]
    BY StartAssumption DEF Init, Status
  <2>2. owner \in [Player -> Roster \cup {Nobody}]
    BY StartAssumption DEF Init
  <2>. QED BY <2>1, <2>2 DEF Init, TypeOK, NoStatusWrites, NoOwnerWrites
<1>2. \A x \in Tx : Idle(x)
  BY DEF Init, Idle
<1>3. \A x \in Tx : ~Running(x) /\ Sound(x)
  BY <1>2, IdleIsSound
<1>4. Domains /\ Stages /\ Exclusive
  BY <1>2, <1>3 DEF Init, Domains, Stages, Exclusive, Locked
<1>5. RowLocks
  BY DEF Init, RowLocks, RowsApart, NoStatusWrites, NoOwnerWrites
<1>6. Decided
  <2>. SUFFICES ASSUME NEW t \in Trade PROVE ~(Vetoes(votes[t]) >= VetoThreshold)
    BY DEF Decided
  <2>1. votes[t] = {}
    BY DEF Init
  <2>2. {v \in {} : v[2] = "veto"} = {}
    OBVIOUS
  <2>3. Vetoes(votes[t]) = 0
    BY <2>1, <2>2, FS_EmptySet DEF Vetoes
  <2>. QED BY <2>3, ParameterAssumption
<1>. QED BY <1>1, <1>3, <1>4, <1>5, <1>6 DEF IInv

\* A transaction ends: the others keep what they had.
LEMMA FinishFrame ==
  ASSUME IInv, NEW x \in Tx, Finish(x)
  PROVE  /\ Idle(x)' /\ ~Running(x)'
         /\ \A y \in Tx : y # x => /\ UNCHANGED <<req[y], todo[y], sw[y], ow[y], pv[y]>>
                                   /\ Running(y)' <=> Running(y)
         /\ req' \in [Tx -> Requests \cup {<<>>}]
         /\ sw' \in [Tx -> [Trade -> Status \cup {"same"}]]
         /\ ow' \in [Tx -> [Player -> Roster \cup {Nobody, "same"}]]
         /\ pv' \in [Tx -> SUBSET (Voter \X {"approve", "veto"})]
         /\ Domains' /\ Stages' /\ Exclusive' /\ RowLocks'
<1>1. \A y \in Tx : y # x => UNCHANGED <<req[y], todo[y], sw[y], ow[y], pv[y]>>
  BY DEF IInv, TypeOK, Domains, Finish
<1>2. Idle(x)' /\ ~Running(x)'
  BY DEF IInv, TypeOK, Domains, Finish, Idle, Running, NoStatusWrites, NoOwnerWrites
<1>3. \A y \in Tx : y # x => /\ Running(y)' <=> Running(y)
                             /\ Idle(y)' <=> Idle(y)
                             /\ Locked(y)' <=> Locked(y)
  BY <1>1 DEF Running, Idle, Locked, NoStatusWrites, NoOwnerWrites
<1>4. /\ req' \in [Tx -> Requests \cup {<<>>}]
      /\ sw' \in [Tx -> [Trade -> Status \cup {"same"}]]
      /\ ow' \in [Tx -> [Player -> Roster \cup {Nobody, "same"}]]
      /\ pv' \in [Tx -> SUBSET (Voter \X {"approve", "veto"})]
  BY DEF IInv, TypeOK, Finish, NoStatusWrites, NoOwnerWrites
<1>5. Domains'
  BY DEF IInv, Domains, Finish
<1>6. Stages'
  BY <1>2, <1>3 DEF IInv, Stages
<1>7. Exclusive'
  BY <1>1, <1>2, <1>3 DEF IInv, Exclusive, Locked
<1>8. RowLocks'
  <2>1. sw'[x] = NoStatusWrites /\ ow'[x] = NoOwnerWrites
    BY DEF IInv, TypeOK, Finish
  <2>. QED BY <1>1, <2>1 DEF IInv, RowLocks, RowsApart, NoStatusWrites, NoOwnerWrites
<1>. QED BY <1>1, <1>2, <1>3, <1>4, <1>5, <1>6, <1>7, <1>8

LEMMA RollBackStep ==
  ASSUME IInv, NEW x \in Tx, RollBack(x)
  PROVE  IInv'
<1>1. Finish(x) /\ UNCHANGED <<status, owner, votes>>
  BY DEF RollBack
<1>2. \A y \in Tx : Sound(y)'
  <2>1. Sound(x)'
    <3>1. Idle(x)'
      BY <1>1, FinishFrame
    <3>2. Justified(x)'
      BY <3>1 DEF Idle, Justified, NoStatusWrites
    <3>. QED BY <1>1, <3>2, FinishFrame
         DEF Sound, Fresh, Existence, Answer, OwnTrade, Moves, Owned, Ballot
  <2>2. ASSUME NEW y \in Tx, y # x PROVE Sound(y)'
    BY <1>1, <2>2, FinishFrame, SameIsSound DEF IInv
  <2>. QED BY <2>1, <2>2
<1>3. TypeOK'
  BY <1>1, FinishFrame DEF IInv, TypeOK
<1>4. Decided'
  BY <1>1 DEF IInv, Decided
<1>. QED BY <1>1, <1>2, <1>3, <1>4, FinishFrame DEF IInv

\* A statement changes what its own transaction has written and what is left
\* of it; then only that transaction has to be looked at.
LEMMA StatementStep ==
  ASSUME IInv, NEW x \in Tx, Running(x), NEW s \in Rest(req[x]), s # Plan(req[x]),
         todo[x] = Plan(req[x]) =>
           \A y \in Tx : y # x /\ Locked(y) => LocksOf(req[x]) \cap LocksOf(req[y]) = {},
         todo' = [todo EXCEPT ![x] = s], UNCHANGED <<status, owner, votes, req>>,
         TypeOK',
         \A y \in Tx : y # x => /\ UNCHANGED <<sw[y], ow[y], pv[y]>>
                                /\ RowsApart(x, y)',
         Sound(x)'
  PROVE  IInv'
<1>1. /\ Domains' /\ todo'[x] = s
      /\ \A y \in Tx : y # x => UNCHANGED <<req[y], todo[y], sw[y], ow[y], pv[y]>>
  BY DEF IInv, Domains
<1>2. /\ Running(x)'
      /\ \A y \in Tx : y # x => /\ Running(y)' <=> Running(y)
                                /\ Idle(y)' <=> Idle(y)
                                /\ Locked(y)' <=> Locked(y)
  BY <1>1 DEF Running, Idle, Locked, NoStatusWrites, NoOwnerWrites
<1>3. Stages'
  BY <1>2 DEF IInv, Stages
<1>4. Exclusive'
  BY <1>1, <1>2 DEF IInv, Exclusive, Locked
<1>5. RowLocks'
  BY <1>1 DEF IInv, RowLocks, RowsApart
<1>6. Decided'
  BY DEF IInv, Decided
<1>7. \A y \in Tx : Sound(y)'
  BY <1>1, SameIsSound DEF IInv
<1>. QED BY <1>1, <1>3, <1>4, <1>5, <1>6, <1>7 DEF IInv

\* A check succeeds, or a statement turns out to have nothing to write.
LEMMA PassStep ==
  ASSUME IInv, NEW x \in Tx, Running(x), NEW s \in Rest(req[x]), s # Plan(req[x]),
         todo[x] = Plan(req[x]) =>
           \A y \in Tx : y # x /\ Locked(y) => LocksOf(req[x]) \cap LocksOf(req[y]) = {},
         Continue(x, s),
         s \in {<<"rejected", "commit">>, <<"cancelled", "commit">>}
           => status[req[x].trade] # "completed",
         s # <<"completed", "commit">>,
         todo[x] \in {<<"completed", "commit">>, <<"commit">>} => s = <<"commit">>,
         pv[x] = {}
  PROVE  IInv'
<1>1. /\ todo' = [todo EXCEPT ![x] = s]
      /\ UNCHANGED <<status, owner, votes, req, sw, ow, pv>>
  BY DEF Continue
<1>2. todo'[x] = s /\ Running(x)'
  BY <1>1 DEF IInv, Domains, Running
<1>3. Sound(x)'
  <2>1. Fresh(x)' /\ Existence(x)' /\ Answer(x)' /\ Owned(x)' /\ Ballot(x)'
    BY <1>1, <1>2 DEF IInv, Sound, Fresh, Existence, Answer, Owned, Ballot
  <2>2. Justified(x)' /\ OwnTrade(x)'
    BY <1>1, <1>2 DEF IInv, Sound, Justified, OwnTrade
  <2>3. Moves(x)'
    <3>1. Moves(x)
      BY DEF IInv, Sound
    <3>2. Handover(req[x].trade)' = Handover(req[x].trade)
      BY <1>1 DEF Handover, PlayersIn
    <3>3. NoOwnerWrites' = NoOwnerWrites
      BY DEF NoOwnerWrites
    <3>. QED BY <1>1, <1>2, <3>1, <3>2, <3>3 DEF Moves
  <2>. QED BY <2>1, <2>2, <2>3 DEF Sound
<1>4. TypeOK'
  BY <1>1 DEF IInv, TypeOK
<1>5. \A y \in Tx : y # x => RowsApart(x, y)'
  BY <1>1 DEF IInv, RowLocks, RowsApart
<1>. QED BY <1>1, <1>3, <1>4, <1>5, StatementStep

-----------------------------------------------------------------------------
(* Checks                                                                  *)

LEMMA BeginStep ==
  ASSUME IInv, NEW x \in Tx, NEW o \in Requests, Begin(x, o)
  PROVE  IInv'
<1>1. o \in Request /\ Plan(o) \in Rest(o) /\ o # <<>> /\ Plan(o) # <<>>
  BY RequestsAssumption, PlanIsRest
<1>2. /\ req' = [req EXCEPT ![x] = o] /\ todo' = [todo EXCEPT ![x] = Plan(o)]
      /\ UNCHANGED <<status, owner, votes, sw, ow, pv>> /\ req[x] = <<>>
  BY DEF Begin
<1>3. Idle(x) /\ ~Running(x)
  BY <1>2 DEF IInv, Stages, Running
<1>4. /\ req'[x] = o /\ todo'[x] = Plan(o)
      /\ \A y \in Tx : y # x => UNCHANGED <<req[y], todo[y], sw[y], ow[y], pv[y]>>
  BY <1>2 DEF IInv, TypeOK, Domains
<1>5. /\ Running(x)' /\ ~Locked(x)'
      /\ \A y \in Tx : y # x => /\ Running(y)' <=> Running(y)
                                /\ Idle(y)' <=> Idle(y)
                                /\ Locked(y)' <=> Locked(y)
  BY <1>1, <1>4 DEF Running, Idle, Locked, NoStatusWrites, NoOwnerWrites
<1>6. Domains' /\ Stages' /\ Exclusive'
  BY <1>2, <1>4, <1>5 DEF IInv, Domains, Stages, Exclusive
<1>7. RowLocks' /\ Decided'
  BY <1>2 DEF IInv, RowLocks, RowsApart, Decided
<1>8. TypeOK'
  BY <1>2 DEF IInv, TypeOK
<1>9. Sound(x)'
  <2>1. sw'[x] = NoStatusWrites /\ ow'[x] = NoOwnerWrites /\ pv'[x] = {}
    BY <1>2, <1>3 DEF Idle
  <2>2. Fresh(x)' /\ Owned(x)' /\ Ballot(x)'
    BY <1>4, <2>1 DEF Fresh, Owned, Ballot, NoOwnerWrites
  <2>3. o.trade \in Trade \/ ~OnTrade(o)
    BY <1>1 DEF Request, OnTrade
  <2>4. Justified(x)' /\ OwnTrade(x)'
    BY <2>1, <2>3, <1>4 DEF Justified, OwnTrade, NoStatusWrites
  <2>5. Existence(x)'
    <3>1. OnTrade(o) /\ o.kind # "propose" => status[o.trade] # "none"
      BY <1>1 DEF Begin, OnTrade, Request, Allowed, Active
    <3>2. Creates(o) => status[New(o)] = "none"
      BY DEF Begin, Creates, New
    <3>. QED BY <1>2, <1>4, <3>1, <3>2 DEF Existence
  <2>6. Head(todo'[x]) = "lock"
    BY <1>1, <1>4, PlanIsRest
  <2>7. Answer(x)'
    BY <2>6 DEF Answer
  <2>8. Moves(x)'
    <3>1. todo'[x] # <<"completed", "commit">>
      BY <2>6
    <3>2. Executes(o) => o.trade \in Trade
      BY <2>3 DEF Executes, OnTrade
    <3>3. Executes(o) => sw'[x][o.trade] # "completed"
      BY <2>1, <3>2 DEF NoStatusWrites
    <3>. QED BY <1>4, <2>1, <3>1, <3>3 DEF Moves, NoOwnerWrites
  <2>. QED BY <2>2, <2>4, <2>5, <2>7, <2>8 DEF Sound
<1>10. \A y \in Tx : Sound(y)'
  BY <1>2, <1>4, <1>9, SameIsSound DEF IInv
<1>. QED BY <1>6, <1>7, <1>8, <1>10 DEF IInv

\* Only a vote that has been cast is uncommitted.
LEMMA NoBallot ==
  ASSUME IInv, NEW x \in Tx, Running(x), Head(todo[x]) \notin {"vetoed", "commit"}
  PROVE  pv[x] = {}
<1>1. Ballot(x)
  BY DEF IInv, Sound
<1>2. todo[x] # <<"vetoed", "commit">> /\ todo[x] # <<"commit">>
  OBVIOUS
<1>. QED BY <1>1, <1>2 DEF Ballot

\* The next statement, whatever it is, when this one has nothing to write.
LEMMA PassHead ==
  ASSUME IInv, NEW x \in Tx, todo[x] # <<>>, Pass(x),
         Head(todo[x]) \notin {"details", "commit", "move"},
         Head(todo[x]) = "lock" =>
           \A y \in Tx : y # x /\ Locked(y) => LocksOf(req[x]) \cap LocksOf(req[y]) = {},
         Head(todo[x]) = "recheck" /\ req[x].kind \in {"reject", "cancel", "adminCancel"}
           => status[req[x].trade] # "completed",
         pv[x] = {}
  PROVE  IInv'
<1>1. Running(x) /\ req[x] \in Request /\ todo[x] \in Rest(req[x])
  BY AtRuns
<1>2. todo[x] # <<"commit">>
  OBVIOUS
<1>3. /\ Tail(todo[x]) \in Rest(req[x]) /\ Tail(todo[x]) # Plan(req[x])
      /\ Tail(todo[x]) # <<"completed", "commit">>
      /\ Tail(todo[x]) \in {<<"rejected", "commit">>, <<"cancelled", "commit">>}
           => Head(todo[x]) = "recheck"
      /\ todo[x] = <<"completed", "commit">> => Tail(todo[x]) = <<"commit">>
  BY <1>1, <1>2, TailOfRest
<1>4. todo[x] = Plan(req[x]) => Head(todo[x]) = "lock"
  BY <1>1, PlanIsRest
<1>5. Tail(todo[x]) \in {<<"rejected", "commit">>, <<"cancelled", "commit">>}
        => status[req[x].trade] # "completed"
  <2>. SUFFICES ASSUME Tail(todo[x]) \in {<<"rejected", "commit">>, <<"cancelled", "commit">>}
                PROVE  req[x].kind \in {"reject", "cancel", "adminCancel"}
    BY <1>3
  <2>. QED BY <1>1, <1>3 DEF Rest, Request
<1>6. Continue(x, Tail(todo[x]))
  BY DEF Pass
<1>. QED BY <1>1, <1>2, <1>3, <1>4, <1>5, <1>6, PassStep

LEMMA LockStep ==
  ASSUME IInv, NEW x \in Tx, Lock(x)
  PROVE  IInv'
<1>1. /\ todo[x] # <<>> /\ Head(todo[x]) = "lock" /\ Pass(x)
      /\ \A y \in Tx : /\ y # x /\ req[y] # <<>>
                       /\ \A i \in DOMAIN todo[y] : todo[y][i] # "lock"
                       => LocksOf(req[x]) \cap LocksOf(req[y]) = {}
  BY DEF Lock, At
<1>2. Running(x)
  BY <1>1, AtRuns
<1>3. ASSUME NEW y \in Tx, y # x, Locked(y)
      PROVE  LocksOf(req[x]) \cap LocksOf(req[y]) = {}
  <2>1. req[y] \in Request /\ req[y] # <<>> /\ todo[y] \in Rest(req[y])
    BY <1>3, RequestsAssumption DEF Locked, Running
  <2>2. \A i \in DOMAIN todo[y] : todo[y][i] # "lock"
    BY <1>3, <2>1, LockedHasNoLock DEF Locked
  <2>. QED BY <1>1, <1>3, <2>1, <2>2
<1>4. pv[x] = {}
  BY <1>1, <1>2, NoBallot
<1>. QED BY <1>1, <1>3, <1>4, PassHead

\* What a transaction sees in a status that allows its request is committed so.
LEMMA SeenAllowed ==
  ASSUME IInv, NEW x \in Tx, Running(x), OnTrade(req[x]), req[x].kind # "propose",
         StatusSeen(x, req[x].trade) \in Active
  PROVE  status[req[x].trade] \in Active
<1>1. req[x] \in Request
  BY RequestsAssumption DEF Running
<1>2. req[x].trade \in Trade
  BY <1>1 DEF Request, OnTrade
<1>3. Justified(x) /\ status[req[x].trade] # "none"
  BY DEF IInv, Sound, Existence
<1>. QED BY <1>2, <1>3 DEF Justified, StatusSeen, Active, Dead

LEMMA RecheckStep ==
  ASSUME IInv, NEW x \in Tx, Recheck(x)
  PROVE  IInv'
<1>1. todo[x] # <<>> /\ Head(todo[x]) = "recheck"
  BY DEF Recheck, At
<1>2. Running(x) /\ req[x] \in Request /\ pv[x] = {}
  BY <1>1, AtRuns, NoBallot
<1>3. CASE RollBack(x)
  BY <1>3, RollBackStep
<1>4. CASE Pass(x) /\ StatusSeen(x, req[x].trade) \in Allowed(req[x])
  <2>1. ASSUME req[x].kind \in {"reject", "cancel", "adminCancel"}
        PROVE  status[req[x].trade] # "completed"
    <3>1. StatusSeen(x, req[x].trade) \in Active
      BY <1>4, <2>1 DEF Allowed, Active
    <3>2. OnTrade(req[x]) /\ req[x].kind # "propose"
      BY <2>1 DEF OnTrade
    <3>3. status[req[x].trade] \in Active
      BY <1>2, <3>1, <3>2, SeenAllowed
    <3>. QED BY <3>3 DEF Active
  <2>. QED BY <1>1, <1>2, <1>4, <2>1, PassHead
<1>. QED BY <1>3, <1>4 DEF Recheck

LEMMA CheckStep ==
  ASSUME IInv, NEW x \in Tx,
         CheckItems(x) \/ CheckSizes(x) \/ CheckFits(x) \/ Validate(x) \/ CountVetoes(x)
  PROVE  IInv'
<1>1. todo[x] # <<>> /\ Head(todo[x]) \in {"items", "sizes", "fits", "validate", "count"}
  BY DEF CheckItems, CheckSizes, CheckFits, Validate, CountVetoes, At
<1>2. Running(x) /\ req[x] \in Request /\ todo[x] \in Rest(req[x]) /\ pv[x] = {}
  BY <1>1, AtRuns, NoBallot
<1>3. CASE RollBack(x)
  BY <1>3, RollBackStep
<1>4. CASE Pass(x)
  BY <1>1, <1>2, <1>4, PassHead
<1>5. ASSUME NEW s \in {<<"failed", "commit">>, <<"vetoed", "commit">>}, Continue(x, s),
             Head(todo[x]) \in {"sizes", "count"}
      PROVE  IInv'
  <2>1. req[x].kind = "review"
    BY <1>2, <1>5, StatementCases
  <2>2. s \in Rest(req[x])
    BY <1>5, <2>1 DEF Rest
  <2>3. s # Plan(req[x]) /\ todo[x] # Plan(req[x])
    BY <1>2, <1>5, PlanIsRest
  <2>4. todo[x] \notin {<<"completed", "commit">>, <<"commit">>}
    BY <1>5
  <2>. QED BY <1>2, <1>5, <2>2, <2>3, <2>4, PassStep
<1>. QED BY <1>3, <1>4, <1>5 DEF CheckItems, CheckSizes, CheckFits, Validate, CountVetoes, At

\* A proposal never finds itself on another connection.
LEMMA ReadBackStep ==
  ASSUME IInv, NEW x \in Tx, ReadBack(x)
  PROVE  IInv'
<1>1. todo[x] # <<>> /\ Head(todo[x]) = "details"
  BY DEF ReadBack, At
<1>2. Running(x) /\ Creates(req[x])
  BY <1>1, AtRuns, StatementCases
<1>3. status[New(req[x])] = "none"
  BY <1>2 DEF IInv, Sound, Existence
<1>. QED BY <1>3, RollBackStep DEF ReadBack

-----------------------------------------------------------------------------
(* Statements that write                                                   *)

\* The frame of a statement that is run by x and goes on with Tail.
LEMMA WriteFrame ==
  ASSUME IInv, NEW x \in Tx, todo[x] # <<>>,
         Head(todo[x]) \notin {"lock", "recheck", "details", "commit"},
         todo' = [todo EXCEPT ![x] = Tail(@)], req' = req
  PROVE  /\ Running(x) /\ req[x] \in Request /\ todo[x] \in Rest(req[x])
         /\ Tail(todo[x]) \in Rest(req[x]) /\ Tail(todo[x]) # Plan(req[x])
         /\ todo[x] # Plan(req[x])
         /\ todo'[x] = Tail(todo[x]) /\ Running(x)'
         /\ (Fresh(x) /\ Answer(x))'
<1>1. Running(x) /\ req[x] \in Request /\ todo[x] \in Rest(req[x])
  BY AtRuns
<1>2. todo[x] # <<"commit">>
  OBVIOUS
<1>3. /\ Tail(todo[x]) \in Rest(req[x]) /\ Tail(todo[x]) # Plan(req[x])
      /\ Tail(todo[x]) \notin {<<"rejected", "commit">>, <<"cancelled", "commit">>}
  BY <1>1, <1>2, TailOfRest
<1>4. todo[x] # Plan(req[x])
  BY <1>1, PlanIsRest
<1>5. todo'[x] = Tail(todo[x])
  BY DEF IInv, Domains
<1>6. Running(x)'
  BY <1>1, <1>3, <1>5 DEF Running
<1>7. Fresh(x)' /\ Answer(x)'
  BY <1>3, <1>5 DEF Fresh, Answer
<1>. QED BY <1>1, <1>3, <1>4, <1>5, <1>6, <1>7

\* executeTrade: all players of the trade at once, each from his giver.
LEMMA MoveStep ==
  ASSUME IInv, NEW x \in Tx, Move(x)
  PROVE  IInv'
<1>. DEFINE t == req[x].trade
<1>1. todo[x] # <<>> /\ Head(todo[x]) = "move"
  BY DEF Move, At
<1>2. CASE RollBack(x)
  BY <1>2, RollBackStep
<1>3. CASE /\ \A i \in Items[t] : PlayerRowFree(x, i.player)
           /\ \A i \in Items[t] : owner[i.player] = i.from
           /\ ow' = [ow EXCEPT ![x] = [p \in Player |->
                       IF p \in PlayersIn(t)
                       THEN (CHOOSE i \in Items[t] : i.player = p).to ELSE @[p]]]
           /\ todo' = [todo EXCEPT ![x] = Tail(@)]
           /\ UNCHANGED <<status, owner, votes, req, sw, pv>>
  <2>1. /\ Running(x) /\ req[x] \in Request /\ todo[x] \in Rest(req[x])
        /\ Tail(todo[x]) \in Rest(req[x]) /\ Tail(todo[x]) # Plan(req[x])
        /\ todo[x] # Plan(req[x])
        /\ todo'[x] = Tail(todo[x]) /\ Running(x)' /\ Fresh(x)' /\ Answer(x)'
    BY <1>1, <1>3, WriteFrame
  <2>2. Executes(req[x]) /\ todo[x] = <<"move", "completed", "commit">>
    BY <1>1, <2>1, StatementCases
  <2>3. todo'[x] = <<"completed", "commit">>
    BY <2>1, <2>2, TailTable
  <2>4. ow[x] = NoOwnerWrites
    BY <1>1, <2>1, <2>2 DEF IInv, Sound, Moves
  <2>5. t \in Trade
    BY <2>1, <2>2 DEF Request, Executes
  <2>6. ow'[x] = Handover(t) /\ \A y \in Tx : y # x => ow'[y] = ow[y]
    <3>1. \A p \in Player : ow[x][p] = "same"
      BY <2>4 DEF NoOwnerWrites
    <3>. QED BY <1>3, <3>1 DEF IInv, TypeOK, Handover
  <2>7. ASSUME NEW p \in Player, p \in PlayersIn(t)
        PROVE  /\ Handover(t)[p] \in Roster /\ owner[p] \in Roster
               /\ PlayerRowFree(x, p)
    <3>1. PICK i \in Items[t] : i.player = p
      BY <2>7 DEF PlayersIn
    <3>2. (CHOOSE j \in Items[t] : j.player = p) \in Items[t]
      BY <3>1
    <3>3. Items[t] \subseteq Item
      BY <2>5, ItemsAssumption
    <3>. QED BY <1>3, <2>7, <3>1, <3>2, <3>3 DEF Item, Handover
  <2>8. \A p \in Player : p \notin PlayersIn(t) => Handover(t)[p] = "same"
    BY DEF Handover
  <2>9. TypeOK'
    <3>1. Handover(t) \in [Player -> Roster \cup {Nobody, "same"}]
      BY <2>7 DEF Handover
    <3>2. ow' \in [Tx -> [Player -> Roster \cup {Nobody, "same"}]]
      BY <1>3, <2>6, <3>1 DEF IInv, TypeOK
    <3>. QED BY <1>3, <3>2 DEF IInv, TypeOK
  <2>10. ASSUME NEW y \in Tx, y # x PROVE RowsApart(x, y)'
    <3>1. \A p \in Player : ow'[x][p] = "same" \/ ow'[y][p] = "same"
      BY <2>6, <2>7, <2>8, <2>10 DEF PlayerRowFree
    <3>2. \A u \in Trade : sw'[x][u] = "same" \/ sw'[y][u] = "same"
      BY <1>3, <2>10 DEF IInv, RowLocks, RowsApart
    <3>. QED BY <3>1, <3>2 DEF RowsApart
  <2>11. Sound(x)'
    <3>1. Existence(x)' /\ OwnTrade(x)' /\ Justified(x)'
      BY <1>3, <2>1 DEF IInv, Sound, Existence, OwnTrade, Justified
    <3>2. Moves(x)'
      <4>1. Handover(t)' = Handover(t)
        BY <1>3 DEF Handover, PlayersIn
      <4>. QED BY <1>3, <2>3, <2>6, <4>1 DEF Moves
    <3>3. Owned(x)'
      BY <1>3, <2>6, <2>7, <2>8, NobodyAssumption DEF Owned
    <3>4. Ballot(x)'
      BY <1>3, <2>1, <2>2 DEF IInv, Sound, Ballot, Executes
    <3>. QED BY <2>1, <3>1, <3>2, <3>3, <3>4 DEF Sound
  <2>. HIDE DEF t
  <2>12. \A y \in Tx : y # x => UNCHANGED <<sw[y], ow[y], pv[y]>>
    BY <1>3, <2>6
  <2>. QED BY <1>3, <2>1, <2>9, <2>10, <2>11, <2>12, StatementStep
<1>. QED BY <1>2, <1>3 DEF Move

\* The conditional UPDATE of a trade's status.
LEMMA UpdateStep ==
  ASSUME IInv, NEW x \in Tx, Update(x)
  PROVE  IInv'
<1>. DEFINE t == req[x].trade
            s == Head(todo[x])
<1>1. todo[x] # <<>> /\ s \in Status
  BY DEF Update
<1>2. s \notin {"lock", "recheck", "details", "commit", "move"}
  BY <1>1 DEF Status
<1>3. Running(x) /\ req[x] \in Request /\ todo[x] \in Rest(req[x])
  BY <1>1, AtRuns
<1>4. \/ req[x].kind = "counter" /\ s = "countered"
           /\ Tail(todo[x]) = <<"validate", "insert", "details", "commit">>
      \/ req[x].kind = "accept" /\ todo[x] = <<"in_review", "commit">>
      \/ Executes(req[x]) /\ todo[x] = <<"completed", "commit">>
      \/ req[x].kind = "reject" /\ todo[x] = <<"rejected", "commit">>
      \/ req[x].kind \in {"cancel", "adminCancel"} /\ todo[x] = <<"cancelled", "commit">>
      \/ req[x].kind \in {"vote", "review"} /\ todo[x] = <<"vetoed", "commit">>
      \/ req[x].kind = "review" /\ todo[x] = <<"failed", "commit">>
  BY <1>1, <1>3, StatementCases
<1>5. CASE RollBack(x)
  BY <1>5, RollBackStep
<1>6. CASE Pass(x) /\ req[x].kind = "review"
  <2>1. pv[x] = {}
    BY <1>3, <1>6 DEF IInv, Sound, Ballot
  <2>. QED BY <1>1, <1>2, <1>6, <2>1, PassHead
<1>7. CASE /\ TradeRowFree(x, t)
           /\ StatusSeen(x, t) \in Expected(req[x], s)
           /\ sw' = [sw EXCEPT ![x][t] = s]
           /\ todo' = [todo EXCEPT ![x] = Tail(@)]
           /\ UNCHANGED <<status, owner, votes, req, ow, pv>>
  <2>1. /\ Tail(todo[x]) \in Rest(req[x]) /\ Tail(todo[x]) # Plan(req[x])
        /\ todo[x] # Plan(req[x])
        /\ todo'[x] = Tail(todo[x]) /\ Running(x)' /\ Fresh(x)' /\ Answer(x)'
    BY <1>1, <1>2, <1>7, WriteFrame
  <2>2. t \in Trade /\ OnTrade(req[x]) /\ req[x].kind # "propose"
    BY <1>3, <1>4 DEF Request, OnTrade, Executes
  <2>3. /\ sw'[x][t] = s /\ \A u \in Trade : u # t => sw'[x][u] = sw[x][u]
        /\ \A y \in Tx : y # x => sw'[y] = sw[y]
    BY <1>7, <2>2 DEF IInv, TypeOK
  <2>4. \/ s = "completed" /\ Executes(req[x]) /\ status[t] \in Active
        \/ s = "in_review" /\ status[t] = "pending"
        \/ s \in Dead /\ status[t] \notin {"none", "completed"}
    <3>1. status[t] # "none" /\ Justified(x) /\ Answer(x) /\ OwnTrade(x)
      BY <1>3, <2>2 DEF IInv, Sound, Existence
    <3>2. CASE req[x].kind \in {"reject", "cancel", "adminCancel"}
      <4>1. s \in Dead
        BY <1>4, <3>2 DEF Dead, Executes
      <4>2. todo[x] \in {<<"rejected", "commit">>, <<"cancelled", "commit">>}
        BY <1>4, <3>2 DEF Executes
      <4>. QED BY <1>3, <3>1, <3>2, <4>1, <4>2 DEF Answer
    <3>3. CASE req[x].kind \notin {"reject", "cancel", "adminCancel"}
      <4>1. s \in {"countered", "in_review", "completed", "vetoed", "failed"}
        BY <1>4, <3>3
      <4>2. s = "completed" => Executes(req[x])
        BY <1>4, <3>3
      <4>3. StatusSeen(x, t) \in {"pending", "in_review"}
        BY <1>7, <4>1 DEF Expected
      <4>4. StatusSeen(x, t) \in Active
        BY <4>3 DEF Active
      <4>5. status[t] \in Active
        BY <1>3, <2>2, <4>4, SeenAllowed
      <4>6. s = "in_review" => status[t] = "pending"
        <5>1. s = "in_review" => /\ StatusSeen(x, t) = "pending"
                                 /\ ~Creates(req[x])
          BY <1>4, <1>7 DEF Expected, Creates, Executes
        <5>. QED BY <2>2, <3>1, <5>1 DEF Justified, StatusSeen, Dead
      <4>. QED BY <4>1, <4>2, <4>5, <4>6 DEF Dead, Active
    <3>. QED BY <3>2, <3>3
  <2>5. TypeOK'
    <3>1. sw' \in [Tx -> [Trade -> Status \cup {"same"}]]
      BY <1>1, <1>7, <2>2 DEF IInv, TypeOK
    <3>. QED BY <1>7, <3>1 DEF IInv, TypeOK
  <2>6. \A y \in Tx : y # x => RowsApart(x, y)'
    BY <1>7, <2>3 DEF IInv, RowLocks, RowsApart, TradeRowFree
  <2>7. Sound(x)'
    <3>1. Existence(x)' /\ Owned(x)'
      BY <1>7, <2>1, <1>3 DEF IInv, Sound, Existence, Owned
    <3>2. OwnTrade(x)'
      BY <1>3, <1>7, <2>3 DEF IInv, Sound, OwnTrade
    <3>3. Justified(x)'
      <4>. HIDE DEF s
      <4>1. Justified(x)
        BY DEF IInv, Sound
      <4>. QED BY <1>3, <1>7, <2>1, <2>3, <2>4, <4>1 DEF Justified
    <3>4. Moves(x)'
      <4>. SUFFICES ASSUME Executes(req[x]) PROVE Moves(x)'
        BY <1>7 DEF Moves
      <4>1. todo'[x] = <<"commit">>
        BY <1>4, <2>1, TailTable DEF Executes
      <4>2. Moves(x)
        BY DEF IInv, Sound
      <4>3. Handover(t)' = Handover(t)
        BY <1>7 DEF Handover, PlayersIn
      <4>4. s = "completed" => todo[x] = <<"completed", "commit">>
        BY <1>4
      <4>. QED BY <1>3, <1>7, <2>3, <4>1, <4>2, <4>3, <4>4 DEF Moves
    <3>5. Ballot(x)'
      <4>. SUFFICES ASSUME req[x].kind = "vote" PROVE Ballot(x)'
        BY <1>3, <1>7 DEF IInv, Sound, Ballot
      <4>1. todo'[x] = <<"commit">> /\ s = "vetoed"
        <5>1. todo[x] = <<"vetoed", "commit">>
          BY <1>4 DEF Executes
        <5>. QED BY <2>1, <5>1, TailTable
      <4>. QED BY <1>7, <2>3, <4>1 DEF Ballot
    <3>. QED BY <2>1, <3>1, <3>2, <3>3, <3>4, <3>5 DEF Sound
  <2>. HIDE DEF s, t
  <2>. QED BY <1>3, <1>7, <2>1, <2>3, <2>5, <2>6, <2>7, StatementStep
<1>. QED BY <1>5, <1>6, <1>7 DEF Update

LEMMA InsertTradeStep ==
  ASSUME IInv, NEW x \in Tx, InsertTrade(x)
  PROVE  IInv'
<1>. DEFINE n == New(req[x])
<1>1. /\ todo[x] # <<>> /\ Head(todo[x]) = "insert" /\ TradeRowFree(x, n)
      /\ sw' = [sw EXCEPT ![x][n] = "pending"]
      /\ todo' = [todo EXCEPT ![x] = Tail(@)]
      /\ UNCHANGED <<status, owner, votes, req, ow, pv>>
  BY DEF InsertTrade, At
<1>2. /\ Running(x) /\ req[x] \in Request /\ todo[x] \in Rest(req[x])
      /\ Tail(todo[x]) \in Rest(req[x]) /\ Tail(todo[x]) # Plan(req[x])
      /\ todo[x] # Plan(req[x])
      /\ todo'[x] = Tail(todo[x]) /\ Running(x)' /\ Fresh(x)' /\ Answer(x)'
  BY <1>1, WriteFrame
<1>3. Creates(req[x])
  BY <1>1, <1>2, StatementCases
<1>4. n \in Trade /\ status[n] = "none"
  <2>1. n \in Trade
    BY <1>2, <1>3 DEF New, Creates, Request
  <2>. QED BY <1>2, <1>3, <2>1 DEF IInv, Sound, Existence
<1>5. /\ sw'[x][n] = "pending" /\ \A u \in Trade : u # n => sw'[x][u] = sw[x][u]
      /\ \A y \in Tx : y # x => sw'[y] = sw[y]
  BY <1>1, <1>4 DEF IInv, TypeOK
<1>6. TypeOK'
  <2>1. sw' \in [Tx -> [Trade -> Status \cup {"same"}]]
    BY <1>1, <1>4 DEF IInv, TypeOK, Status
  <2>. QED BY <1>1, <2>1 DEF IInv, TypeOK
<1>7. \A y \in Tx : y # x => RowsApart(x, y)'
  BY <1>1, <1>5 DEF IInv, RowLocks, RowsApart, TradeRowFree
<1>8. Sound(x)'
  <2>1. Existence(x)' /\ Owned(x)' /\ Ballot(x)'
    BY <1>1, <1>2, <1>3 DEF IInv, Sound, Existence, Owned, Ballot, New, Creates
  <2>2. OwnTrade(x)' /\ Moves(x)'
    BY <1>1, <1>3 DEF OwnTrade, Moves, Creates, Executes
  <2>3. Justified(x)'
    BY <1>1, <1>2, <1>3, <1>4, <1>5 DEF IInv, Sound, Justified
  <2>. QED BY <1>2, <2>1, <2>2, <2>3 DEF Sound
<1>. HIDE DEF n
<1>. QED BY <1>1, <1>2, <1>5, <1>6, <1>7, <1>8, StatementStep

\* A ballot; the veto follows at once when it is the one that decides.
LEMMA CastVoteStep ==
  ASSUME IInv, NEW x \in Tx, CastVote(x)
  PROVE  IInv'
<1>. DEFINE t == req[x].trade
            ballot == <<req[x].voter, req[x].ballot>>
<1>1. todo[x] # <<>> /\ Head(todo[x]) = "cast"
  BY DEF CastVote, At
<1>2. Running(x) /\ req[x] \in Request /\ todo[x] \in Rest(req[x]) /\ pv[x] = {}
  BY <1>1, AtRuns, NoBallot
<1>3. req[x].kind = "vote" /\ todo[x] = <<"cast", "vetoed", "commit">>
  BY <1>1, <1>2, StatementCases
<1>4. /\ <<"commit">> \in Rest(req[x]) /\ <<"vetoed", "commit">> \in Rest(req[x])
      /\ <<"commit">> # Plan(req[x]) /\ <<"vetoed", "commit">> # Plan(req[x])
      /\ todo[x] # Plan(req[x])
  BY <1>3 DEF Rest, Plan
<1>5. CASE Continue(x, <<"commit">>)
  BY <1>2, <1>3, <1>4, <1>5, PassStep
<1>6. ASSUME NEW s \in {<<"vetoed", "commit">>, <<"commit">>},
             s = <<"commit">> => ~(Vetoes(votes[t] \cup {ballot}) >= VetoThreshold),
             pv' = [pv EXCEPT ![x] = {ballot}], todo' = [todo EXCEPT ![x] = s],
             UNCHANGED <<status, owner, votes, req, sw, ow>>
      PROVE  IInv'
  <2>1. todo'[x] = s /\ pv'[x] = {ballot} /\ \A y \in Tx : y # x => pv'[y] = pv[y]
    BY <1>6 DEF IInv, Domains, TypeOK
  <2>2. ballot \in Voter \X {"approve", "veto"}
    BY <1>2, <1>3 DEF Request
  <2>3. TypeOK'
    <3>1. pv' \in [Tx -> SUBSET (Voter \X {"approve", "veto"})]
      BY <1>6, <2>2 DEF IInv, TypeOK
    <3>. QED BY <1>6, <3>1 DEF IInv, TypeOK
  <2>4. \A y \in Tx : y # x => RowsApart(x, y)'
    BY <1>6 DEF IInv, RowLocks, RowsApart
  <2>5. s \in Rest(req[x]) /\ s # Plan(req[x])
    BY <1>4, <1>6
  <2>6. Running(x)'
    BY <1>2, <1>6, <2>1, <2>5 DEF Running
  <2>7. Sound(x)'
    <3>1. Fresh(x)' /\ Answer(x)' /\ Moves(x)'
      BY <1>3, <1>6, <2>1, <2>5 DEF Fresh, Answer, Moves, Executes
    <3>2. Existence(x)' /\ OwnTrade(x)' /\ Owned(x)'
      BY <1>2, <1>6 DEF IInv, Sound, Existence, OwnTrade, Owned
    <3>3. Justified(x)'
      BY <1>2, <1>6, <2>6 DEF IInv, Sound, Justified
    <3>4. Ballot(x)'
      <4>. HIDE DEF ballot
      <4>. QED BY <1>3, <1>6, <2>1 DEF Ballot, Vetoes
    <3>. QED BY <3>1, <3>2, <3>3, <3>4 DEF Sound
  <2>. HIDE DEF ballot, t
  <2>. QED BY <1>2, <1>4, <1>6, <2>1, <2>3, <2>4, <2>5, <2>7, StatementStep
<1>7. CASE /\ pv' = [pv EXCEPT ![x] = {ballot}]
           /\ todo' = [todo EXCEPT ![x] =
                IF Vetoes(votes[t] \cup {ballot}) >= VetoThreshold
                THEN Tail(@) ELSE <<"commit">>]
           /\ UNCHANGED <<status, owner, votes, req, sw, ow>>
  <2>1. Tail(todo[x]) = <<"vetoed", "commit">>
    BY <1>3, TailTable
  <2>2. CASE Vetoes(votes[t] \cup {ballot}) >= VetoThreshold
    <3>1. todo' = [todo EXCEPT ![x] = <<"vetoed", "commit">>]
      BY <1>7, <2>1, <2>2
    <3>2. <<"vetoed", "commit">> # <<"commit">>
      OBVIOUS
    <3>. HIDE DEF ballot, t
    <3>. QED BY <1>6, <1>7, <3>1, <3>2
  <2>3. CASE ~(Vetoes(votes[t] \cup {ballot}) >= VetoThreshold)
    <3>1. todo' = [todo EXCEPT ![x] = <<"commit">>]
      BY <1>7, <2>3
    <3>. HIDE DEF ballot, t
    <3>. QED BY <1>6, <1>7, <2>3, <3>1
  <2>. QED BY <2>2, <2>3
<1>. QED BY <1>5, <1>7 DEF CastVote

\* The statements of waiver claims and drops write rosters only.
LEMMA OwnerWrite ==
  ASSUME IInv, NEW x \in Tx, todo[x] # <<>>, Head(todo[x]) \in {"drop", "add"},
         NEW p \in Player, NEW r \in Roster \cup {Nobody},
         ow' = [ow EXCEPT ![x][p] = r], todo' = [todo EXCEPT ![x] = Tail(@)],
         UNCHANGED <<status, owner, votes, req, sw, pv>>,
         PlayerRowFree(x, p),
         req[x].kind # "waiver" => owner[p] # Nobody
  PROVE  IInv'
<1>1. /\ Running(x) /\ req[x] \in Request /\ todo[x] \in Rest(req[x])
      /\ Tail(todo[x]) \in Rest(req[x]) /\ Tail(todo[x]) # Plan(req[x])
      /\ todo[x] # Plan(req[x])
      /\ todo'[x] = Tail(todo[x]) /\ Running(x)' /\ Fresh(x)' /\ Answer(x)'
  BY WriteFrame
<1>2. req[x].kind \in {"drop", "waiver"}
  BY <1>1, StatementCases
<1>3. /\ ow'[x][p] = r /\ \A q \in Player : q # p => ow'[x][q] = ow[x][q]
      /\ \A y \in Tx : y # x => ow'[y] = ow[y]
  BY DEF IInv, TypeOK
<1>4. TypeOK'
  <2>1. ow' \in [Tx -> [Player -> Roster \cup {Nobody, "same"}]]
    BY DEF IInv, TypeOK
  <2>. QED BY <2>1 DEF IInv, TypeOK
<1>5. \A y \in Tx : y # x => RowsApart(x, y)'
  BY <1>3 DEF IInv, RowLocks, RowsApart, PlayerRowFree
<1>6. Sound(x)'
  <2>1. Existence(x)' /\ OwnTrade(x)' /\ Ballot(x)' /\ Moves(x)'
    BY <1>1, <1>2 DEF IInv, Sound, Existence, OwnTrade, Ballot, Moves, OnTrade, Creates,
                      Executes
  <2>2. Justified(x)'
    BY <1>1 DEF IInv, Sound, Justified
  <2>3. Owned(x)'
    BY <1>1, <1>3 DEF IInv, Sound, Owned
  <2>. QED BY <1>1, <2>1, <2>2, <2>3 DEF Sound
<1>. QED BY <1>1, <1>3, <1>4, <1>5, <1>6, StatementStep

LEMMA DropStep ==
  ASSUME IInv, NEW x \in Tx, Drop(x)
  PROVE  IInv'
<1>. DEFINE p == req[x].drop
<1>1. todo[x] # <<>> /\ Head(todo[x]) = "drop"
  BY DEF Drop, At
<1>2. Running(x) /\ req[x] \in Request /\ req[x].kind \in {"drop", "waiver"} /\ pv[x] = {}
  BY <1>1, AtRuns, NoBallot, StatementCases
<1>3. CASE Pass(x)
  BY <1>1, <1>2, <1>3, PassHead
<1>4. CASE RollBack(x)
  BY <1>4, RollBackStep
<1>5. CASE /\ p # Nobody /\ PlayerRowFree(x, p) /\ OwnerSeen(x, p) = req[x].roster
           /\ ow' = [ow EXCEPT ![x][p] = Nobody] /\ todo' = [todo EXCEPT ![x] = Tail(@)]
           /\ UNCHANGED <<status, owner, votes, req, sw, pv>>
  <2>1. p \in Player /\ req[x].roster \in Roster
    BY <1>2, <1>5 DEF Request
  <2>2. req[x].kind # "waiver" => owner[p] # Nobody
    <3>1. Owned(x)
      BY DEF IInv, Sound
    <3>. QED BY <1>2, <1>5, <2>1, <3>1, NobodyAssumption DEF Owned, OwnerSeen
  <2>. HIDE DEF p
  <2>. QED BY <1>1, <1>5, <2>1, <2>2, OwnerWrite
<1>. QED BY <1>3, <1>4, <1>5 DEF Drop

\* A free agent is written by the claim that holds the WAIVER lock.
LEMMA AddStep ==
  ASSUME IInv, NEW x \in Tx, Add(x)
  PROVE  IInv'
<1>. DEFINE p == req[x].add
<1>1. todo[x] # <<>> /\ Head(todo[x]) = "add"
  BY DEF Add, At
<1>2. /\ Running(x) /\ req[x] \in Request /\ req[x].kind = "waiver" /\ pv[x] = {}
      /\ todo[x] \in Rest(req[x])
  BY <1>1, AtRuns, NoBallot, StatementCases
<1>3. todo[x] # Plan(req[x])
  BY <1>1, <1>2, PlanIsRest
<1>4. CASE Continue(x, <<"commit">>)
  <2>1. <<"commit">> \in Rest(req[x]) /\ <<"commit">> # Plan(req[x])
    BY <1>2 DEF Rest, Plan
  <2>2. <<"commit">> \notin {<<"rejected", "commit">>, <<"cancelled", "commit">>,
                            <<"completed", "commit">>}
    OBVIOUS
  <2>. QED BY <1>2, <1>3, <1>4, <2>1, <2>2, PassStep
<1>5. CASE /\ OwnerSeen(x, p) = Nobody
           /\ ow' = [ow EXCEPT ![x][p] = req[x].roster]
           /\ todo' = [todo EXCEPT ![x] = Tail(@)]
           /\ UNCHANGED <<status, owner, votes, req, sw, pv>>
  <2>1. p \in Player /\ req[x].roster \in Roster
    BY <1>2 DEF Request
  <2>2. ASSUME NEW y \in Tx \ {x} PROVE ow[y][p] = "same"
    <3>1. CASE ow[x][p] # "same"
      BY <2>1, <3>1 DEF IInv, RowLocks, RowsApart
    <3>2. CASE ow[x][p] = "same"
      <4>1. owner[p] = Nobody
        BY <1>5, <3>2 DEF OwnerSeen
      <4>2. Owned(y) /\ Fresh(y)
        BY DEF IInv, Sound
      <4>3. CASE Idle(y)
        BY <2>1, <4>3 DEF Idle, NoOwnerWrites
      <4>4. CASE Running(y) /\ req[y].kind # "waiver"
        BY <2>1, <4>1, <4>2, <4>4 DEF Owned
      <4>5. CASE Running(y) /\ req[y].kind = "waiver"
        <5>1. ~Locked(y)
          BY <1>2, <1>3, <4>5 DEF IInv, Exclusive, Locked, LocksOf
        <5>. QED BY <2>1, <4>2, <4>5, <5>1 DEF Fresh, Locked, NoOwnerWrites
      <4>. QED BY <4>3, <4>4, <4>5 DEF IInv, Stages
    <3>. QED BY <3>1, <3>2
  <2>3. PlayerRowFree(x, p)
    BY <2>2 DEF PlayerRowFree
  <2>. HIDE DEF p
  <2>. QED BY <1>1, <1>2, <1>5, <2>1, <2>3, OwnerWrite
<1>. QED BY <1>4, <1>5 DEF Add

\* What a claim invalidates is open.
LEMMA InvalidateStep ==
  ASSUME IInv, NEW x \in Tx, Invalidate(x)
  PROVE  IInv'
<1>. DEFINE hit == ActiveWith(x, req[x].add) \cup ActiveWith(x, req[x].drop)
<1>1. /\ todo[x] # <<>> /\ Head(todo[x]) = "invalidate"
      /\ \A t \in hit : TradeRowFree(x, t)
      /\ sw' = [sw EXCEPT ![x] = [t \in Trade |-> IF t \in hit THEN "expired" ELSE @[t]]]
      /\ todo' = [todo EXCEPT ![x] = Tail(@)]
      /\ UNCHANGED <<status, owner, votes, req, ow, pv>>
  BY DEF Invalidate, At
<1>2. /\ Running(x) /\ req[x] \in Request /\ todo[x] \in Rest(req[x])
      /\ Tail(todo[x]) \in Rest(req[x]) /\ Tail(todo[x]) # Plan(req[x])
      /\ todo[x] # Plan(req[x])
      /\ todo'[x] = Tail(todo[x]) /\ Running(x)' /\ Fresh(x)' /\ Answer(x)'
  BY <1>1, WriteFrame
<1>3. req[x].kind = "waiver"
  BY <1>1, <1>2, StatementCases
<1>4. hit \subseteq Trade /\ \A t \in hit : StatusSeen(x, t) \in Active
  BY DEF ActiveWith
<1>5. \A t \in hit : status[t] \notin {"none", "completed"}
  <2>1. Justified(x)
    BY DEF IInv, Sound
  <2>. HIDE DEF hit
  <2>. QED BY <1>3, <1>4, <2>1 DEF Justified, StatusSeen, Active, Dead, Creates, Executes
<1>. HIDE DEF hit
<1>6. /\ \A t \in Trade : sw'[x][t] = IF t \in hit THEN "expired" ELSE sw[x][t]
      /\ \A y \in Tx : y # x => sw'[y] = sw[y]
  BY <1>1 DEF IInv, TypeOK
<1>7. TypeOK'
  <2>1. sw' \in [Tx -> [Trade -> Status \cup {"same"}]]
    BY <1>1 DEF IInv, TypeOK, Status
  <2>. QED BY <1>1, <2>1 DEF IInv, TypeOK
<1>8. \A y \in Tx : y # x => RowsApart(x, y)'
  BY <1>1, <1>6 DEF IInv, RowLocks, RowsApart, TradeRowFree
<1>9. Sound(x)'
  <2>1. Existence(x)' /\ Owned(x)' /\ Ballot(x)'
    BY <1>1, <1>2, <1>3 DEF IInv, Sound, Existence, Owned, Ballot
  <2>2. OwnTrade(x)' /\ Moves(x)'
    BY <1>1, <1>3 DEF OwnTrade, Moves, OnTrade, Executes
  <2>3. Justified(x)'
    <3>1. Justified(x)
      BY DEF IInv, Sound
    <3>2. "expired" \in Dead
      BY DEF Dead
    <3>. QED BY <1>1, <1>2, <1>3, <1>5, <1>6, <3>1, <3>2 DEF Justified, Creates, Executes
  <2>. QED BY <1>2, <2>1, <2>2, <2>3 DEF Sound
<1>. QED BY <1>1, <1>2, <1>6, <1>7, <1>8, <1>9, StatementStep

-----------------------------------------------------------------------------
(* COMMIT and the expiration job                                           *)

LEMMA CommitIsLast ==
  ASSUME IInv, NEW x \in Tx, Commit(x)
  PROVE  /\ Locked(x) /\ req[x] \in Request /\ ~Creates(req[x]) /\ todo[x] = <<"commit">>
         /\ \A t \in Trade : \/ sw[x][t] = "same" /\ status'[t] = status[t]
                             \/ sw[x][t] # "same" /\ status'[t] = sw[x][t]
         /\ \A p \in Player : \/ ow[x][p] = "same" /\ owner'[p] = owner[p]
                              \/ ow[x][p] # "same" /\ owner'[p] = ow[x][p]
<1>1. todo[x] # <<>> /\ Head(todo[x]) = "commit"
  BY DEF Commit, At
<1>2. Running(x) /\ req[x] \in Request /\ todo[x] \in Rest(req[x])
  BY <1>1, AtRuns
<1>3. ~Creates(req[x]) /\ todo[x] = <<"commit">> /\ todo[x] # Plan(req[x])
  BY <1>1, <1>2, StatementCases, PlanIsRest
<1>. QED BY <1>2, <1>3 DEF Commit, Locked, StatusSeen, OwnerSeen

\* What another transaction has relied on is still so.
LEMMA CommitSpares ==
  ASSUME IInv, NEW x \in Tx, Commit(x), NEW y \in Tx, y # x
  PROVE  Sound(y)'
<1>1. /\ Locked(x) /\ req[x] \in Request /\ ~Creates(req[x])
      /\ \A t \in Trade : \/ sw[x][t] = "same" /\ status'[t] = status[t]
                          \/ sw[x][t] # "same" /\ status'[t] = sw[x][t]
      /\ \A p \in Player : \/ ow[x][p] = "same" /\ owner'[p] = owner[p]
                           \/ ow[x][p] # "same" /\ owner'[p] = ow[x][p]
  BY CommitIsLast
<1>2. /\ UNCHANGED <<req[y], todo[y], sw[y], ow[y], pv[y]>>
      /\ Running(y)' <=> Running(y)
  BY FinishFrame DEF Commit
<1>3. Sound(x) /\ Sound(y) /\ RowsApart(x, y)
  BY DEF IInv, RowLocks
<1>4. Running(y) => req[y] \in Request
  BY RequestsAssumption DEF Running
<1>5. ASSUME Locked(y), OnTrade(req[y])
      PROVE  ~OnTrade(req[x])
  <2>1. req[y] \in Request
    BY <1>4, <1>5 DEF Locked
  <2>. QED BY <1>1, <1>5, <2>1, TradeLockShared DEF IInv, Exclusive
<1>6. Fresh(y)'
  BY <1>2, <1>3 DEF Sound, Fresh, NoOwnerWrites
<1>7. Existence(y)'
  <2>. SUFFICES ASSUME Running(y) PROVE Existence(y)'
    BY <1>2 DEF Existence
  <2>1. ASSUME OnTrade(req[y]), req[y].kind # "propose" PROVE status'[req[y].trade] # "none"
    <3>1. req[y].trade \in Trade /\ status[req[y].trade] # "none"
      BY <1>3, <1>4, <2>1 DEF Sound, Existence, OnTrade, Request
    <3>. QED BY <1>1, <1>3, <3>1 DEF Sound, Justified, Dead
  <2>2. ASSUME Creates(req[y]) PROVE status'[New(req[y])] = "none"
    <3>1. New(req[y]) \in Trade /\ status[New(req[y])] = "none"
      BY <1>3, <1>4, <2>2 DEF Sound, Existence, Creates, Request, New
    <3>. QED BY <1>1, <1>3, <3>1 DEF Sound, Justified, Active
  <2>. QED BY <1>2, <2>1, <2>2 DEF Existence
<1>8. Answer(y)'
  <2>. SUFFICES ASSUME Running(y), req[y].kind \in {"reject", "cancel", "adminCancel"},
                       todo[y] \in {<<"rejected", "commit">>, <<"cancelled", "commit">>}
                PROVE  status'[req[y].trade] # "completed"
    BY <1>2 DEF Answer
  <2>1. Head(todo[y]) # "lock"
    OBVIOUS
  <2>2. Locked(y) /\ OnTrade(req[y]) /\ req[y].trade \in Trade
    BY <1>4, <2>1, PlanIsRest DEF Locked, OnTrade, Request
  <2>3. ~Executes(req[x])
    BY <1>5, <2>2 DEF OnTrade, Executes
  <2>4. status[req[y].trade] # "completed"
    BY <1>3 DEF Sound, Answer
  <2>. QED BY <1>1, <1>3, <2>2, <2>3, <2>4 DEF Sound, Justified, Dead
<1>9. Justified(y)'
  <2>. SUFFICES ASSUME NEW t \in Trade, sw[y][t] # "same"
                PROVE  status'[t] = status[t]
    BY <1>2, <1>3 DEF Sound, Justified
  <2>. QED BY <1>1, <1>3 DEF RowsApart
<1>10. OwnTrade(y)'
  BY <1>2, <1>3 DEF Sound, OwnTrade
<1>11. Moves(y)'
  <2>. SUFFICES ASSUME Running(y), Executes(req[y]) PROVE Moves(y)'
    BY <1>2 DEF Moves
  <2>1. req[y].trade \in Trade
    BY <1>4 DEF Executes, Request
  <2>2. Handover(req[y].trade)' = Handover(req[y].trade)
    BY <1>2 DEF Handover, PlayersIn
  <2>3. ASSUME ow[y] = Handover(req[y].trade), NEW i \in Items[req[y].trade]
        PROVE  owner'[i.player] = owner[i.player]
    <3>1. (CHOOSE j \in Items[req[y].trade] : j.player = i.player) \in Items[req[y].trade]
      OBVIOUS
    <3>2. i.player \in PlayersIn(req[y].trade) /\ i.player \in Player
      BY <2>1, ItemsAssumption DEF PlayersIn, Item
    <3>3. ow[y][i.player] \in Roster
      BY <2>1, <2>3, <3>1, <3>2, ItemsAssumption DEF Handover, Item
    <3>4. ow[x][i.player] = "same"
      BY <1>3, <3>2, <3>3, MarkAssumption DEF RowsApart
    <3>. QED BY <1>1, <3>2, <3>4
  <2>4. NoOwnerWrites' = NoOwnerWrites
    BY DEF NoOwnerWrites
  <2>. QED BY <1>2, <1>3, <2>2, <2>3, <2>4 DEF Sound, Moves
<1>12. Owned(y)'
  BY <1>1, <1>2, <1>3 DEF Sound, Owned, RowsApart
<1>13. Ballot(y)'
  <2>. SUFFICES ASSUME Running(y), req[y].kind = "vote", pv[y] # {} PROVE Ballot(y)'
    BY <1>2, <1>3 DEF Sound, Ballot
  <2>1. todo[y] \in {<<"vetoed", "commit">>, <<"commit">>}
    BY <1>3 DEF Sound, Ballot
  <2>2. Head(todo[y]) # "lock"
    BY <2>1
  <2>3. Locked(y) /\ OnTrade(req[y])
    BY <1>4, <2>2, PlanIsRest DEF Locked, OnTrade
  <2>4. req[x].kind # "vote"
    BY <1>5, <2>3 DEF OnTrade
  <2>5. pv[x] = {}
    BY <1>1, <1>3, <2>4 DEF Sound, Ballot, Locked
  <2>6. votes' = votes
    BY <2>5 DEF Commit
  <2>. QED BY <1>2, <1>3, <2>6 DEF Sound, Ballot
<1>. QED BY <1>6, <1>7, <1>8, <1>9, <1>10, <1>11, <1>12, <1>13 DEF Sound

LEMMA CommitStep ==
  ASSUME IInv, NEW x \in Tx, Commit(x)
  PROVE  IInv'
<1>1. /\ Locked(x) /\ req[x] \in Request /\ ~Creates(req[x]) /\ todo[x] = <<"commit">>
      /\ \A t \in Trade : \/ sw[x][t] = "same" /\ status'[t] = status[t]
                          \/ sw[x][t] # "same" /\ status'[t] = sw[x][t]
  BY CommitIsLast
<1>2. /\ Idle(x)' /\ ~Running(x)'
      /\ req' \in [Tx -> Requests \cup {<<>>}]
      /\ sw' \in [Tx -> [Trade -> Status \cup {"same"}]]
      /\ ow' \in [Tx -> [Player -> Roster \cup {Nobody, "same"}]]
      /\ pv' \in [Tx -> SUBSET (Voter \X {"approve", "veto"})]
      /\ Domains' /\ Stages' /\ Exclusive' /\ RowLocks'
  BY FinishFrame DEF Commit
<1>3. TypeOK'
  <2>1. status' \in [Trade -> Status]
    BY DEF Commit, StatusSeen, IInv, TypeOK
  <2>2. owner' \in [Player -> Roster \cup {Nobody}]
    BY DEF Commit, OwnerSeen, IInv, TypeOK
  <2>3. votes' \in [Trade -> SUBSET (Voter \X {"approve", "veto"})]
    <3>1. pv[x] \subseteq Voter \X {"approve", "veto"}
      BY DEF IInv, TypeOK
    <3>2. votes \in [Trade -> SUBSET (Voter \X {"approve", "veto"})]
      BY DEF IInv, TypeOK
    <3>. QED BY <3>1, <3>2 DEF Commit
  <2>. QED BY <1>2, <2>1, <2>2, <2>3 DEF TypeOK
<1>4. Sound(x)'
  <2>1. Justified(x)'
    BY <1>2 DEF Idle, Justified, NoStatusWrites
  <2>. QED BY <1>2, <2>1 DEF Sound, Fresh, Existence, Answer, OwnTrade, Moves, Owned, Ballot
<1>5. Decided'
  <2>. SUFFICES ASSUME NEW t \in Trade, (Vetoes(votes[t]) >= VetoThreshold)'
                PROVE  status'[t] \in Dead
    BY DEF Decided, Dead
  <2>1. Sound(x) /\ Decided /\ Running(x)
    BY <1>1 DEF IInv, Locked
  <2>2. CASE votes'[t] = votes[t]
    <3>1. status[t] \in Dead
      BY <2>1, <2>2 DEF Decided, Vetoes
    <3>. QED BY <1>1, <2>1, <3>1 DEF Sound, Justified, Dead, Active
  <2>3. CASE votes'[t] # votes[t]
    <3>1. pv[x] # {} /\ votes' = [votes EXCEPT ![req[x].trade] = @ \cup pv[x]]
      BY <2>3 DEF Commit
    <3>2. req[x].kind = "vote"
      BY <2>1, <3>1 DEF Sound, Ballot
    <3>3. t = req[x].trade /\ votes'[t] = votes[t] \cup pv[x]
      BY <2>3, <3>1 DEF IInv, TypeOK
    <3>4. Vetoes(votes[t] \cup pv[x]) >= VetoThreshold
      BY <3>3 DEF Vetoes
    <3>5. todo[x] # <<"vetoed", "commit">>
      BY <1>1
    <3>6. sw[x][t] = "vetoed"
      BY <2>1, <3>1, <3>2, <3>3, <3>4, <3>5 DEF Sound, Ballot
    <3>. QED BY <1>1, <3>6 DEF Dead
  <2>. QED BY <2>2, <2>3
<1>6. \A y \in Tx : Sound(y)'
  BY <1>4, CommitSpares
<1>. QED BY <1>2, <1>3, <1>5, <1>6 DEF IInv

\* Nobody has written the trade that expires.
LEMMA ExpireStep ==
  ASSUME IInv, NEW t \in Trade, Expire(t)
  PROVE  IInv'
<1>1. /\ status[t] = "pending" /\ \A y \in Tx : sw[y][t] = "same"
      /\ status' = [status EXCEPT ![t] = "expired"]
      /\ UNCHANGED <<owner, votes, req, todo, sw, ow, pv>>
  BY DEF Expire
<1>2. status'[t] = "expired" /\ \A u \in Trade : u # t => status'[u] = status[u]
  BY <1>1 DEF IInv, TypeOK
<1>3. \A x \in Tx : /\ Running(x)' <=> Running(x)
                    /\ Idle(x)' <=> Idle(x)
                    /\ Locked(x)' <=> Locked(x)
  BY <1>1 DEF Running, Idle, Locked, NoStatusWrites, NoOwnerWrites
<1>4. TypeOK'
  <2>1. status' \in [Trade -> Status]
    BY <1>1 DEF IInv, TypeOK, Status
  <2>. QED BY <1>1, <2>1 DEF IInv, TypeOK
<1>5. Domains' /\ Stages' /\ Exclusive' /\ RowLocks'
  BY <1>1, <1>3 DEF IInv, Domains, Stages, Exclusive, RowLocks, RowsApart
<1>6. Decided'
  BY <1>1, <1>2 DEF IInv, Decided, Dead, Vetoes
<1>7. ASSUME NEW x \in Tx PROVE Sound(x)'
  <2>1. Sound(x) /\ (Running(x) => req[x] \in Request)
    BY RequestsAssumption DEF IInv, Running
  <2>2. Existence(x)'
    <3>1. Creates(req[x]) /\ Running(x) => New(req[x]) \in Trade
      BY <2>1 DEF Creates, New, Request
    <3>2. OnTrade(req[x]) /\ Running(x) => req[x].trade \in Trade
      BY <2>1 DEF OnTrade, Request
    <3>. QED BY <1>1, <1>2, <1>3, <2>1, <3>1, <3>2 DEF Sound, Existence
  <2>3. Answer(x)'
    <3>1. OnTrade(req[x]) /\ Running(x) => req[x].trade \in Trade
      BY <2>1 DEF OnTrade, Request
    <3>. QED BY <1>1, <1>2, <1>3, <2>1, <3>1 DEF Sound, Answer, OnTrade
  <2>4. Justified(x)'
    BY <1>1, <1>2, <1>3, <2>1 DEF Sound, Justified
  <2>5. Moves(x)' /\ Owned(x)' /\ Fresh(x)'
    BY <1>1, <1>3, <2>1 DEF Sound, Moves, Owned, Fresh, Handover, PlayersIn, NoOwnerWrites
  <2>6. OwnTrade(x)' /\ Ballot(x)'
    BY <1>1, <1>3, <2>1 DEF Sound, OwnTrade, Ballot, Vetoes
  <2>. QED BY <2>2, <2>3, <2>4, <2>5, <2>6 DEF Sound
<1>. QED BY <1>4, <1>5, <1>6, <1>7 DEF IInv

-----------------------------------------------------------------------------
LEMMA NextInv == IInv /\ [Next]_vars => IInv'
<1>. SUFFICES ASSUME IInv, [Next]_vars PROVE IInv'
  OBVIOUS
<1>1. ASSUME NEW x \in Tx, Step(x) PROVE IInv'
  <2>1. CASE Lock(x)
    BY <2>1, LockStep
  <2>2. CASE Recheck(x)
    BY <2>2, RecheckStep
  <2>3. CASE CheckItems(x) \/ CheckSizes(x) \/ CheckFits(x) \/ Validate(x) \/ CountVetoes(x)
    BY <2>3, CheckStep
  <2>4. CASE Move(x)
    BY <2>4, MoveStep
  <2>5. CASE Update(x)
    BY <2>5, UpdateStep
  <2>6. CASE InsertTrade(x)
    BY <2>6, InsertTradeStep
  <2>7. CASE ReadBack(x)
    BY <2>7, ReadBackStep
  <2>8. CASE CastVote(x)
    BY <2>8, CastVoteStep
  <2>9. CASE Drop(x)
    BY <2>9, DropStep
  <2>10. CASE Add(x)
    BY <2>10, AddStep
  <2>11. CASE Invalidate(x)
    BY <2>11, InvalidateStep
  <2>12. CASE Commit(x)
    BY <2>12, CommitStep
  <2>. QED
    BY <1>1, <2>1, <2>2, <2>3, <2>4, <2>5, <2>6, <2>7, <2>8, <2>9, <2>10, <2>11, <2>12
       DEF Step
<1>2. ASSUME NEW x \in Tx, NEW o \in Requests, Begin(x, o) PROVE IInv'
  BY <1>2, BeginStep
<1>3. ASSUME NEW x \in Tx, Abort(x) PROVE IInv'
  BY <1>3, RollBackStep DEF Abort
<1>4. ASSUME NEW t \in Trade, Expire(t) PROVE IInv'
  BY <1>4, ExpireStep
<1>5. CASE UNCHANGED vars
  <2>. USE <1>5 DEF vars
  <2>1. \A x \in Tx : /\ Running(x)' <=> Running(x)
                      /\ Idle(x)' <=> Idle(x)
                      /\ Locked(x)' <=> Locked(x)
    BY DEF Running, Idle, Locked, NoStatusWrites, NoOwnerWrites
  <2>2. TypeOK' /\ Domains' /\ Stages' /\ Exclusive' /\ RowLocks' /\ Decided'
    BY <2>1 DEF IInv, TypeOK, Domains, Stages, Exclusive, RowLocks, RowsApart, Decided, Vetoes
  <2>3. \A x \in Tx : Sound(x)'
    BY SameIsSound DEF IInv
  <2>. QED BY <2>2, <2>3 DEF IInv
<1>. QED BY <1>1, <1>2, <1>3, <1>4, <1>5 DEF Next

LEMMA Invariance == Spec => []IInv
BY InitInv, NextInv, PTL DEF Spec

\* The tables and what transactions have written keep their types: every row a
\* request, a job or a waiver run writes is one the schema allows.
THEOREM TypesKept == Spec => []TypeOK
<1>1. IInv => TypeOK
  BY DEF IInv
<1>. QED BY <1>1, Invariance, PTL

\* A trade with as many vetoes as the league asks for is never executed,
\* whichever ballots, jobs and waiver runs were under way (voteTradeCore and
\* the review job of trades).
THEOREM VetoedNeverExecuted == Spec => []VetoStops
<1>1. IInv => VetoStops
  BY DEF IInv, Decided, VetoStops, Vetoes, Dead
<1>. QED BY <1>1, Invariance, PTL

-----------------------------------------------------------------------------
(* The refinement of TradeContract                                         *)

LEMMA PhaseTable ==
  ASSUME TypeOK, NEW t \in Trade
  PROVE  /\ Phase[t] = "absent" <=> status[t] = "none"
         /\ Phase[t] = "open" <=> status[t] \in Active
         /\ Phase[t] = "executed" <=> status[t] = "completed"
         /\ Phase[t] = "dead" <=> status[t] \in Dead
BY DEF TypeOK, Status, Phase, Active, Dead

LEMMA InitContract == Init => Contract!Init
<1>. SUFFICES ASSUME Init, NEW t \in Trade PROVE Phase[t] \in {"absent", "open"}
  BY DEF Contract!Init, Phase
<1>1. status[t] \in {"none", "pending"}
  BY StartAssumption DEF Init
<1>. QED BY <1>1 DEF Phase, Active

\* The commit of a completed trade is the one step that executes it.
LEMMA ExecuteStep ==
  ASSUME IInv, NEW x \in Tx, Commit(x), NEW t \in Trade, sw[x][t] = "completed"
  PROVE  Contract!Execute(t)
<1>1. /\ Running(x) /\ req[x] \in Request /\ ~Creates(req[x])
      /\ \A u \in Trade : \/ sw[x][u] = "same" /\ status'[u] = status[u]
                          \/ sw[x][u] # "same" /\ status'[u] = sw[x][u]
      /\ \A p \in Player : \/ ow[x][p] = "same" /\ owner'[p] = owner[p]
                           \/ ow[x][p] # "same" /\ owner'[p] = ow[x][p]
  BY CommitIsLast DEF Locked
<1>2. TypeOK /\ Sound(x) /\ TypeOK'
  BY CommitStep DEF IInv
<1>3. Executes(req[x]) /\ t = req[x].trade /\ status[t] \in Active
  BY <1>2 DEF Sound, Justified, Dead
<1>4. ow[x] = Handover(t) /\ \A i \in Items[t] : owner[i.player] = i.from
  BY <1>1, <1>2, <1>3 DEF Sound, Moves
<1>5. \A u \in Trade : u # t => status'[u] = status[u]
  BY <1>1, <1>2, <1>3 DEF Sound, OwnTrade, OnTrade, Executes
<1>6. status'[t] = "completed"
  BY <1>1
<1>7. Phase[t] = "open"
  BY <1>2, <1>3, PhaseTable
<1>8. Phase' = [Phase EXCEPT ![t] = "executed"]
  <2>1. Phase'[t] = "executed"
    BY <1>6 DEF Phase, Active
  <2>2. \A u \in Trade : u # t => Phase'[u] = Phase[u]
    BY <1>5 DEF Phase
  <2>3. DOMAIN Phase = Trade /\ Phase' = [u \in Trade |-> Phase'[u]]
    BY DEF Phase
  <2>4. [Phase EXCEPT ![t] = "executed"]
          = [u \in Trade |-> IF u = t THEN "executed" ELSE Phase[u]]
    BY <2>3
  <2>. QED BY <2>1, <2>2, <2>3, <2>4
<1>9. owner' = [p \in Player |-> IF \E i \in Items[t] : i.player = p
                                 THEN (CHOOSE i \in Items[t] : i.player = p).to
                                 ELSE owner[p]]
  <2>1. owner' = [p \in Player |-> owner'[p]]
    BY <1>2 DEF TypeOK
  <2>2. ASSUME NEW p \in Player, \E i \in Items[t] : i.player = p
        PROVE  owner'[p] = (CHOOSE i \in Items[t] : i.player = p).to
    <3>1. (CHOOSE i \in Items[t] : i.player = p) \in Item
      BY <2>2, ItemsAssumption
    <3>2. p \in PlayersIn(t)
      BY <2>2 DEF PlayersIn
    <3>3. ow[x][p] = (CHOOSE i \in Items[t] : i.player = p).to
      BY <1>4, <3>2 DEF Handover
    <3>. QED BY <1>1, <3>1, <3>3, MarkAssumption DEF Item
  <2>3. ASSUME NEW p \in Player, ~\E i \in Items[t] : i.player = p
        PROVE  owner'[p] = owner[p]
    <3>1. p \notin PlayersIn(t)
      BY <2>3 DEF PlayersIn
    <3>2. ow[x][p] = "same"
      BY <1>4, <3>1 DEF Handover
    <3>. QED BY <1>1, <3>2
  <2>. QED BY <2>1, <2>2, <2>3
<1>. QED BY <1>4, <1>7, <1>8, <1>9 DEF Contract!Execute

\* Any other commit leaves the trades as they are or lets open ones die.
LEMMA OutsideStep ==
  ASSUME IInv, NEW x \in Tx, Commit(x), \A t \in Trade : sw[x][t] # "completed"
  PROVE  Contract!Outside
<1>1. /\ ~Creates(req[x])
      /\ \A u \in Trade : \/ sw[x][u] = "same" /\ status'[u] = status[u]
                          \/ sw[x][u] # "same" /\ status'[u] = sw[x][u]
  BY CommitIsLast
<1>2. TypeOK /\ Sound(x) /\ TypeOK'
  BY CommitStep DEF IInv
<1>3. ASSUME NEW t \in Trade
      PROVE  Phase'[t] = Phase[t] \/ (Phase[t] = "open" /\ Phase'[t] = "dead")
  <2>1. CASE status'[t] = status[t]
    BY <2>1 DEF Phase
  <2>2. CASE status'[t] = "in_review" /\ status[t] = "pending"
    BY <2>2 DEF Phase, Active
  <2>3. CASE status'[t] \in Dead /\ status[t] \notin {"none", "completed"}
    BY <1>2, <2>3 DEF Phase, Active, Dead, TypeOK, Status
  <2>. QED BY <1>1, <1>2, <2>1, <2>2, <2>3 DEF Sound, Justified
<1>4. owner' = [p \in Player |-> owner'[p]]
  BY <1>2 DEF TypeOK
<1>5. Phase' = [t \in Trade |-> Phase'[t]]
  BY DEF Phase
<1>. QED BY <1>3, <1>4, <1>5 DEF Contract!Outside

LEMMA ExpiryIsOutside ==
  ASSUME IInv, NEW t \in Trade, Expire(t)
  PROVE  Contract!Outside
<1>1. /\ status[t] = "pending" /\ owner' = owner
      /\ status'[t] = "expired" /\ \A u \in Trade : u # t => status'[u] = status[u]
  BY DEF Expire, IInv, TypeOK
<1>2. \A u \in Trade : Phase'[u] = Phase[u] \/ (Phase[u] = "open" /\ Phase'[u] = "dead")
  <2>1. Phase[t] = "open" /\ Phase'[t] = "dead"
    BY <1>1 DEF Phase, Active
  <2>2. \A u \in Trade : u # t => Phase'[u] = Phase[u]
    BY <1>1 DEF Phase
  <2>. QED BY <2>1, <2>2
<1>3. owner' = [p \in Player |-> owner'[p]]
  BY <1>1 DEF IInv, TypeOK
<1>4. Phase' = [u \in Trade |-> Phase'[u]]
  BY DEF Phase
<1>. QED BY <1>2, <1>3, <1>4 DEF Contract!Outside

LEMMA NextContract == IInv /\ [Next]_vars => [Contract!Next]_<<Phase, owner>>
<1>. SUFFICES ASSUME IInv, [Next]_vars PROVE Contract!Next \/ UNCHANGED <<Phase, owner>>
  OBVIOUS
<1>1. ASSUME NEW x \in Tx, Commit(x) PROVE Contract!Next
  <2>1. CASE \E t \in Trade : sw[x][t] = "completed"
    BY <1>1, <2>1, ExecuteStep DEF Contract!Next
  <2>2. CASE \A t \in Trade : sw[x][t] # "completed"
    BY <1>1, <2>2, OutsideStep DEF Contract!Next
  <2>. QED BY <2>1, <2>2
<1>2. ASSUME NEW t \in Trade, Expire(t) PROVE Contract!Next
  BY <1>2, ExpiryIsOutside DEF Contract!Next
<1>3. ASSUME UNCHANGED <<status, owner>> PROVE UNCHANGED <<Phase, owner>>
  BY <1>3 DEF Phase
<1>4. ASSUME NEW x \in Tx, Step(x), ~Commit(x) PROVE UNCHANGED <<status, owner>>
  BY <1>4 DEF Step, Lock, Recheck, CheckItems, CheckSizes, CheckFits, Move, Update, Validate,
              InsertTrade, ReadBack, CastVote, CountVetoes, Drop, Add, Invalidate,
              Pass, Continue, RollBack
<1>5. ASSUME NEW x \in Tx, Abort(x) \/ \E o \in Requests : Begin(x, o)
      PROVE  UNCHANGED <<status, owner>>
  BY <1>5 DEF Abort, RollBack, Begin
<1>. QED BY <1>1, <1>2, <1>3, <1>4, <1>5 DEF Next, vars

\* The requests, jobs and waiver runs, statement by statement, implement
\* TradeContract: a trade is executed at most once, whole and in one step,
\* while it is open, and no trade that is dead or executed comes back.
THEOREM ContractKept == Spec => KeepsContract
<1>. QED BY InitContract, NextContract, Invariance, PTL DEF Spec, KeepsContract, Contract!Spec
=============================================================================
