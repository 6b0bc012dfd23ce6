-------------------------- MODULE RosterMovesProofs --------------------------
(***************************************************************************)
(* Ownership under different locks, for every set of transactions, rosters *)
(* and players: only a free-agent addition and a waiver claim can both end *)
(* up with a player (IInv); a trade that commits moves all its players and *)
(* nothing else, and keys stay unique (JInv on top of IInv).               *)
(***************************************************************************)
EXTENDS RosterMoves, FiniteSetTheorems, TLAPS

\* What a transaction of each kind may still have to run.
Rest(o) ==
  CASE o.kind = "add" ->
         {<<"wire", "owner", "size", "insert", "commit">>,
          <<"owner", "size", "insert", "commit">>,
          <<"size", "insert", "commit">>, <<"insert", "commit">>, <<"commit">>}
    [] o.kind = "drop" ->
         {<<"exists", "delete", "commit">>, <<"delete", "commit">>, <<"commit">>}
    [] o.kind = "swap" ->
         {<<"wire", "owner", "exists", "delete", "insert", "commit">>,
          <<"owner", "exists", "delete", "insert", "commit">>,
          <<"exists", "delete", "insert", "commit">>,
          <<"delete", "insert", "commit">>, <<"insert", "commit">>, <<"commit">>}
    [] o.kind = "waiver" ->
         {<<"snapshot", "owner", "size", "insert", "commit">>,
          <<"snapshot", "exists", "delete", "owner", "size", "insert", "commit">>,
          <<"exists", "delete", "owner", "size", "insert", "commit">>,
          <<"delete", "owner", "size", "insert", "commit">>,
          <<"owner", "size", "insert", "commit">>,
          <<"size", "insert", "commit">>, <<"insert", "commit">>, <<"commit">>}
    [] o.kind = "trade" ->
         {<<"items", "sizes", "move", "commit">>, <<"sizes", "move", "commit">>,
          <<"move", "commit">>, <<"commit">>}

\* It has found the player free and has not inserted him yet.
BeforeInsert ==
  {<<"size", "insert", "commit">>, <<"exists", "delete", "insert", "commit">>,
   <<"delete", "insert", "commit">>, <<"insert", "commit">>}
Cleared(t) == todo[t] \in BeforeInsert

Adds(o) == o.kind \in {"add", "swap", "waiver"}
ViaOf(o) == IF o.kind = "waiver" THEN "waiver" ELSE "free_agent"
NewRow(o) == [roster |-> o.roster, player |-> o.add, via |-> ViaOf(o)]
Other(via) == IF via = "waiver" THEN "free_agent" ELSE "waiver"

Idle(t) == req[t] = <<>> /\ todo[t] = <<>> /\ ins[t] = {} /\ del[t] = {}
Active(t) == req[t] \in Ops /\ req[t] # <<>> /\ todo[t] \in Rest(req[t])

Domains ==
  /\ req = [t \in Tx |-> req[t]] /\ todo = [t \in Tx |-> todo[t]]
  /\ ins = [t \in Tx |-> ins[t]] /\ del = [t \in Tx |-> del[t]]
Stages == \A t \in Tx : Idle(t) \/ Active(t)
\* What it has written and not committed.
Writes ==
  \A t \in Tx : Active(t) =>
    /\ todo[t] # <<"commit">> => ins[t] = {}
    /\ req[t].kind = "trade" => ins[t] = {Moved(t, x) : x \in del[t]}
    /\ req[t].kind = "drop" => ins[t] = {}
    /\ Adds(req[t]) => ins[t] \subseteq {NewRow(req[t])}
\* A trade locks rows of its players.
Matching ==
  \A t \in Tx : Active(t) /\ req[t].kind = "trade" =>
    \A x \in del[t] : \E i \in req[t].items : i.player = x.player
\* Rows are locked by one transaction, and stay there until it commits.
RowLocks ==
  /\ \A t \in Tx : del[t] \subseteq rows
  /\ \A t, u \in Tx : t # u => del[t] \cap del[u] = {}
Exclusive ==
  \A t, u \in Tx : t # u /\ Active(t) /\ Active(u) =>
    LocksOf(req[t]) \cap LocksOf(req[u]) = {}
\* After it found the player free, only the other kind can have added him.
StillFree ==
  \A t \in Tx : Active(t) /\ Adds(req[t]) /\ (Cleared(t) \/ ins[t] # {}) =>
    \A x \in rows \ del[t] : x.player = req[t].add => x.via = Other(ViaOf(req[t]))

IInv ==
  /\ rows \subseteq Row
  /\ Domains /\ Stages /\ Writes /\ Matching /\ RowLocks /\ Exclusive /\ StillFree
  /\ OwnersFromDifferentLocks

-----------------------------------------------------------------------------
\* Free agents share a lock, and so do waiver claims.
LEMMA SameKindSharesLock ==
  ASSUME NEW o \in Op, NEW p \in Op, Adds(o), Adds(p), ViaOf(o) = ViaOf(p)
  PROVE  LocksOf(o) \cap LocksOf(p) # {}
<1>1. CASE ViaOf(o) = "waiver"
  BY <1>1 DEF Adds, ViaOf, LocksOf
<1>2. CASE ViaOf(o) # "waiver"
  BY <1>2 DEF Adds, ViaOf, LocksOf
<1>. QED BY <1>1, <1>2

LEMMA NewRowIsRow ==
  ASSUME NEW o \in Op, Adds(o)
  PROVE  NewRow(o) \in Row /\ NewRow(o).via = ViaOf(o) /\ NewRow(o).player = o.add
BY DEF Op, Adds, NewRow, Row, Via, ViaOf

\* executeTrade moves a row to a roster; the player and his history stay.
LEMMA MovedIsRow ==
  ASSUME NEW t \in Tx, req[t] \in Op, req[t].kind = "trade",
         NEW x \in Row, \E i \in req[t].items : i.player = x.player
  PROVE  Moved(t, x) \in Row /\ Moved(t, x).player = x.player /\ Moved(t, x).via = x.via
<1>1. req[t].items \subseteq Item
  BY DEF Op
<1>2. (CHOOSE i \in req[t].items : i.player = x.player) \in Item
  BY <1>1
<1>. QED BY <1>2 DEF Moved, Row, Item

LEMMA EmptyIsNoOp == <<>> \notin Op
BY DEF Op

\* What follows each statement.
LEMMA TailTable ==
  /\ Tail(<<"wire", "owner", "size", "insert", "commit">>)
       = <<"owner", "size", "insert", "commit">>
  /\ Tail(<<"owner", "size", "insert", "commit">>) = <<"size", "insert", "commit">>
  /\ Tail(<<"size", "insert", "commit">>) = <<"insert", "commit">>
  /\ Tail(<<"insert", "commit">>) = <<"commit">>
  /\ Tail(<<"exists", "delete", "commit">>) = <<"delete", "commit">>
  /\ Tail(<<"delete", "commit">>) = <<"commit">>
  /\ Tail(<<"wire", "owner", "exists", "delete", "insert", "commit">>)
       = <<"owner", "exists", "delete", "insert", "commit">>
  /\ Tail(<<"owner", "exists", "delete", "insert", "commit">>)
       = <<"exists", "delete", "insert", "commit">>
  /\ Tail(<<"exists", "delete", "insert", "commit">>) = <<"delete", "insert", "commit">>
  /\ Tail(<<"delete", "insert", "commit">>) = <<"insert", "commit">>
  /\ Tail(<<"snapshot", "owner", "size", "insert", "commit">>)
       = <<"owner", "size", "insert", "commit">>
  /\ Tail(<<"snapshot", "exists", "delete", "owner", "size", "insert", "commit">>)
       = <<"exists", "delete", "owner", "size", "insert", "commit">>
  /\ Tail(<<"exists", "delete", "owner", "size", "insert", "commit">>)
       = <<"delete", "owner", "size", "insert", "commit">>
  /\ Tail(<<"delete", "owner", "size", "insert", "commit">>)
       = <<"owner", "size", "insert", "commit">>
  /\ Tail(<<"items", "sizes", "move", "commit">>) = <<"sizes", "move", "commit">>
  /\ Tail(<<"sizes", "move", "commit">>) = <<"move", "commit">>
  /\ Tail(<<"move", "commit">>) = <<"commit">>
OBVIOUS

LEMMA TailOfRest ==
  ASSUME NEW o \in Op, NEW s \in Rest(o), s # <<"commit">>
  PROVE  /\ Tail(s) \in Rest(o)
         /\ Tail(s) \in BeforeInsert => s \in BeforeInsert \/ Head(s) = "owner"
         /\ s # <<>> /\ Head(s) # "commit"
<1>1. CASE o.kind = "add"
  <2>1. \/ /\ s = <<"wire", "owner", "size", "insert", "commit">>
           /\ Tail(s) = <<"owner", "size", "insert", "commit">>
        \/ s = <<"owner", "size", "insert", "commit">> /\ Tail(s) = <<"size", "insert", "commit">>
        \/ s = <<"size", "insert", "commit">> /\ Tail(s) = <<"insert", "commit">>
        \/ s = <<"insert", "commit">> /\ Tail(s) = <<"commit">>
    BY <1>1, TailTable DEF Rest
  <2>2. Tail(s) \in Rest(o)
    BY <1>1, <2>1 DEF Rest
  <2>3. Tail(s) \in BeforeInsert => s \in BeforeInsert \/ Head(s) = "owner"
    BY <2>1 DEF BeforeInsert
  <2>4. s # <<>> /\ Head(s) # "commit"
    BY <2>1
  <2>. QED BY <2>2, <2>3, <2>4
<1>2. CASE o.kind = "drop"
  <2>1. \/ s = <<"exists", "delete", "commit">> /\ Tail(s) = <<"delete", "commit">>
        \/ s = <<"delete", "commit">> /\ Tail(s) = <<"commit">>
    BY <1>2, TailTable DEF Rest
  <2>2. Tail(s) \in Rest(o)
    BY <1>2, <2>1 DEF Rest
  <2>3. Tail(s) \in BeforeInsert => s \in BeforeInsert \/ Head(s) = "owner"
    BY <2>1 DEF BeforeInsert
  <2>4. s # <<>> /\ Head(s) # "commit"
    BY <2>1
  <2>. QED BY <2>2, <2>3, <2>4
<1>3. CASE o.kind = "swap"
  <2>1. \/ /\ s = <<"wire", "owner", "exists", "delete", "insert", "commit">>
           /\ Tail(s) = <<"owner", "exists", "delete", "insert", "commit">>
        \/ /\ s = <<"owner", "exists", "delete", "insert", "commit">>
           /\ Tail(s) = <<"exists", "delete", "insert", "commit">>
        \/ /\ s = <<"exists", "delete", "insert", "commit">>
           /\ Tail(s) = <<"delete", "insert", "commit">>
        \/ s = <<"delete", "insert", "commit">> /\ Tail(s) = <<"insert", "commit">>
        \/ s = <<"insert", "commit">> /\ Tail(s) = <<"commit">>
    BY <1>3, TailTable DEF Rest
  <2>2. Tail(s) \in Rest(o)
    BY <1>3, <2>1 DEF Rest
  <2>3. Tail(s) \in BeforeInsert => s \in BeforeInsert \/ Head(s) = "owner"
    BY <2>1 DEF BeforeInsert
  <2>4. s # <<>> /\ Head(s) # "commit"
    BY <2>1
  <2>. QED BY <2>2, <2>3, <2>4
<1>4. CASE o.kind = "waiver"
  <2>1. \/ /\ s = <<"snapshot", "owner", "size", "insert", "commit">>
           /\ Tail(s) = <<"owner", "size", "insert", "commit">>
        \/ /\ s = <<"snapshot", "exists", "delete", "owner", "size", "insert", "commit">>
           /\ Tail(s) = <<"exists", "delete", "owner", "size", "insert", "commit">>
        \/ /\ s = <<"exists", "delete", "owner", "size", "insert", "commit">>
           /\ Tail(s) = <<"delete", "owner", "size", "insert", "commit">>
        \/ /\ s = <<"delete", "owner", "size", "insert", "commit">>
           /\ Tail(s) = <<"owner", "size", "insert", "commit">>
        \/ s = <<"owner", "size", "insert", "commit">> /\ Tail(s) = <<"size", "insert", "commit">>
        \/ s = <<"size", "insert", "commit">> /\ Tail(s) = <<"insert", "commit">>
        \/ s = <<"insert", "commit">> /\ Tail(s) = <<"commit">>
    BY <1>4, TailTable DEF Rest
  <2>2. Tail(s) \in Rest(o)
    BY <1>4, <2>1 DEF Rest
  <2>3. Tail(s) \in BeforeInsert => s \in BeforeInsert \/ Head(s) = "owner"
    BY <2>1 DEF BeforeInsert
  <2>4. s # <<>> /\ Head(s) # "commit"
    BY <2>1
  <2>. QED BY <2>2, <2>3, <2>4
<1>5. CASE o.kind = "trade"
  <2>1. \/ s = <<"items", "sizes", "move", "commit">> /\ Tail(s) = <<"sizes", "move", "commit">>
        \/ s = <<"sizes", "move", "commit">> /\ Tail(s) = <<"move", "commit">>
        \/ s = <<"move", "commit">> /\ Tail(s) = <<"commit">>
    BY <1>5, TailTable DEF Rest
  <2>2. Tail(s) \in Rest(o)
    BY <1>5, <2>1 DEF Rest
  <2>3. Tail(s) \in BeforeInsert => s \in BeforeInsert \/ Head(s) = "owner"
    BY <2>1 DEF BeforeInsert
  <2>4. s # <<>> /\ Head(s) # "commit"
    BY <2>1
  <2>. QED BY <2>2, <2>3, <2>4
<1>. QED BY <1>1, <1>2, <1>3, <1>4, <1>5 DEF Op

LEMMA InitInv == Init => IInv
<1>. SUFFICES ASSUME Init PROVE IInv
  OBVIOUS
<1>1. \A t \in Tx : Idle(t) /\ ~Active(t)
  BY DEF Init, Idle, Active
<1>2. rows \subseteq Row
  BY RowsAssumption DEF Init, Row, Via
<1>3. OwnersFromDifferentLocks
  BY RowsAssumption DEF Init, OwnersFromDifferentLocks
<1>4. Domains
  BY DEF Init, Domains
<1>. QED BY <1>1, <1>2, <1>3, <1>4 DEF IInv, Stages, Writes, Matching, RowLocks, Exclusive, StillFree, Idle

-----------------------------------------------------------------------------
(* Steps that end a transaction without its writes, and steps that only go  *)
(* to the next statement.                                                  *)

LEMMA RollBackStep ==
  ASSUME IInv, NEW t \in Tx, RollBack(t)
  PROVE  IInv'
<1>. USE DEF IInv, RollBack, Finish
<1>1. Domains'
  BY DEF Domains
<1>2. \A u \in Tx : u # t => UNCHANGED <<req[u], todo[u], ins[u], del[u]>>
  BY DEF Domains
<1>3. Idle(t)' /\ ~Active(t)' /\ del'[t] = {}
  BY EmptyIsNoOp DEF Domains, Idle, Active
<1>4. \A u \in Tx : u # t => /\ Idle(u)' <=> Idle(u)
                             /\ Active(u)' <=> Active(u)
                             /\ Cleared(u)' <=> Cleared(u)
  BY <1>2 DEF Idle, Active, Cleared
<1>5. Stages'
  BY <1>3, <1>4 DEF Stages
<1>6. Writes'
  <2>. SUFFICES ASSUME NEW u \in Tx, u # t, Active(u)
                PROVE  /\ todo'[u] # <<"commit">> => ins'[u] = {}
                       /\ req'[u].kind = "trade" => ins'[u] = {Moved(u, x)' : x \in del'[u]}
                       /\ req'[u].kind = "drop" => ins'[u] = {}
                       /\ Adds(req'[u]) => ins'[u] \subseteq {NewRow(req'[u])}
    BY <1>3, <1>4 DEF Writes
  <2>1. \A x : Moved(u, x)' = Moved(u, x)
    BY <1>2 DEF Moved
  <2>2. {Moved(u, x)' : x \in del'[u]} = {Moved(u, x) : x \in del[u]}
    BY <1>2, <2>1
  <2>. QED BY <1>2, <2>2 DEF Writes
<1>7. RowLocks'
  BY <1>2, <1>3 DEF RowLocks
<1>8. Exclusive'
  BY <1>2, <1>3, <1>4 DEF Exclusive
<1>9. StillFree'
  BY <1>2, <1>3, <1>4 DEF StillFree
<1>10. OwnersFromDifferentLocks'
  BY DEF OwnersFromDifferentLocks
<1>11. Matching'
  BY <1>2, <1>3, <1>4 DEF Matching
<1>. QED BY <1>1, <1>5, <1>6, <1>7, <1>8, <1>9, <1>10, <1>11

\* The statement is done: what is left is s, and nothing is written.
LEMMA PassStep ==
  ASSUME IInv, NEW t \in Tx, Active(t), NEW s,
         s \in Rest(req[t]), todo[t] # <<"commit">>,
         todo' = [todo EXCEPT ![t] = s],
         UNCHANGED <<rows, wire, req, ins, del, on, off>>,
         s \in BeforeInsert /\ Adds(req[t])
           => Cleared(t) \/ \A x \in rows \ del[t] : x.player # req[t].add
  PROVE  IInv'
<1>. USE DEF IInv
<1>1. Domains'
  BY DEF Domains
<1>2. todo'[t] = s /\ \A u \in Tx : u # t => todo'[u] = todo[u]
  BY DEF Domains
<1>3. Active(t)' /\ \A u \in Tx : u # t => /\ Idle(u)' <=> Idle(u)
                                           /\ Active(u)' <=> Active(u)
                                           /\ Cleared(u)' <=> Cleared(u)
  BY <1>2 DEF Idle, Active, Cleared
<1>4. Stages'
  BY <1>3 DEF Stages
<1>5. ins[t] = {}
  BY DEF Writes
<1>6. Writes'
  <2>1. req[t].kind = "trade" => {Moved(t, x) : x \in del[t]} = {}
    BY <1>5 DEF Writes
  <2>. QED BY <1>2, <1>3, <1>5, <2>1 DEF Writes, Moved
<1>7. RowLocks'
  BY DEF RowLocks
<1>8. Exclusive'
  BY <1>3 DEF Exclusive
<1>9. StillFree'
  BY <1>2, <1>3, <1>5 DEF StillFree, Cleared
<1>10. OwnersFromDifferentLocks'
  BY DEF OwnersFromDifferentLocks
<1>11. Matching'
  BY <1>3 DEF Matching
<1>. QED BY <1>1, <1>4, <1>6, <1>7, <1>8, <1>9, <1>10, <1>11

-----------------------------------------------------------------------------
(* The statements                                                          *)

LEMMA BeginStep ==
  ASSUME IInv, NEW t \in Tx, NEW o \in Ops, Begin(t, o)
  PROVE  IInv'
<1>. USE DEF IInv, Begin
<1>1. Domains'
  BY DEF Domains
<1>2. /\ req'[t] = o /\ todo'[t] = Plan(o)
      /\ \A u \in Tx : u # t => UNCHANGED <<req[u], todo[u]>>
  BY DEF Domains
<1>3. Idle(t) /\ ~Active(t)
  BY DEF Stages, Active
<1>4. o \in Op
  BY OpsAssumption
<1>5. Plan(o) \in Rest(o) /\ ~Cleared(t)'
  BY <1>2, <1>4 DEF Op, Plan, Rest, Cleared, BeforeInsert
<1>6. Active(t)' /\ \A u \in Tx : u # t => /\ Idle(u)' <=> Idle(u)
                                           /\ Active(u)' <=> Active(u)
                                           /\ Cleared(u)' <=> Cleared(u)
  BY <1>2, <1>4, <1>5, EmptyIsNoOp DEF Idle, Active, Cleared
<1>7. Stages'
  BY <1>6 DEF Stages
<1>8. Writes'
  BY <1>2, <1>3, <1>6 DEF Writes, Moved, Idle
<1>9. RowLocks'
  BY DEF RowLocks
<1>10. Exclusive'
  BY <1>2, <1>6 DEF Exclusive, Active
<1>11. StillFree'
  BY <1>2, <1>3, <1>5, <1>6 DEF StillFree, Idle
<1>12. OwnersFromDifferentLocks'
  BY DEF OwnersFromDifferentLocks
<1>13. Matching'
  BY <1>2, <1>3, <1>6 DEF Matching, Idle
<1>. QED BY <1>1, <1>7, <1>8, <1>9, <1>10, <1>11, <1>12, <1>13

\* The checks that pass go to the next statement.
LEMMA CheckStep ==
  ASSUME IInv, NEW t \in Tx,
         CheckWire(t) \/ Snapshot(t) \/ CheckOwner(t) \/ CheckExists(t) \/ CheckSize(t)
           \/ CheckItems(t) \/ CheckSizes(t)
  PROVE  IInv'
<1>. DEFINE head == Head(todo[t])
<1>1. todo[t] # <<>> /\ head \in {"wire", "snapshot", "owner", "exists", "size", "items", "sizes"}
  BY DEF At, CheckWire, Snapshot, CheckOwner, CheckExists, CheckSize, CheckItems, CheckSizes
<1>2. Active(t) /\ req[t] \in Op /\ todo[t] \in Rest(req[t]) /\ todo[t] # <<"commit">>
  BY <1>1, OpsAssumption DEF IInv, Stages, Idle, Active
<1>3. /\ Tail(todo[t]) \in Rest(req[t])
      /\ Tail(todo[t]) \in BeforeInsert => todo[t] \in BeforeInsert \/ head = "owner"
  BY <1>2, TailOfRest
<1>4. CASE RollBack(t)
  BY <1>4, RollBackStep
<1>5. CASE RefuseClaim(t) /\ req[t].kind = "waiver"
  <2>1. <<"commit">> \in Rest(req[t]) /\ <<"commit">> \notin BeforeInsert
    BY <1>5 DEF Rest, BeforeInsert
  <2>. QED BY <1>2, <1>5, <2>1, PassStep DEF RefuseClaim
<1>6. CASE Pass(t) /\ (head = "owner" => Owners(t, req[t].add) = {})
  <2>1. head = "owner" => \A x \in rows \ del[t] : x.player # req[t].add
    BY <1>6 DEF Owners, Seen
  <2>. QED BY <1>2, <1>3, <1>6, <2>1, PassStep DEF Pass, Cleared
<1>7. CASE /\ head = "exists" /\ req[t].kind = "waiver"
           /\ todo' = [todo EXCEPT ![t] = Tail(Tail(@))]
           /\ UNCHANGED <<rows, wire, req, ins, del, on, off>>
  <2>1. todo[t] = <<"exists", "delete", "owner", "size", "insert", "commit">>
    BY <1>2, <1>7 DEF Rest
  <2>2. /\ Tail(Tail(todo[t])) = <<"owner", "size", "insert", "commit">>
        /\ <<"owner", "size", "insert", "commit">> \in Rest(req[t]) \ BeforeInsert
    BY <1>7, <2>1 DEF Rest, BeforeInsert
  <2>. QED BY <1>2, <1>7, <2>2, PassStep
<1>8. CASE CheckWire(t)
  BY <1>4, <1>6, <1>8 DEF CheckWire, At
<1>9. CASE Snapshot(t)
  <2>1. req[t].kind = "waiver"
    BY <1>2, <1>9 DEF Snapshot, At, Rest, Op
  <2>. QED BY <1>5, <1>6, <1>9, <2>1 DEF Snapshot, At
<1>10. CASE CheckOwner(t)
  BY <1>4, <1>5, <1>6, <1>10 DEF CheckOwner, Refuse, At
<1>11. CASE CheckExists(t)
  BY <1>4, <1>6, <1>7, <1>11 DEF CheckExists, At
<1>12. CASE CheckSize(t)
  BY <1>4, <1>5, <1>6, <1>12 DEF CheckSize, Refuse, At
<1>13. CASE CheckItems(t)
  BY <1>4, <1>6, <1>13 DEF CheckItems, At
<1>14. CASE CheckSizes(t)
  BY <1>4, <1>6, <1>14 DEF CheckSizes, At
<1>. QED BY <1>8, <1>9, <1>10, <1>11, <1>12, <1>13, <1>14

\* A transaction in the middle of its statements.
LEMMA AtIsActive ==
  ASSUME IInv, NEW t \in Tx, NEW s, At(t, s)
  PROVE  Active(t) /\ req[t] \in Op /\ todo[t] \in Rest(req[t])
BY OpsAssumption DEF IInv, Stages, Idle, Active, At

LEMMA DeleteStep ==
  ASSUME IInv, NEW t \in Tx, Delete(t)
  PROVE  IInv'
<1>. USE DEF IInv
<1>. DEFINE hit == {x \in rows : x.roster = req[t].roster /\ x.player = req[t].drop}
<1>1. Active(t) /\ req[t] \in Op /\ todo[t] \in Rest(req[t]) /\ todo[t] # <<"commit">>
      /\ Head(todo[t]) = "delete"
  BY AtIsActive DEF Delete, At
<1>2. /\ Tail(todo[t]) \in Rest(req[t])
      /\ Tail(todo[t]) \in BeforeInsert => todo[t] \in BeforeInsert
  BY <1>1, TailOfRest
<1>3. req[t].kind # "trade"
  BY <1>1 DEF Rest
<1>4. Domains'
  BY DEF Delete, Domains
<1>5. /\ todo'[t] = Tail(todo[t]) /\ del'[t] = del[t] \cup hit
      /\ \A u \in Tx : u # t => UNCHANGED <<todo[u], del[u]>>
      /\ UNCHANGED <<rows, req, ins>> /\ ~Locked(t, hit)
  BY DEF Delete, Domains
<1>6. /\ Active(t)' /\ (Cleared(t)' => Cleared(t))
      /\ \A u \in Tx : u # t => /\ Idle(u)' <=> Idle(u)
                                /\ Active(u)' <=> Active(u)
                                /\ Cleared(u)' <=> Cleared(u)
  BY <1>1, <1>2, <1>5 DEF Idle, Active, Cleared
<1>7. Stages'
  BY <1>6 DEF Stages
<1>8. Writes'
  <2>. SUFFICES ASSUME NEW u \in Tx, Active(u)'
                PROVE  /\ todo'[u] # <<"commit">> => ins[u] = {}
                       /\ req[u].kind = "trade" => ins[u] = {Moved(u, x) : x \in del'[u]}
                       /\ req[u].kind = "drop" => ins[u] = {}
                       /\ Adds(req[u]) => ins[u] \subseteq {NewRow(req[u])}
    BY <1>5 DEF Writes, Moved
  <2>1. CASE u = t
    BY <1>1, <1>3, <2>1 DEF Writes
  <2>2. CASE u # t
    BY <1>5, <1>6, <2>2 DEF Writes
  <2>. QED BY <2>1, <2>2
<1>9. RowLocks'
  <2>1. \A u \in Tx : u # t => hit \cap del[u] = {}
    BY <1>5 DEF Locked
  <2>. QED BY <1>5, <2>1 DEF RowLocks
<1>10. Exclusive'
  BY <1>1, <1>5, <1>6 DEF Exclusive
<1>11. StillFree'
  BY <1>1, <1>5, <1>6 DEF StillFree
<1>12. OwnersFromDifferentLocks'
  BY <1>5 DEF OwnersFromDifferentLocks
<1>13. Matching'
  BY <1>3, <1>5, <1>6 DEF Matching
<1>. QED BY <1>4, <1>5, <1>7, <1>8, <1>9, <1>10, <1>11, <1>12, <1>13

\* The new row is written where Cleared says that nobody of the kind is.
LEMMA InsertStep ==
  ASSUME IInv, NEW t \in Tx, Insert(t)
  PROVE  IInv'
<1>. USE DEF IInv
<1>1. Active(t) /\ req[t] \in Op /\ todo[t] \in Rest(req[t]) /\ Head(todo[t]) = "insert"
  BY AtIsActive DEF Insert, At
<1>2. todo[t] = <<"insert", "commit">> /\ Adds(req[t])
  BY <1>1 DEF Rest, Adds, Op
<1>3. CASE RollBack(t)
  BY <1>3, RollBackStep
<1>4. CASE /\ ins' = [ins EXCEPT ![t] = @ \cup {NewRow(req[t])}]
           /\ todo' = [todo EXCEPT ![t] = Tail(@)]
           /\ UNCHANGED <<rows, wire, req, del>>
  <2>1. ins[t] = {} /\ Tail(todo[t]) = <<"commit">>
    BY <1>1, <1>2 DEF Writes
  <2>2. /\ todo'[t] = <<"commit">> /\ ins'[t] = {NewRow(req[t])}
        /\ \A u \in Tx : u # t => UNCHANGED <<todo[u], ins[u]>>
    BY <1>4, <2>1 DEF Domains
  <2>3. Domains'
    BY <1>4 DEF Domains
  <2>4. <<"commit">> \in Rest(req[t])
    BY <1>1, <1>2 DEF Rest, Adds
  <2>5. Active(t)' /\ \A u \in Tx : u # t => /\ Idle(u)' <=> Idle(u)
                                             /\ Active(u)' <=> Active(u)
                                             /\ Cleared(u)' <=> Cleared(u)
    BY <1>1, <1>4, <2>2, <2>4 DEF Idle, Active, Cleared
  <2>6. Stages'
    BY <2>5 DEF Stages
  <2>7. Writes'
    <3>1. req[t].kind \notin {"trade", "drop"}
      BY <1>2 DEF Adds
    <3>2. \A u \in Tx : {Moved(u, x)' : x \in del'[u]} = {Moved(u, x) : x \in del[u]}
      BY <1>4 DEF Moved
    <3>3. ASSUME NEW u \in Tx, u # t, Active(u)
          PROVE  /\ todo'[u] # <<"commit">> => ins'[u] = {}
                 /\ req[u].kind = "trade" => ins'[u] = {Moved(u, x)' : x \in del'[u]}
                 /\ req[u].kind = "drop" => ins'[u] = {}
                 /\ Adds(req[u]) => ins'[u] \subseteq {NewRow(req[u])}
      BY <2>2, <3>2, <3>3 DEF Writes
    <3>. QED BY <1>4, <2>2, <2>5, <3>1, <3>3 DEF Writes
  <2>8. RowLocks'
    BY <1>4 DEF RowLocks
  <2>9. Exclusive'
    BY <1>1, <1>4, <2>5 DEF Exclusive
  <2>10. StillFree'
    <3>1. Cleared(t)
      BY <1>2 DEF Cleared, BeforeInsert
    <3>. QED BY <1>1, <1>4, <2>2, <2>5, <3>1 DEF StillFree
  <2>11. OwnersFromDifferentLocks'
    BY <1>4 DEF OwnersFromDifferentLocks
  <2>12. Matching'
    BY <1>1, <1>4, <2>5 DEF Matching
  <2>. QED BY <1>4, <2>3, <2>6, <2>7, <2>8, <2>9, <2>10, <2>11, <2>12
<1>. QED BY <1>3, <1>4 DEF Insert, NewRow, ViaOf

\* Every row moves with the row it came from locked.
LEMMA MoveStep ==
  ASSUME IInv, NEW t \in Tx, Move(t)
  PROVE  IInv'
<1>. USE DEF IInv
<1>1. Active(t) /\ req[t] \in Op /\ todo[t] \in Rest(req[t]) /\ Head(todo[t]) = "move"
  BY AtIsActive DEF Move, At
<1>2. todo[t] = <<"move", "commit">> /\ req[t].kind = "trade"
  BY <1>1 DEF Rest, Op
<1>3. CASE RollBack(t)
  BY <1>3, RollBackStep
<1>4. CASE /\ del' = [del EXCEPT ![t] = Matched(t)]
           /\ ins' = [ins EXCEPT ![t] = {Moved(t, x) : x \in Matched(t)}]
           /\ todo' = [todo EXCEPT ![t] = Tail(@)]
           /\ UNCHANGED <<rows, wire, req, on, off>>
           /\ ~Locked(t, Matched(t))
  <2>1. Tail(todo[t]) = <<"commit">> /\ <<"commit">> \in Rest(req[t])
    BY <1>2 DEF Rest
  <2>2. /\ todo'[t] = <<"commit">>
        /\ del'[t] = Matched(t) /\ ins'[t] = {Moved(t, x) : x \in Matched(t)}
        /\ \A u \in Tx : u # t => UNCHANGED <<todo[u], ins[u], del[u]>>
    BY <1>4, <2>1 DEF Domains
  <2>3. Domains'
    BY <1>4 DEF Domains
  <2>4. Active(t)' /\ \A u \in Tx : u # t => /\ Idle(u)' <=> Idle(u)
                                             /\ Active(u)' <=> Active(u)
                                             /\ Cleared(u)' <=> Cleared(u)
    BY <1>1, <1>4, <2>1, <2>2 DEF Idle, Active, Cleared
  <2>5. Stages'
    BY <2>4 DEF Stages
  <2>6. Writes'
    <3>. SUFFICES ASSUME NEW u \in Tx, Active(u)'
                  PROVE  /\ todo'[u] # <<"commit">> => ins'[u] = {}
                         /\ req[u].kind = "trade" => ins'[u] = {Moved(u, x) : x \in del'[u]}
                         /\ req[u].kind = "drop" => ins'[u] = {}
                         /\ Adds(req[u]) => ins'[u] \subseteq {NewRow(req[u])}
      <4>1. \A u \in Tx : {Moved(u, x)' : x \in del'[u]} = {Moved(u, x) : x \in del'[u]}
        BY <1>4 DEF Moved
      <4>. QED BY <1>4, <4>1 DEF Writes
    <3>1. CASE u = t
      BY <1>2, <2>2, <3>1 DEF Matched, Adds
    <3>2. CASE u # t
      BY <2>2, <2>4, <3>2 DEF Writes
    <3>. QED BY <3>1, <3>2
  <2>7. RowLocks'
    BY <1>4, <2>2 DEF RowLocks, Locked, Matched
  <2>8. Exclusive'
    BY <1>1, <1>4, <2>4 DEF Exclusive
  <2>9. StillFree'
    BY <1>2, <1>4, <2>2, <2>4 DEF StillFree, Adds
  <2>10. OwnersFromDifferentLocks'
    BY <1>4 DEF OwnersFromDifferentLocks
  <2>11. Matching'
    BY <1>4, <2>2, <2>4 DEF Matching, Matched
  <2>. QED BY <1>4, <2>3, <2>5, <2>6, <2>7, <2>8, <2>9, <2>10, <2>11
<1>. QED BY <1>3, <1>4 DEF Move

-----------------------------------------------------------------------------
(* COMMIT                                                                  *)

\* A row that a commit brings: an addition, which only the other kind can
\* have made too, or a row that has moved with its player and history.
LEMMA CommittedRow ==
  ASSUME IInv, NEW t \in Tx, Active(t), NEW y \in ins[t]
  PROVE  \/ Adds(req[t]) /\ y = NewRow(req[t])
         \/ /\ req[t].kind = "trade"
            /\ \E x \in del[t] : /\ y = Moved(t, x) /\ x \in rows
                                 /\ y.player = x.player /\ y.via = x.via
            /\ y \in Row
<1>. USE DEF IInv
<1>1. req[t] \in Op
  BY OpsAssumption DEF Active
<1>2. CASE req[t].kind = "trade"
  <2>1. PICK x \in del[t] : y = Moved(t, x)
    BY <1>2 DEF Writes
  <2>2. x \in rows /\ x \in Row
    BY DEF RowLocks
  <2>3. \E i \in req[t].items : i.player = x.player
    BY <1>2 DEF Matching
  <2>. QED BY <1>1, <1>2, <2>1, <2>2, <2>3, MovedIsRow
<1>3. CASE req[t].kind # "trade"
  BY <1>1, <1>3 DEF Writes, Adds, Op
<1>. QED BY <1>2, <1>3

\* Who has been added while t looked is of the other kind, so that t and its
\* own addition may both own him, but nobody else.
LEMMA CommitKeepsOwners ==
  ASSUME IInv, NEW t \in Tx, Active(t), todo[t] = <<"commit">>,
         rows' = (rows \ del[t]) \cup ins[t]
  PROVE  rows' \subseteq Row /\ OwnersFromDifferentLocks'
<1>. USE DEF IInv
<1>1. req[t] \in Op
  BY OpsAssumption DEF Active
<1>2. CASE Adds(req[t])
  <2>1. ins[t] \subseteq {NewRow(req[t])}
    BY <1>2 DEF Writes
  <2>2. /\ NewRow(req[t]) \in Row /\ NewRow(req[t]).via = ViaOf(req[t])
        /\ NewRow(req[t]).player = req[t].add
    BY <1>1, <1>2, NewRowIsRow
  <2>3. \A x \in rows \ del[t] : NewRow(req[t]) \in ins[t] /\ x.player = req[t].add
                                   => {x.via, ViaOf(req[t])} = {"free_agent", "waiver"}
    BY <1>2 DEF StillFree, Other, ViaOf
  <2>. QED BY <2>1, <2>2, <2>3 DEF OwnersFromDifferentLocks
<1>3. CASE ~Adds(req[t])
  <2>1. \A y \in ins[t] : \E x \in del[t] : /\ y = Moved(t, x) /\ x \in rows /\ y \in Row
                                            /\ y.player = x.player /\ y.via = x.via
    BY <1>3, CommittedRow
  <2>2. rows' \subseteq Row
    BY <2>1
  <2>. DEFINE From(y, a) == /\ \/ y = a /\ a \notin del[t]
                               \/ a \in del[t] /\ y = Moved(t, a)
                            /\ y.player = a.player /\ y.via = a.via
  <2>3. ASSUME NEW y \in rows' PROVE \E a \in rows : From(y, a)
    <3>1. CASE y \in ins[t]
      BY <2>1, <3>1
    <3>2. CASE y \in rows \ del[t]
      BY <3>2
    <3>. QED BY <3>1, <3>2
  <2>4. ASSUME NEW x \in rows', NEW y \in rows', x.player = y.player, x # y
        PROVE  {x.via, y.via} = {"free_agent", "waiver"}
    <3>1. PICK a \in rows : From(x, a)
      BY <2>3
    <3>2. PICK b \in rows : From(y, b)
      BY <2>3
    <3>3. a # b
      BY <2>4, <3>1, <3>2
    <3>4. a.player = b.player /\ a.via = x.via /\ b.via = y.via
      BY <2>4, <3>1, <3>2
    <3>5. {a.via, b.via} = {"free_agent", "waiver"}
      BY <3>3, <3>4 DEF OwnersFromDifferentLocks
    <3>. QED BY <3>4, <3>5
  <2>. QED BY <2>2, <2>4 DEF OwnersFromDifferentLocks
<1>. QED BY <1>2, <1>3

\* No other transaction that has found its player free sees a row of its own
\* kind appear.
LEMMA CommitKeepsFree ==
  ASSUME IInv, NEW t \in Tx, Active(t), todo[t] = <<"commit">>,
         rows' = (rows \ del[t]) \cup ins[t],
         NEW u \in Tx, u # t, Active(u), Adds(req[u]), Cleared(u) \/ ins[u] # {},
         NEW x \in rows' \ del[u], x.player = req[u].add
  PROVE  x.via = Other(ViaOf(req[u]))
<1>. USE DEF IInv
<1>1. req[t] \in Op /\ req[u] \in Op
  BY OpsAssumption DEF Active
<1>2. CASE x \in rows
  BY <1>2 DEF StillFree
<1>3. CASE x \in ins[t] /\ Adds(req[t])
  <2>1. x = NewRow(req[t]) /\ x.via = ViaOf(req[t])
    BY <1>1, <1>3, CommittedRow, NewRowIsRow DEF Adds
  <2>2. ViaOf(req[t]) # ViaOf(req[u])
    BY <1>1, <1>3, SameKindSharesLock DEF Exclusive
  <2>. QED BY <2>1, <2>2 DEF ViaOf, Other
<1>4. CASE x \in ins[t] /\ ~Adds(req[t])
  <2>1. PICK a \in del[t] : a \in rows /\ x.player = a.player /\ x.via = a.via
    BY <1>4, CommittedRow
  <2>2. a \notin del[u]
    BY DEF RowLocks
  <2>. QED BY <2>1, <2>2 DEF StillFree
<1>. QED BY <1>2, <1>3, <1>4

LEMMA CommitStep ==
  ASSUME IInv, NEW t \in Tx, Commit(t)
  PROVE  IInv'
<1>. USE DEF IInv
<1>1. Active(t) /\ req[t] \in Op /\ todo[t] = <<"commit">>
  <2>1. Active(t) /\ req[t] \in Op /\ todo[t] \in Rest(req[t]) /\ Head(todo[t]) = "commit"
    BY AtIsActive DEF Commit, At
  <2>. QED BY <2>1, TailOfRest
<1>2. rows' = (rows \ del[t]) \cup ins[t]
  BY DEF Commit
<1>3. Domains'
  BY DEF Commit, Finish, Domains
<1>4. \A u \in Tx : u # t => UNCHANGED <<req[u], todo[u], ins[u], del[u]>>
  BY DEF Commit, Finish, Domains
<1>5. Idle(t)' /\ ~Active(t)' /\ del'[t] = {}
  BY EmptyIsNoOp DEF Commit, Finish, Domains, Idle, Active
<1>6. \A u \in Tx : u # t => /\ Idle(u)' <=> Idle(u)
                             /\ Active(u)' <=> Active(u)
                             /\ Cleared(u)' <=> Cleared(u)
  BY <1>4 DEF Idle, Active, Cleared
<1>7. Stages'
  BY <1>5, <1>6 DEF Stages
<1>8. Writes'
  <2>. SUFFICES ASSUME NEW u \in Tx, u # t, Active(u)
                PROVE  /\ todo'[u] # <<"commit">> => ins'[u] = {}
                       /\ req'[u].kind = "trade" => ins'[u] = {Moved(u, x)' : x \in del'[u]}
                       /\ req'[u].kind = "drop" => ins'[u] = {}
                       /\ Adds(req'[u]) => ins'[u] \subseteq {NewRow(req'[u])}
    BY <1>5, <1>6 DEF Writes
  <2>1. \A x : Moved(u, x)' = Moved(u, x)
    BY <1>4 DEF Moved
  <2>2. {Moved(u, x)' : x \in del'[u]} = {Moved(u, x) : x \in del[u]}
    BY <1>4, <2>1
  <2>. QED BY <1>4, <2>2 DEF Writes
<1>9. RowLocks'
  BY <1>2, <1>4, <1>5 DEF RowLocks
<1>10. Exclusive'
  BY <1>4, <1>5, <1>6 DEF Exclusive
<1>11. StillFree'
  <2>. SUFFICES ASSUME NEW u \in Tx, Active(u)', Adds(req'[u]), Cleared(u)' \/ ins'[u] # {},
                       NEW x \in rows' \ del'[u], x.player = req'[u].add
                PROVE  x.via = Other(ViaOf(req'[u]))
    BY DEF StillFree
  <2>. QED BY <1>1, <1>2, <1>4, <1>5, <1>6, CommitKeepsFree
<1>12. Matching'
  BY <1>4, <1>5, <1>6 DEF Matching
<1>. QED BY <1>1, <1>2, <1>3, <1>7, <1>8, <1>9, <1>10, <1>11, <1>12, CommitKeepsOwners

-----------------------------------------------------------------------------
LEMMA NextInv == IInv /\ [Next]_vars => IInv'
<1>. SUFFICES ASSUME IInv, [Next]_vars PROVE IInv'
  OBVIOUS
<1>1. ASSUME NEW t \in Tx, NEW o \in Ops, Begin(t, o) PROVE IInv'
  BY <1>1, BeginStep
<1>2. ASSUME NEW t \in Tx,
             CheckWire(t) \/ Snapshot(t) \/ CheckOwner(t) \/ CheckExists(t) \/ CheckSize(t)
               \/ CheckItems(t) \/ CheckSizes(t)
      PROVE  IInv'
  BY <1>2, CheckStep
<1>3. ASSUME NEW t \in Tx, Delete(t) PROVE IInv'
  BY <1>3, DeleteStep
<1>4. ASSUME NEW t \in Tx, Insert(t) PROVE IInv'
  BY <1>4, InsertStep
<1>5. ASSUME NEW t \in Tx, Move(t) PROVE IInv'
  BY <1>5, MoveStep
<1>6. ASSUME NEW t \in Tx, Commit(t) PROVE IInv'
  BY <1>6, CommitStep
<1>7. ASSUME NEW t \in Tx, Abort(t) PROVE IInv'
  BY <1>7, RollBackStep DEF Abort
<1>8. CASE UNCHANGED <<rows, req, todo, ins, del>>
  <2>. USE <1>8 DEF IInv
  <2>1. Domains' /\ Stages' /\ RowLocks' /\ OwnersFromDifferentLocks'
    BY DEF Domains, Stages, Idle, Active, RowLocks, OwnersFromDifferentLocks
  <2>2. Writes'
    BY DEF Writes, Active, Moved
  <2>3. Matching' /\ Exclusive' /\ StillFree'
    BY DEF Matching, Exclusive, StillFree, Active, Cleared
  <2>. QED BY <2>1, <2>2, <2>3
<1>. QED BY <1>1, <1>2, <1>3, <1>4, <1>5, <1>6, <1>7, <1>8 DEF Next, vars, WireExpires

\* Two rosters own a player only if a free-agent addition and a waiver claim,
\* which hold different locks, both found him free: two additions, two claims
\* or trades never do it (LOCK CONTRACT of rosters.service.ts).
THEOREM OwnersDiffer == Spec => []OwnersFromDifferentLocks
<1>1. IInv => OwnersFromDifferentLocks
  BY DEF IInv
<1>. QED BY <1>1, InitInv, NextInv, PTL DEF Spec

-----------------------------------------------------------------------------
(* What a trade moves                                                      *)

\* Where the trade o sends a row.
Goes(o, x) == [x EXCEPT !.roster = (CHOOSE i \in o.items : i.player = x.player).to]

\* D are the rows the trade o moves: one for each of its players, from the
\* rosters that give, none to a key that another of them has.
Deal(o, D) ==
  /\ IsFiniteSet(D)
  /\ \A x \in D : /\ \E i \in o.items : i.player = x.player
                  /\ \E i \in o.items : i.from = x.roster
  /\ \A x, y \in D : x # y => x.player # y.player /\ ~SameKey(Goes(o, x), y)
  /\ \A i \in o.items : \E x \in D : x.player = i.player
  /\ \A i, j \in o.items : i.player = j.player => i = j

Ready(t) == Active(t) /\ req[t].kind = "trade" /\ todo[t] = <<"commit">>
Deals == \A t \in Tx : Ready(t) => Deal(req[t], del[t])
\* Whoever has written a key is alone with it, and nobody has committed it.
KeysFresh == \A t \in Tx : \A x \in ins[t], y \in rows \ del[t] : ~SameKey(x, y)
KeysApart ==
  \A t, u \in Tx : t # u => \A x \in ins[t], y \in ins[u] : ~SameKey(x, y)
KeysUnique == \A x, y \in rows : SameKey(x, y) => x = y

JInv == Deals /\ KeysFresh /\ KeysApart /\ KeysUnique

\* The row a trade sends away goes where the item of its player says.
LEMMA GoesTo ==
  ASSUME NEW o \in Op, o.kind = "trade", NEW x \in Row, NEW i \in o.items,
         i.player = x.player, \A j, k \in o.items : j.player = k.player => j = k
  PROVE  /\ Goes(o, x) = [x EXCEPT !.roster = i.to] /\ i.to \in Roster
         /\ Goes(o, x).roster = i.to /\ Goes(o, x).player = x.player
<1>1. o.items \subseteq Item
  BY DEF Op
<1>2. (CHOOSE j \in o.items : j.player = x.player) = i
  OBVIOUS
<1>3. Goes(o, x) = [x EXCEPT !.roster = i.to]
  BY <1>2 DEF Goes
<1>. QED BY <1>1, <1>3 DEF Row, Item

\* As many rows as items, each row of another player: the trade has found one
\* row for each of its players.
LEMMA OneRowEach ==
  ASSUME NEW o, NEW D, IsFiniteSet(o.items), Cardinality(D) = Cardinality(o.items),
         \A x \in D : \E i \in o.items : i.player = x.player,
         \A x, y \in D : x # y => x.player # y.player
  PROVE  /\ IsFiniteSet(D)
         /\ \A i \in o.items : \E x \in D : x.player = i.player
         /\ \A i, j \in o.items : i.player = j.player => i = j
<1>. DEFINE f == [x \in D |-> CHOOSE i \in o.items : i.player = x.player]
<1>1. \A x \in D : f[x] \in o.items /\ f[x].player = x.player
  OBVIOUS
<1>2. f \in Injection(D, o.items)
  <2>1. f \in [D -> o.items]
    BY <1>1
  <2>2. \A x, y \in D : f[x] = f[y] => x = y
    BY <1>1
  <2>. HIDE DEF f
  <2>. QED BY <2>1, <2>2 DEF Injection, IsInjective
<1>. HIDE DEF f
<1>3. IsFiniteSet(D) /\ f \in Surjection(D, o.items)
  BY <1>2, FS_Injection
<1>4. \A i \in o.items : \E x \in D : f[x] = i
  BY <1>3 DEF Surjection
<1>5. \A i \in o.items : \E x \in D : x.player = i.player /\ f[x] = i
  BY <1>1, <1>4
<1>6. ASSUME NEW i \in o.items, NEW j \in o.items, i.player = j.player PROVE i = j
  <2>1. PICK x \in D : x.player = i.player /\ f[x] = i
    BY <1>5
  <2>2. PICK y \in D : y.player = j.player /\ f[y] = j
    BY <1>5
  <2>3. x = y
    BY <1>6, <2>1, <2>2
  <2>. QED BY <2>1, <2>2, <2>3
<1>. QED BY <1>3, <1>5, <1>6

\* Rows of one player would all go to one key: the UPDATE that does not
\* collide has one row for each player.
LEMMA MatchedIsDeal ==
  ASSUME IInv, NEW t \in Tx, req[t] \in Ops, req[t].kind = "trade",
         ins[t] = {}, del[t] = {}, ~Collides(t),
         Cardinality(Matched(t)) = Cardinality(req[t].items)
  PROVE  Deal(req[t], Matched(t))
<1>. DEFINE o == req[t]
            D == Matched(t)
<1>1. /\ \A x \in D : /\ x \in rows /\ x \in Row
                      /\ \E i \in o.items : i.player = x.player
                      /\ \E i \in o.items : i.from = x.roster
  BY DEF IInv, Matched
<1>2. Seen(t) = rows
  BY DEF Seen
<1>3. ASSUME NEW x \in D, NEW y \in D, x # y
      PROVE  ~SameKey(Moved(t, x), y) /\ ~SameKey(Moved(t, x), Moved(t, y))
  BY <1>1, <1>2, <1>3 DEF Collides
<1>4. \A x \in D : Moved(t, x) = Goes(o, x)
  BY DEF Moved, Goes
<1>5. ASSUME NEW x \in D, NEW y \in D, x # y PROVE x.player # y.player
  <2>. SUFFICES ASSUME x.player = y.player PROVE FALSE
    OBVIOUS
  <2>1. o \in Op
    BY OpsAssumption
  <2>2. /\ Moved(t, x).player = x.player /\ Moved(t, y).player = y.player
        /\ x \in Row /\ y \in Row
    BY <1>1, <2>1, MovedIsRow
  <2>3. Moved(t, x).roster = Moved(t, y).roster
    BY <2>2 DEF Moved, Row
  <2>. QED BY <1>3, <1>5, <2>2, <2>3 DEF SameKey
<1>6. IsFiniteSet(o.items)
  BY TradesAssumption
<1>. HIDE DEF D, o
<1>7. /\ IsFiniteSet(D)
      /\ \A i \in o.items : \E x \in D : x.player = i.player
      /\ \A i, j \in o.items : i.player = j.player => i = j
  <2>1. Cardinality(D) = Cardinality(o.items)
    BY DEF D, o
  <2>2. \A x \in D : \E i \in o.items : i.player = x.player
    BY <1>1
  <2>3. \A x, y \in D : x # y => x.player # y.player
    BY <1>5
  <2>. QED BY <1>6, <2>1, <2>2, <2>3, OneRowEach
<1>8. Deal(o, D)
  BY <1>1, <1>3, <1>4, <1>5, <1>7 DEF Deal
<1>. QED BY <1>8 DEF o, D

LEMMA InitJInv == Init => JInv
BY RowsAssumption DEF Init, JInv, Deals, Ready, Active, KeysFresh, KeysApart, KeysUnique, SameKey

\* A step of t that commits nothing.
LEMMA OneWrites ==
  ASSUME JInv, NEW t \in Tx, rows' = rows,
         \A u \in Tx : u # t => UNCHANGED <<req[u], todo[u], ins[u], del[u]>>,
         Ready(t)' => Deal(req'[t], del'[t]),
         \A x \in ins'[t], y \in rows \ del'[t] : ~SameKey(x, y),
         \A u \in Tx : u # t => \A x \in ins'[t], y \in ins[u] : ~SameKey(x, y)
  PROVE  JInv'
<1>. USE DEF JInv
<1>1. Deals'
  <2>. SUFFICES ASSUME NEW u \in Tx, Ready(u)' PROVE Deal(req'[u], del'[u])
    BY DEF Deals
  <2>. QED BY DEF Deals, Ready, Active
<1>2. KeysFresh'
  BY DEF KeysFresh
<1>3. KeysApart'
  BY DEF KeysApart, SameKey
<1>4. KeysUnique'
  BY DEF KeysUnique
<1>. QED BY <1>1, <1>2, <1>3, <1>4

\* It gives up what it has written.
LEMMA RollBackKeepsJ ==
  ASSUME IInv, JInv, NEW t \in Tx, RollBack(t)
  PROVE  JInv'
<1>1. \A u \in Tx : u # t => UNCHANGED <<req[u], todo[u], ins[u], del[u]>>
  BY DEF IInv, Domains, RollBack, Finish
<1>2. rows' = rows /\ req'[t] = <<>> /\ ins'[t] = {}
  BY DEF IInv, Domains, RollBack, Finish
<1>. QED BY <1>1, <1>2, OneWrites DEF Ready, Active

\* It writes nothing, and is not a trade that has moved its rows.
LEMMA QuietKeepsJ ==
  ASSUME IInv, JInv, NEW t \in Tx, UNCHANGED <<rows, ins, del>>,
         \A u \in Tx : u # t => UNCHANGED <<req[u], todo[u]>>, ~Ready(t)'
  PROVE  JInv'
<1>1. \A u \in Tx : u # t => UNCHANGED <<req[u], todo[u], ins[u], del[u]>>
  OBVIOUS
<1>2. /\ rows' = rows /\ ins'[t] = ins[t] /\ del'[t] = del[t]
      /\ \A x \in ins[t], y \in rows \ del[t] : ~SameKey(x, y)
      /\ \A u \in Tx : u # t => \A x \in ins[t], y \in ins[u] : ~SameKey(x, y)
  BY DEF JInv, KeysFresh, KeysApart
<1>. QED BY <1>1, <1>2, OneWrites

LEMMA BeginKeepsJ ==
  ASSUME IInv, JInv, NEW t \in Tx, NEW o \in Ops, Begin(t, o)
  PROVE  JInv'
<1>1. /\ UNCHANGED <<rows, ins, del>> /\ todo'[t] = Plan(o)
      /\ \A u \in Tx : u # t => UNCHANGED <<req[u], todo[u]>>
  BY DEF Begin, IInv, Domains
<1>2. Plan(o) # <<"commit">>
  BY OpsAssumption DEF Plan, Op
<1>. QED BY <1>1, <1>2, QuietKeepsJ DEF Ready

LEMMA CheckKeepsJ ==
  ASSUME IInv, JInv, NEW t \in Tx,
         CheckWire(t) \/ Snapshot(t) \/ CheckOwner(t) \/ CheckExists(t) \/ CheckSize(t)
           \/ CheckItems(t) \/ CheckSizes(t)
  PROVE  JInv'
<1>. DEFINE head == Head(todo[t])
<1>1. todo[t] # <<>> /\ head \in {"wire", "snapshot", "owner", "exists", "size", "items", "sizes"}
  BY DEF At, CheckWire, Snapshot, CheckOwner, CheckExists, CheckSize, CheckItems, CheckSizes
<1>2. Active(t) /\ req[t] \in Op /\ todo[t] \in Rest(req[t])
  BY <1>1, OpsAssumption DEF IInv, Stages, Idle, Active
<1>3. req[t].kind = "trade" => todo[t] \in {<<"items", "sizes", "move", "commit">>,
                                           <<"sizes", "move", "commit">>}
  BY <1>1, <1>2 DEF Rest
<1>4. CASE RollBack(t)
  BY <1>4, RollBackKeepsJ
<1>5. CASE \E s : /\ todo' = [todo EXCEPT ![t] = s]
                  /\ UNCHANGED <<rows, wire, req, ins, del, on, off>>
                  /\ req[t].kind = "trade" => s = Tail(todo[t])
  <2>1. PICK s : /\ todo' = [todo EXCEPT ![t] = s]
                 /\ UNCHANGED <<rows, wire, req, ins, del, on, off>>
                 /\ req[t].kind = "trade" => s = Tail(todo[t])
    BY <1>5
  <2>2. todo'[t] = s /\ \A u \in Tx : u # t => UNCHANGED <<req[u], todo[u]>>
    BY <2>1 DEF IInv, Domains
  <2>3. ASSUME req[t].kind = "trade" PROVE s # <<"commit">>
    <3>1. s \in {<<"sizes", "move", "commit">>, <<"move", "commit">>}
      BY <1>3, <2>1, <2>3, TailTable
    <3>. QED BY <3>1
  <2>4. ~Ready(t)'
    BY <2>1, <2>2, <2>3 DEF Ready
  <2>. QED BY <2>1, <2>2, <2>4, QuietKeepsJ
<1>6. CASE Pass(t)
  BY <1>5, <1>6 DEF Pass
<1>7. CASE RefuseClaim(t) /\ req[t].kind # "trade"
  BY <1>5, <1>7 DEF RefuseClaim
<1>8. CASE Refuse(t)
  BY <1>4, <1>7, <1>8 DEF Refuse
<1>9. CASE Snapshot(t)
  <2>1. req[t].kind # "trade"
    BY <1>3, <1>9 DEF Snapshot, At
  <2>. QED BY <1>6, <1>7, <1>9, <2>1 DEF Snapshot
<1>10. CASE CheckExists(t)
  <2>1. req[t].kind # "trade"
    BY <1>3, <1>10 DEF CheckExists, At
  <2>. QED BY <1>4, <1>5, <1>6, <1>10, <2>1 DEF CheckExists
<1>11. CASE CheckWire(t) \/ CheckOwner(t) \/ CheckSize(t) \/ CheckItems(t) \/ CheckSizes(t)
  BY <1>4, <1>6, <1>8, <1>11 DEF CheckWire, CheckOwner, CheckSize, CheckItems, CheckSizes
<1>. QED BY <1>9, <1>10, <1>11

\* A transaction that still has a statement before COMMIT has written no row.
LEMMA DeleteKeepsJ ==
  ASSUME IInv, JInv, NEW t \in Tx, Delete(t)
  PROVE  JInv'
<1>1. /\ Active(t) /\ req[t] \in Op /\ todo[t] \in Rest(req[t])
      /\ Head(todo[t]) = "delete" /\ todo[t] # <<"commit">>
  BY AtIsActive DEF Delete, At
<1>2. req[t].kind # "trade"
  BY <1>1 DEF Rest
<1>3. ins[t] = {}
  BY <1>1 DEF IInv, Writes
<1>4. /\ rows' = rows /\ req' = req /\ ins'[t] = ins[t]
      /\ \A u \in Tx : u # t => UNCHANGED <<req[u], todo[u], ins[u], del[u]>>
  BY DEF Delete, IInv, Domains
<1>. QED BY <1>2, <1>3, <1>4, OneWrites DEF Ready

LEMMA InsertKeepsJ ==
  ASSUME IInv, JInv, NEW t \in Tx, Insert(t)
  PROVE  JInv'
<1>. DEFINE new == [roster |-> req[t].roster, player |-> req[t].add,
                    via |-> IF req[t].kind = "waiver" THEN "waiver" ELSE "free_agent"]
<1>1. /\ Active(t) /\ req[t] \in Op /\ todo[t] \in Rest(req[t])
      /\ Head(todo[t]) = "insert" /\ todo[t] # <<"commit">>
  BY AtIsActive DEF Insert, At
<1>2. req[t].kind # "trade" /\ ins[t] = {}
  BY <1>1 DEF Rest, IInv, Writes
<1>3. CASE RollBack(t)
  BY <1>3, RollBackKeepsJ
<1>4. CASE ~RollBack(t)
  <2>1. /\ ~KeyBusy(t, new) /\ ~KeyTaken(t, new)
        /\ ins' = [ins EXCEPT ![t] = @ \cup {new}]
        /\ todo' = [todo EXCEPT ![t] = Tail(@)] /\ UNCHANGED <<rows, req, del>>
    BY <1>4 DEF Insert
  <2>. HIDE DEF new
  <2>2. ins'[t] = {new} /\ \A u \in Tx : u # t => UNCHANGED <<req[u], todo[u], ins[u], del[u]>>
    BY <1>2, <2>1 DEF IInv, Domains
  <2>3. \A y \in rows \ del'[t] : ~SameKey(new, y)
    BY <2>1 DEF KeyTaken, Seen
  <2>4. \A u \in Tx : u # t => \A y \in ins[u] : ~SameKey(new, y)
    BY <2>1 DEF KeyBusy
  <2>. QED BY <1>2, <2>1, <2>2, <2>3, <2>4, OneWrites DEF Ready
<1>. QED BY <1>3, <1>4

LEMMA MoveKeepsJ ==
  ASSUME IInv, JInv, NEW t \in Tx, Move(t)
  PROVE  JInv'
<1>1. /\ Active(t) /\ req[t] \in Op /\ todo[t] \in Rest(req[t])
      /\ Head(todo[t]) = "move" /\ todo[t] # <<"commit">>
  BY AtIsActive DEF Move, At
<1>2. req[t] \in Ops /\ req[t].kind = "trade"
  BY <1>1 DEF Rest, Op, Active
<1>3. ins[t] = {} /\ del[t] = {}
  BY <1>1, <1>2 DEF IInv, Writes
<1>4. CASE RollBack(t)
  BY <1>4, RollBackKeepsJ
<1>5. CASE ~RollBack(t)
  <2>1. /\ Cardinality(Matched(t)) = Cardinality(req[t].items) /\ ~Collides(t)
        /\ \A x \in Matched(t) : ~KeyBusy(t, Moved(t, x))
        /\ del' = [del EXCEPT ![t] = Matched(t)]
        /\ ins' = [ins EXCEPT ![t] = {Moved(t, x) : x \in Matched(t)}]
        /\ todo' = [todo EXCEPT ![t] = Tail(@)] /\ UNCHANGED <<rows, req>>
    BY <1>5 DEF Move
  <2>2. /\ del'[t] = Matched(t) /\ ins'[t] = {Moved(t, x) : x \in Matched(t)}
        /\ \A u \in Tx : u # t => UNCHANGED <<req[u], todo[u], ins[u], del[u]>>
    BY <2>1 DEF IInv, Domains
  <2>3. Deal(req'[t], del'[t])
    BY <1>2, <1>3, <2>1, <2>2, MatchedIsDeal
  <2>4. ASSUME NEW x \in ins'[t], NEW y \in rows \ del'[t] PROVE ~SameKey(x, y)
    <3>1. PICK a \in Matched(t) : x = Moved(t, a)
      BY <2>2
    <3>2. y \in Seen(t) \ {a}
      BY <1>3, <2>2, <2>4, <3>1 DEF Seen
    <3>. QED BY <2>1, <3>1, <3>2 DEF Collides
  <2>5. ASSUME NEW u \in Tx, u # t, NEW x \in ins'[t], NEW y \in ins[u] PROVE ~SameKey(x, y)
    <3>1. PICK a \in Matched(t) : x = Moved(t, a)
      BY <2>2
    <3>. QED BY <2>1, <2>5, <3>1 DEF KeyBusy
  <2>. QED BY <2>1, <2>2, <2>3, <2>4, <2>5, OneWrites
<1>. QED BY <1>4, <1>5

\* The keys that become visible were fresh, and nobody else has written them.
LEMMA CommitKeepsJ ==
  ASSUME IInv, JInv, NEW t \in Tx, Commit(t)
  PROVE  JInv'
<1>. USE DEF JInv
<1>1. Active(t) /\ req[t] \in Op /\ todo[t] = <<"commit">>
  <2>1. Active(t) /\ req[t] \in Op /\ todo[t] \in Rest(req[t]) /\ Head(todo[t]) = "commit"
    BY AtIsActive DEF Commit, At
  <2>. QED BY <2>1, TailOfRest
<1>2. rows' = (rows \ del[t]) \cup ins[t]
  BY DEF Commit
<1>3. \A u \in Tx : u # t => UNCHANGED <<req[u], todo[u], ins[u], del[u]>>
  BY DEF Commit, Finish, IInv, Domains
<1>4. req'[t] = <<>> /\ ins'[t] = {}
  BY DEF Commit, Finish, IInv, Domains
<1>5. Deals'
  <2>. SUFFICES ASSUME NEW u \in Tx, Ready(u)' PROVE Deal(req'[u], del'[u])
    BY DEF Deals
  <2>. QED BY <1>3, <1>4 DEF Deals, Ready, Active
<1>6. KeysFresh'
  <2>. SUFFICES ASSUME NEW u \in Tx, u # t, NEW x \in ins[u], NEW y \in rows' \ del[u]
                PROVE  ~SameKey(x, y)
    BY <1>3, <1>4 DEF KeysFresh
  <2>. QED BY <1>2 DEF KeysFresh, KeysApart
<1>7. KeysApart'
  BY <1>3, <1>4 DEF KeysApart
<1>8. ASSUME NEW x \in ins[t], NEW y \in ins[t], SameKey(x, y) PROVE x = y
  <2>1. CASE Adds(req[t])
    BY <1>8, <2>1, <1>1 DEF IInv, Writes
  <2>2. CASE ~Adds(req[t])
    <3>1. /\ req[t].kind = "trade"
          /\ \E a \in del[t] : x = Moved(t, a) /\ x.player = a.player
          /\ \E b \in del[t] : y = Moved(t, b) /\ y.player = b.player
      BY <1>1, <2>2, CommittedRow
    <3>2. \A a, b \in del[t] : a # b => a.player # b.player
      BY <1>1, <3>1 DEF Deals, Ready, Deal
    <3>. QED BY <1>8, <3>1, <3>2 DEF SameKey
  <2>. QED BY <2>1, <2>2
<1>9. KeysUnique'
  BY <1>2, <1>8 DEF KeysUnique, KeysFresh, SameKey
<1>. QED BY <1>5, <1>6, <1>7, <1>9

LEMMA NextJInv == IInv /\ JInv /\ [Next]_vars => JInv'
<1>. SUFFICES ASSUME IInv, JInv, [Next]_vars PROVE JInv'
  OBVIOUS
<1>1. ASSUME NEW t \in Tx, NEW o \in Ops, Begin(t, o) PROVE JInv'
  BY <1>1, BeginKeepsJ
<1>2. ASSUME NEW t \in Tx,
             CheckWire(t) \/ Snapshot(t) \/ CheckOwner(t) \/ CheckExists(t) \/ CheckSize(t)
               \/ CheckItems(t) \/ CheckSizes(t)
      PROVE  JInv'
  BY <1>2, CheckKeepsJ
<1>3. ASSUME NEW t \in Tx, Delete(t) PROVE JInv'
  BY <1>3, DeleteKeepsJ
<1>4. ASSUME NEW t \in Tx, Insert(t) PROVE JInv'
  BY <1>4, InsertKeepsJ
<1>5. ASSUME NEW t \in Tx, Move(t) PROVE JInv'
  BY <1>5, MoveKeepsJ
<1>6. ASSUME NEW t \in Tx, Commit(t) PROVE JInv'
  BY <1>6, CommitKeepsJ
<1>7. ASSUME NEW t \in Tx, Abort(t) PROVE JInv'
  BY <1>7, RollBackKeepsJ DEF Abort
<1>8. CASE UNCHANGED <<rows, req, todo, ins, del>>
  BY <1>8 DEF JInv, Deals, Ready, Active, KeysFresh, KeysApart, KeysUnique
<1>. QED BY <1>1, <1>2, <1>3, <1>4, <1>5, <1>6, <1>7, <1>8 DEF Next, vars, WireExpires

-----------------------------------------------------------------------------
\* The trade o turns the rows R into S: what TradesDeliver says of a commit.
Delivers(o, R, S) ==
  /\ \A i \in o.items : \E x \in S : x.player = i.player /\ x.roster = i.to
  /\ \A x \in R \ S : /\ \E i \in o.items : i.player = x.player
                    /\ \E i \in o.items : i.from = x.roster
  /\ \A x \in S \ R : \E i \in o.items : i.player = x.player /\ i.to = x.roster
  /\ Cardinality(R \ S) = Cardinality(S \ R)

\* A row that stays where it is stays in the table; every other row of the
\* deal leaves it, for a row that was not there.
LEMMA DealSwaps ==
  ASSUME NEW o \in Op, o.kind = "trade", NEW R \in SUBSET Row, NEW D \in SUBSET R, Deal(o, D),
         \A x \in D, y \in R \ D : ~SameKey(Goes(o, x), y),
         NEW S, S = (R \ D) \cup {Goes(o, x) : x \in D}
  PROVE  Delivers(o, R, S)
<1>. DEFINE L == {x \in D : Goes(o, x) # x}
<1>1. ASSUME NEW x \in D
      PROVE  \E i \in o.items : i.player = x.player /\ Goes(o, x).player = x.player
                               /\ Goes(o, x).roster = i.to
  BY GoesTo DEF Deal
<1>2. ASSUME NEW i \in o.items
      PROVE  \E x \in D : Goes(o, x).player = i.player /\ Goes(o, x).roster = i.to
  <2>1. PICK x \in D : x.player = i.player
    BY DEF Deal
  <2>2. x \in Row /\ \A j, k \in o.items : j.player = k.player => j = k
    BY DEF Deal
  <2>. QED BY <2>1, <2>2, GoesTo
<1>3. ASSUME NEW x \in D, NEW y \in R, Goes(o, x) = y PROVE x = y
  BY <1>3 DEF Deal, SameKey
<1>4. ASSUME NEW x \in D, NEW y \in D, Goes(o, x) = Goes(o, y) PROVE x = y
  <2>1. x.player = y.player
    BY <1>1, <1>4
  <2>. QED BY <2>1 DEF Deal
<1>5. R \ S = L
  BY <1>3
<1>6. S \ R = {Goes(o, x) : x \in L}
  BY <1>3
<1>7. Cardinality(L) = Cardinality({Goes(o, x) : x \in L})
  <2>1. IsFiniteSet(L)
    BY FS_Subset DEF Deal
  <2>. DEFINE f == [x \in L |-> Goes(o, x)]
              C == {Goes(o, x) : x \in L}
  <2>2. f \in [L -> C] /\ \A x, y \in L : f[x] = f[y] => x = y
    BY <1>4
  <2>3. \A z \in C : \E x \in L : f[x] = z
    OBVIOUS
  <2>. HIDE DEF f, L, C
  <2>4. f \in Bijection(L, C)
    BY <2>2, <2>3 DEF Bijection, Injection, Surjection, IsInjective
  <2>5. Cardinality(C) = Cardinality(L)
    BY <2>1, <2>4, FS_Bijection DEF ExistsBijection
  <2>. QED BY <2>5 DEF C
<1>8. \A x \in R \ S : /\ \E i \in o.items : i.player = x.player
                      /\ \E i \in o.items : i.from = x.roster
  BY <1>5 DEF Deal
<1>9. \A x \in S \ R : \E i \in o.items : i.player = x.player /\ i.to = x.roster
  BY <1>1, <1>6
<1>10. \A i \in o.items : \E x \in S : x.player = i.player /\ x.roster = i.to
  BY <1>2
<1>11. Cardinality(R \ S) = Cardinality(S \ R)
  BY <1>5, <1>6, <1>7
<1>. QED BY <1>8, <1>9, <1>10, <1>11 DEF Delivers

LEMMA CommitDelivers ==
  ASSUME IInv, JInv, NEW t \in Tx, Commit(t), req[t].kind = "trade"
  PROVE  Delivers(req[t], rows, rows')
<1>1. Active(t) /\ req[t] \in Op /\ todo[t] = <<"commit">>
  <2>1. Active(t) /\ req[t] \in Op /\ todo[t] \in Rest(req[t]) /\ Head(todo[t]) = "commit"
    BY AtIsActive DEF Commit, At
  <2>. QED BY <2>1, TailOfRest
<1>2. Deal(req[t], del[t])
  BY <1>1 DEF JInv, Deals, Ready
<1>3. ins[t] = {Goes(req[t], x) : x \in del[t]}
  BY <1>1 DEF IInv, Writes, Moved, Goes
<1>4. rows' = (rows \ del[t]) \cup {Goes(req[t], x) : x \in del[t]}
  BY <1>3 DEF Commit
<1>5. rows \in SUBSET Row /\ del[t] \in SUBSET rows
  BY DEF IInv, RowLocks
<1>6. \A x \in del[t], y \in rows \ del[t] : ~SameKey(Goes(req[t], x), y)
  BY <1>3 DEF JInv, KeysFresh
<1>7. req[t] \in Op /\ req[t].kind = "trade"
  BY <1>1
<1>. QED BY <1>2, <1>4, <1>5, <1>6, <1>7, DealSwaps

\* A trade moves all its players or none, whatever interleaves with it
\* (executeTrade: the UPDATE and the check of its row count).
THEOREM TradesMoveAllOrNone == Spec => TradesDeliver
<1>1. IInv /\ JInv /\ [Next]_vars =>
        [\A t \in Tx : Commit(t) /\ req[t].kind = "trade" =>
           LET left == rows \ rows'
               came == rows' \ rows
           IN /\ \A i \in req[t].items : \E x \in rows' : x.player = i.player /\ x.roster = i.to
              /\ \A x \in left : /\ \E i \in req[t].items : i.player = x.player
                                 /\ \E i \in req[t].items : i.from = x.roster
              /\ \A x \in came : \E i \in req[t].items : i.player = x.player /\ i.to = x.roster
              /\ Cardinality(left) = Cardinality(came)]_vars
  BY CommitDelivers DEF Delivers
<1>. QED BY <1>1, InitInv, NextInv, InitJInv, NextJInv, PTL DEF Spec, TradesDeliver

-----------------------------------------------------------------------------
(* Types                                                                   *)

\* A claim without a drop deletes nothing.
NoDrop ==
  \A t \in Tx : Active(t) /\ req[t].kind = "waiver" /\ req[t].drop = None =>
    todo[t] \in {<<"snapshot", "owner", "size", "insert", "commit">>,
                <<"owner", "size", "insert", "commit">>,
                <<"size", "insert", "commit">>, <<"insert", "commit">>, <<"commit">>}
WireTypes ==
  /\ wire \subseteq Player
  /\ on \in [Tx -> SUBSET Player]
  /\ off \in [Tx -> SUBSET Player]

LEMMA InitTypes == Init => WireTypes /\ NoDrop
BY DEF Init, WireTypes, NoDrop, Active

LEMMA NextTypes == IInv /\ WireTypes /\ NoDrop /\ [Next]_vars => WireTypes' /\ NoDrop'
<1>. SUFFICES ASSUME IInv, WireTypes, NoDrop, [Next]_vars PROVE WireTypes' /\ NoDrop'
  OBVIOUS
<1>1. ASSUME NEW t \in Tx, NEW s, todo' = [todo EXCEPT ![t] = s], UNCHANGED req,
             \/ s = <<"commit">>
             \/ todo[t] # <<>> /\ s = Tail(todo[t])
             \/ todo[t] # <<>> /\ Head(todo[t]) = "exists"
      PROVE  NoDrop'
  <2>. SUFFICES ASSUME NEW u \in Tx, Active(u)', req[u].kind = "waiver", req[u].drop = None
                PROVE  todo'[u] \in {<<"snapshot", "owner", "size", "insert", "commit">>,
                                    <<"owner", "size", "insert", "commit">>,
                                    <<"size", "insert", "commit">>, <<"insert", "commit">>,
                                    <<"commit">>}
    BY <1>1 DEF NoDrop
  <2>0. Active(u)
    BY <1>1 DEF IInv, Stages, Idle, Active
  <2>1. CASE u # t
    BY <1>1, <2>0, <2>1 DEF NoDrop, IInv, Domains
  <2>2. CASE u = t
    <3>1. todo'[u] = s
      BY <1>1, <2>2 DEF IInv, Domains
    <3>2. \/ todo[t] = <<"snapshot", "owner", "size", "insert", "commit">>
          \/ todo[t] = <<"owner", "size", "insert", "commit">>
          \/ todo[t] = <<"size", "insert", "commit">> \/ todo[t] = <<"insert", "commit">>
          \/ todo[t] = <<"commit">>
      BY <2>0, <2>2 DEF NoDrop
    <3>3. CASE todo[t] = <<"commit">>
      <4>1. Tail(todo[t]) = <<>> /\ Head(todo[t]) # "exists"
        BY <3>3
      <4>2. todo'[u] \in Rest(req[u])
        BY <1>1 DEF Active
      <4>3. <<>> \notin Rest(req[u])
        BY DEF Rest
      <4>. QED BY <1>1, <3>1, <4>1, <4>2, <4>3
    <3>4. CASE todo[t] # <<"commit">>
      <4>1. Head(todo[t]) # "exists"
        BY <3>2
      <4>. QED BY <1>1, <3>1, <3>2, <3>4, <4>1, TailTable
    <3>. QED BY <3>3, <3>4
  <2>. QED BY <2>1, <2>2
<1>2. ASSUME NEW t \in Tx, Finish(t) PROVE NoDrop' /\ on' \in [Tx -> SUBSET Player]
                                                 /\ off' \in [Tx -> SUBSET Player]
  <2>1. /\ req'[t] = <<>>
        /\ \A u \in Tx : u # t => UNCHANGED <<req[u], todo[u]>>
    BY <1>2 DEF Finish, IInv, Domains
  <2>2. NoDrop'
    BY <2>1 DEF NoDrop, Active
  <2>. QED BY <1>2, <2>2 DEF Finish, WireTypes
<1>3. ASSUME NEW t \in Tx, RollBack(t) PROVE WireTypes' /\ NoDrop'
  BY <1>2, <1>3 DEF RollBack, WireTypes
<1>4. ASSUME NEW t \in Tx, Pass(t), todo[t] # <<>> PROVE WireTypes' /\ NoDrop'
  BY <1>1, <1>4 DEF Pass, WireTypes
<1>5. ASSUME NEW t \in Tx, RefuseClaim(t) PROVE WireTypes' /\ NoDrop'
  BY <1>1, <1>5 DEF RefuseClaim, WireTypes
<1>6. ASSUME NEW t \in Tx, NEW o \in Ops, Begin(t, o) PROVE WireTypes' /\ NoDrop'
  <2>1. /\ todo'[t] = Plan(o) /\ req'[t] = o
        /\ \A u \in Tx : u # t => UNCHANGED <<req[u], todo[u]>>
    BY <1>6 DEF Begin, IInv, Domains
  <2>2. o.kind = "waiver" /\ o.drop = None
          => Plan(o) = <<"snapshot", "owner", "size", "insert", "commit">>
    BY DEF Plan
  <2>3. NoDrop'
    BY <2>1, <2>2 DEF NoDrop, Active
  <2>. QED BY <1>6, <2>3 DEF Begin, WireTypes
<1>7. ASSUME NEW t \in Tx,
             CheckWire(t) \/ Snapshot(t) \/ CheckOwner(t) \/ CheckSize(t)
               \/ CheckItems(t) \/ CheckSizes(t)
      PROVE  WireTypes' /\ NoDrop'
  BY <1>3, <1>4, <1>5, <1>7 DEF At, CheckWire, Snapshot, CheckOwner, CheckSize, CheckItems,
     CheckSizes, Refuse
<1>8. ASSUME NEW t \in Tx, CheckExists(t) PROVE WireTypes' /\ NoDrop'
  <2>1. todo[t] # <<>> /\ Head(todo[t]) = "exists"
    BY <1>8 DEF CheckExists, At
  <2>2. CASE RollBack(t)
    BY <1>3, <2>2
  <2>3. CASE Pass(t)
    BY <1>4, <2>1, <2>3
  <2>4. CASE /\ todo' = [todo EXCEPT ![t] = Tail(Tail(@))]
             /\ UNCHANGED <<rows, wire, req, ins, del, on, off>>
    BY <1>1, <2>1, <2>4 DEF WireTypes
  <2>. QED BY <1>8, <2>2, <2>3, <2>4 DEF CheckExists
<1>9. ASSUME NEW t \in Tx, Delete(t) PROVE WireTypes' /\ NoDrop'
  <2>1. /\ Active(t) /\ req[t] \in Op /\ todo[t] \in Rest(req[t]) /\ todo[t] # <<>>
        /\ Head(todo[t]) = "delete"
    BY <1>9, AtIsActive DEF Delete, At
  <2>2. req[t].kind \in {"drop", "swap", "waiver"}
    BY <2>1 DEF Rest, Op
  <2>3. req[t].drop \in Player
    <3>1. CASE req[t].kind = "waiver"
      <4>1. req[t].drop # None
        BY <2>1, <3>1 DEF NoDrop
      <4>. QED BY <2>1, <3>1, <4>1 DEF Op
    <3>. QED BY <2>1, <2>2, <3>1 DEF Op
  <2>4. /\ on' = [on EXCEPT ![t] = @ \cup {req[t].drop}]
        /\ todo' = [todo EXCEPT ![t] = Tail(@)] /\ UNCHANGED <<wire, req, off>>
    BY <1>9 DEF Delete, PutOnWire
  <2>5. NoDrop'
    BY <1>1, <2>1, <2>4
  <2>. QED BY <2>3, <2>4, <2>5 DEF WireTypes
<1>10. ASSUME NEW t \in Tx, Insert(t) PROVE WireTypes' /\ NoDrop'
  <2>1. /\ Active(t) /\ req[t] \in Op /\ todo[t] \in Rest(req[t]) /\ todo[t] # <<>>
        /\ Head(todo[t]) = "insert"
    BY <1>10, AtIsActive DEF Insert, At
  <2>2. req[t].kind \in {"add", "swap", "waiver"}
    BY <2>1 DEF Rest, Op
  <2>3. req[t].add \in Player
    BY <2>1, <2>2 DEF Op
  <2>4. CASE RollBack(t)
    BY <1>3, <2>4
  <2>5. CASE ~RollBack(t)
    <3>1. /\ off' = off \/ off' = [off EXCEPT ![t] = @ \cup {req[t].add}]
          /\ todo' = [todo EXCEPT ![t] = Tail(@)] /\ UNCHANGED <<wire, req, on>>
      BY <1>10, <2>5 DEF Insert, TakeOffWire
    <3>2. NoDrop'
      BY <1>1, <2>1, <3>1
    <3>. QED BY <2>3, <3>1, <3>2 DEF WireTypes
  <2>. QED BY <2>4, <2>5
<1>11. ASSUME NEW t \in Tx, Move(t) PROVE WireTypes' /\ NoDrop'
  <2>1. CASE RollBack(t)
    BY <1>3, <2>1
  <2>2. CASE todo' = [todo EXCEPT ![t] = Tail(@)] /\ UNCHANGED <<wire, req, on, off>>
    BY <1>1, <1>11, <2>2 DEF WireTypes, Move, At
  <2>. QED BY <1>11, <2>1, <2>2 DEF Move
<1>12. ASSUME NEW t \in Tx, Commit(t) PROVE WireTypes' /\ NoDrop'
  <2>1. wire' \subseteq Player
    BY <1>12 DEF Commit, WireTypes
  <2>. QED BY <1>2, <1>12, <2>1 DEF Commit, WireTypes
<1>13. ASSUME NEW p \in Player, WireExpires(p) PROVE WireTypes' /\ NoDrop'
  BY <1>13 DEF WireExpires, WireTypes, NoDrop, Active
<1>14. CASE UNCHANGED vars
  BY <1>14 DEF vars, WireTypes, NoDrop, Active
<1>. QED BY <1>3, <1>6, <1>7, <1>8, <1>9, <1>10, <1>11, <1>12, <1>13, <1>14 DEF Next, Abort

LEMMA RestIsStatements ==
  ASSUME NEW o \in Op, NEW s \in Rest(o), NEW i \in DOMAIN s
  PROVE  s[i] \in Statement
<1>1. CASE o.kind = "add"
  BY <1>1 DEF Rest, Statement
<1>2. CASE o.kind = "drop"
  BY <1>2 DEF Rest, Statement
<1>3. CASE o.kind = "swap"
  BY <1>3 DEF Rest, Statement
<1>4. CASE o.kind = "waiver"
  BY <1>4 DEF Rest, Statement
<1>5. CASE o.kind = "trade"
  BY <1>5 DEF Rest, Statement
<1>. QED BY <1>1, <1>2, <1>3, <1>4, <1>5 DEF Op

LEMMA TypesHold == IInv /\ JInv /\ WireTypes => TypeOK
<1>. SUFFICES ASSUME IInv, JInv, WireTypes PROVE TypeOK
  OBVIOUS
<1>1. \A t \in Tx : req[t] = <<>> \/ req[t] \in Ops
  BY DEF IInv, Stages, Idle, Active
<1>2. ASSUME NEW t \in Tx, NEW i \in DOMAIN todo[t] PROVE todo[t][i] \in Statement
  <2>1. CASE Idle(t)
    BY <1>2, <2>1 DEF Idle
  <2>2. CASE Active(t)
    BY <1>2, <2>2, OpsAssumption, RestIsStatements DEF Active
  <2>. QED BY <2>1, <2>2 DEF IInv, Stages
<1>3. ASSUME NEW t \in Tx PROVE ins[t] \subseteq Row
  <2>1. CASE Idle(t)
    BY <2>1 DEF Idle
  <2>2. CASE Active(t)
    <3>1. req[t] \in Op
      BY <2>2, OpsAssumption DEF Active
    <3>. QED BY <2>2, <3>1, CommittedRow, NewRowIsRow
  <2>. QED BY <2>1, <2>2 DEF IInv, Stages
<1>4. ins \in [Tx -> SUBSET Row]
  BY <1>3 DEF IInv, Domains
<1>5. del \in [Tx -> SUBSET rows]
  BY DEF IInv, Domains, RowLocks
<1>6. rows \subseteq Row /\ \A x, y \in rows : x.roster = y.roster /\ x.player = y.player => x = y
  BY DEF IInv, JInv, KeysUnique, SameKey
<1>. QED BY <1>1, <1>2, <1>4, <1>5, <1>6 DEF TypeOK, WireTypes

\* The tables and the transactions keep their types, and no two rows of
\* roster_players have the same (roster_id, player_id): the waits and the
\* refusals of INSERT and of the trade's UPDATE are what keeps the key unique.
THEOREM TypesAndKeys == Spec => []TypeOK
<1>. QED BY InitInv, NextInv, InitJInv, NextJInv, InitTypes, NextTypes, TypesHold, PTL DEF Spec
=============================================================================
