----------------------------- MODULE RosterMoves -----------------------------
(***************************************************************************)
(* Who owns which player of one league: the writers of the table           *)
(* roster_players, each a transaction that runs statement by statement at  *)
(* READ COMMITTED under the advisory locks of its lock contract:           *)
(*   free agents  (add, drop, swap)   LEAGUE lock                          *)
(*   waiver claim                     WAIVER lock                          *)
(*   trade                            ROSTER locks of both sides and TRADE *)
(* A statement sees the committed rows and its own transaction's writes.   *)
(* A DELETE or UPDATE waits for the transaction that has a row locked, an  *)
(* INSERT for the one that is writing the same (roster, player) key.  The  *)
(* only constraint of the table is UNIQUE(roster_id, player_id).           *)
(* Operators whose name ends in _Faulty are wrong on purpose: the mutation *)
(* tests put them in the place of the operator they precede.               *)
(***************************************************************************)
EXTENDS Integers, FiniteSets, Sequences

CONSTANTS Roster, Player,
          Tx,         \* concurrent transactions
          Ops,        \* the operations users and jobs ask for
          InitRows,   \* roster_players after the draft
          MaxSize,    \* getMaxRosterSize(league.settings)
          None        \* no drop player

Via == {"draft", "free_agent", "waiver"}
Row == [roster : Roster, player : Player, via : Via]
Item == [player : Player, from : Roster, to : Roster]

\* A request: free-agent and waiver operations name a roster, the player to
\* add and the player to drop; a trade names the players that move.
Op ==
  [kind : {"add"}, roster : Roster, add : Player]
    \cup [kind : {"drop"}, roster : Roster, drop : Player]
    \cup [kind : {"swap"}, roster : Roster, add : Player, drop : Player]
    \cup [kind : {"waiver"}, roster : Roster, add : Player, drop : Player \cup {None}]
    \cup [kind : {"trade"}, items : SUBSET Item]

ASSUME OpsAssumption == Ops \subseteq Op
ASSUME TradesAssumption == \A o \in Ops : o.kind = "trade" => IsFiniteSet(o.items)
ASSUME RowsAssumption ==
  /\ InitRows \subseteq [roster : Roster, player : Player, via : {"draft"}]
  /\ \A x, y \in InitRows : x.player = y.player => x = y
ASSUME SizeAssumption == MaxSize \in Nat
ASSUME NoneAssumption == None \notin Player

VARIABLES
  rows,   \* committed rows of roster_players
  wire,   \* committed players on the waiver wire
  req,    \* the request each transaction executes, <<>> when idle
  todo,   \* the statements it has still to run
  ins,    \* rows it has written and not committed
  del,    \* committed rows it has deleted or moved, and so holds locked
  on,     \* players it puts on the wire
  off     \* players it takes off the wire

vars == <<rows, wire, req, todo, ins, del, on, off>>

Statement == {"wire", "snapshot", "owner", "exists", "size", "delete",
              "insert", "items", "sizes", "move", "commit"}

TypeOK ==
  /\ rows \subseteq Row
  /\ wire \subseteq Player
  /\ \A t \in Tx : req[t] = <<>> \/ req[t] \in Ops
  /\ \A t \in Tx : \A i \in DOMAIN todo[t] : todo[t][i] \in Statement
  /\ ins \in [Tx -> SUBSET Row]
  /\ del \in [Tx -> SUBSET rows]
  /\ on \in [Tx -> SUBSET Player]
  /\ off \in [Tx -> SUBSET Player]
  /\ \A x, y \in rows : x.roster = y.roster /\ x.player = y.player => x = y

-----------------------------------------------------------------------------
(* Locks, plans and visibility                                             *)

\* Free-agent additions lock the roster they write instead of the league.
LocksOf_Faulty(o) ==
  CASE o.kind = "trade" -> {<<"TRADE">>} \cup {<<"ROSTER", i.from>> : i \in o.items}
                                         \cup {<<"ROSTER", i.to>> : i \in o.items}
    [] o.kind = "waiver" -> {<<"WAIVER">>}
    [] OTHER -> {<<"ROSTER", o.roster>>}

LocksOf(o) ==
  CASE o.kind = "trade" -> {<<"TRADE">>} \cup {<<"ROSTER", i.from>> : i \in o.items}
                                         \cup {<<"ROSTER", i.to>> : i \in o.items}
    [] o.kind = "waiver" -> {<<"WAIVER">>}
    [] OTHER -> {<<"LEAGUE">>}

\* The statements of each use case, in the order of the code.
Plan(o) ==
  CASE o.kind = "add"    -> <<"wire", "owner", "size", "insert", "commit">>
    [] o.kind = "drop"   -> <<"exists", "delete", "commit">>
    [] o.kind = "swap"   -> <<"wire", "owner", "exists", "delete", "insert", "commit">>
    [] o.kind = "waiver" -> IF o.drop = None
                            THEN <<"snapshot", "owner", "size", "insert", "commit">>
                            ELSE <<"snapshot", "exists", "delete",
                                   "owner", "size", "insert", "commit">>
    [] o.kind = "trade"  -> <<"items", "sizes", "move", "commit">>

\* isOnWaivers: there is an entry and its period is not over.
OnWaivers(p) == p \in wire

Seen(t) == (rows \ del[t]) \cup ins[t]

Owners(t, p) == {x.roster : x \in {y \in Seen(t) : y.player = p}}

SizeOf(t, r) == Cardinality({x \in Seen(t) : x.roster = r})

\* Another transaction holds one of these rows locked.
Locked(t, R) == \E u \in Tx \ {t} : R \cap del[u] # {}

SameKey(x, y) == x.roster = y.roster /\ x.player = y.player

\* The unique index makes the insertion of x wait for another transaction.
KeyBusy(t, x) == \E u \in Tx \ {t} : \E y \in ins[u] \cup del[u] : SameKey(x, y)

KeyTaken(t, x) == \E y \in Seen(t) : SameKey(x, y)

At(t, s) == todo[t] # <<>> /\ Head(todo[t]) = s

-----------------------------------------------------------------------------
Init ==
  /\ rows = InitRows
  /\ wire = {}
  /\ req = [t \in Tx |-> <<>>]
  /\ todo = [t \in Tx |-> <<>>]
  /\ ins = [t \in Tx |-> {}]
  /\ del = [t \in Tx |-> {}]
  /\ on = [t \in Tx |-> {}]
  /\ off = [t \in Tx |-> {}]

Finish(t) ==
  /\ req' = [req EXCEPT ![t] = <<>>]
  /\ todo' = [todo EXCEPT ![t] = <<>>]
  /\ ins' = [ins EXCEPT ![t] = {}]
  /\ del' = [del EXCEPT ![t] = {}]
  /\ on' = [on EXCEPT ![t] = {}]
  /\ off' = [off EXCEPT ![t] = {}]

RollBack(t) == Finish(t) /\ UNCHANGED <<rows, wire>>

\* The statement succeeds and has no effect the model keeps.
Pass(t) ==
  /\ todo' = [todo EXCEPT ![t] = Tail(@)]
  /\ UNCHANGED <<rows, wire, req, ins, del, on, off>>

\* A waiver claim that fails validation, or whose addition is refused, is
\* marked failed or invalid; what its transaction has done until then stays.
RefuseClaim(t) ==
  /\ todo' = [todo EXCEPT ![t] = <<"commit">>]
  /\ UNCHANGED <<rows, wire, req, ins, del, on, off>>

\* A failed check throws; waiver processing catches what addPlayerToRoster throws.
Refuse(t) == IF req[t].kind = "waiver" THEN RefuseClaim(t) ELSE RollBack(t)

\* BEGIN and the advisory locks of the operation.
Begin(t, o) ==
  /\ req[t] = <<>>
  /\ \A u \in Tx : req[u] # <<>> => LocksOf(req[u]) \cap LocksOf(o) = {}
  /\ req' = [req EXCEPT ![t] = o]
  /\ todo' = [todo EXCEPT ![t] = Plan(o)]
  /\ UNCHANGED <<rows, wire, ins, del, on, off>>

\* addPlayer, addDropPlayer: a player on waivers cannot be added.
CheckWire(t) ==
  /\ At(t, "wire")
  /\ IF OnWaivers(req[t].add) THEN RollBack(t) ELSE Pass(t)

\* processLeagueWaivers: the league's ownership and the roster's players and
\* size as loaded before the rounds begin.
Snapshot(t) ==
  /\ At(t, "snapshot")
  /\ LET o == req[t]
         valid == /\ Owners(t, o.add) = {}
                  /\ IF o.drop = None THEN SizeOf(t, o.roster) < MaxSize
                                      ELSE o.roster \in Owners(t, o.drop)
     IN IF valid THEN Pass(t) ELSE RefuseClaim(t)

\* findOwner.
CheckOwner(t) ==
  /\ At(t, "owner")
  /\ IF Owners(t, req[t].add) = {} THEN Pass(t) ELSE Refuse(t)

\* removePlayerFromRoster and swapPlayers: the player must be on the roster.
\* executeClaim goes on without the drop when he is not.
CheckExists(t) ==
  /\ At(t, "exists")
  /\ IF req[t].roster \in Owners(t, req[t].drop) THEN Pass(t)
     ELSE IF req[t].kind = "waiver"
          THEN /\ todo' = [todo EXCEPT ![t] = Tail(Tail(@))]
               /\ UNCHANGED <<rows, wire, req, ins, del, on, off>>
          ELSE RollBack(t)

\* getPlayerCount before an addition.
CheckSize(t) ==
  /\ At(t, "size")
  /\ IF SizeOf(t, req[t].roster) < MaxSize THEN Pass(t) ELSE Refuse(t)

\* addToWaiverWireIfEnabled.
PutOnWire(t, p) == on' = [on EXCEPT ![t] = @ \cup {p}]

\* DELETE FROM roster_players, whose row count nobody reads, and the waiver
\* wire entry of the dropped player.
Delete(t) ==
  /\ At(t, "delete")
  /\ LET hit == {x \in rows : x.roster = req[t].roster /\ x.player = req[t].drop}
     IN /\ ~Locked(t, hit)
        /\ del' = [del EXCEPT ![t] = @ \cup hit]
  /\ PutOnWire(t, req[t].drop)
  /\ todo' = [todo EXCEPT ![t] = Tail(@)]
  /\ UNCHANGED <<rows, wire, req, ins, off>>

\* A player who is claimed leaves the waiver wire.
TakeOffWire(t, p) == off' = [off EXCEPT ![t] = @ \cup {p}]

\* INSERT INTO roster_players; a duplicate key aborts the transaction.
Insert(t) ==
  /\ At(t, "insert")
  /\ LET waiver == req[t].kind = "waiver"
         new == [roster |-> req[t].roster, player |-> req[t].add,
                 via |-> IF waiver THEN "waiver" ELSE "free_agent"]
     IN /\ ~KeyBusy(t, new)
        /\ IF KeyTaken(t, new) THEN RollBack(t)
           ELSE /\ ins' = [ins EXCEPT ![t] = @ \cup {new}]
                /\ IF waiver THEN TakeOffWire(t, new.player) ELSE UNCHANGED off
                /\ todo' = [todo EXCEPT ![t] = Tail(@)]
                /\ UNCHANGED <<rows, wire, req, del, on>>

\* executeTrade: every item is still on its from-roster.
CheckItems(t) ==
  /\ At(t, "items")
  /\ IF \A i \in req[t].items : i.from \in Owners(t, i.player) THEN Pass(t) ELSE RollBack(t)

\* executeTrade: rosters that receive more than they give stay within the limit.
CheckSizes(t) ==
  /\ At(t, "sizes")
  /\ LET delta(r) == Cardinality({i \in req[t].items : i.to = r})
                       - Cardinality({i \in req[t].items : i.from = r})
     IN IF \A r \in Roster : delta(r) > 0 => SizeOf(t, r) + delta(r) <= MaxSize
        THEN Pass(t) ELSE RollBack(t)

\* The rows the WHERE clause of the swap matches.
Matched(t) ==
  {x \in rows : /\ \E i \in req[t].items : i.player = x.player
                /\ \E i \in req[t].items : i.from = x.roster}

\* The CASE expression: where the swap sends a matched row.
Moved(t, x) ==
  [x EXCEPT !.roster = (CHOOSE i \in req[t].items : i.player = x.player).to]

\* The UPDATE would give two rows one key; a row may keep its own.
Collides(t) ==
  \E x \in Matched(t) : \E y \in Seen(t) \ {x} :
    \/ SameKey(Moved(t, x), y)
    \/ y \in Matched(t) /\ SameKey(Moved(t, x), Moved(t, y))

\* The row count of the UPDATE is not compared with the number of items.
Move_Faulty(t) ==
  /\ At(t, "move")
  /\ ~Locked(t, Matched(t))
  /\ \A x \in Matched(t) : ~KeyBusy(t, Moved(t, x))
  /\ IF Collides(t)
     THEN RollBack(t)
     ELSE /\ del' = [del EXCEPT ![t] = Matched(t)]
          /\ ins' = [ins EXCEPT ![t] = {Moved(t, x) : x \in Matched(t)}]
          /\ todo' = [todo EXCEPT ![t] = Tail(@)]
          /\ UNCHANGED <<rows, wire, req, on, off>>

\* The single UPDATE of executeTrade and the check of its row count.
Move(t) ==
  /\ At(t, "move")
  /\ ~Locked(t, Matched(t))
  /\ \A x \in Matched(t) : ~KeyBusy(t, Moved(t, x))
  /\ IF Cardinality(Matched(t)) # Cardinality(req[t].items) \/ Collides(t)
     THEN RollBack(t)
     ELSE /\ del' = [del EXCEPT ![t] = Matched(t)]
          /\ ins' = [ins EXCEPT ![t] = {Moved(t, x) : x \in Matched(t)}]
          /\ todo' = [todo EXCEPT ![t] = Tail(@)]
          /\ UNCHANGED <<rows, wire, req, on, off>>

\* COMMIT: the writes become visible, row locks and advisory locks go.
Commit(t) ==
  /\ At(t, "commit")
  /\ rows' = (rows \ del[t]) \cup ins[t]
  /\ wire' = (wire \cup on[t]) \ off[t]
  /\ Finish(t)

\* Lost connection, statement timeout, deadlock victim, process crash.
Abort(t) == req[t] # <<>> /\ RollBack(t)

\* A waiver period ends: isOnWaivers no longer finds the player.
WireExpires(p) ==
  /\ p \in wire
  /\ wire' = wire \ {p}
  /\ UNCHANGED <<rows, req, todo, ins, del, on, off>>

Next ==
  \/ \E t \in Tx :
       \/ \E o \in Ops : Begin(t, o)
       \/ CheckWire(t) \/ Snapshot(t) \/ CheckOwner(t) \/ CheckExists(t) \/ CheckSize(t)
       \/ Delete(t) \/ Insert(t)
       \/ CheckItems(t) \/ CheckSizes(t) \/ Move(t)
       \/ Commit(t) \/ Abort(t)
  \/ \E p \in Player : WireExpires(p)

Spec == Init /\ [][Next]_vars

-----------------------------------------------------------------------------
(* Properties                                                              *)

\* What the locks do guarantee: two rosters own the same player only if a
\* free-agent addition and a waiver claim, which hold different locks, both
\* found him free.  Two additions, or two claims, never share a player.
OwnersFromDifferentLocks ==
  \A x, y \in rows : x.player = y.player /\ x # y => {x.via, y.via} = {"free_agent", "waiver"}

\* A trade moves all its players or none, whatever the free-agent and waiver
\* transactions that interleave with it drop and add: when it commits, every
\* player it names arrives on the roster he is to go to, each row that goes
\* was on one of the rosters that give, and no other row changes.
TradesDeliver ==
  [][\A t \in Tx : Commit(t) /\ req[t].kind = "trade" =>
       LET left == rows \ rows'
           came == rows' \ rows
       IN /\ \A i \in req[t].items : \E x \in rows' : x.player = i.player /\ x.roster = i.to
          /\ \A x \in left : /\ \E i \in req[t].items : i.player = x.player
                             /\ \E i \in req[t].items : i.from = x.roster
          /\ \A x \in came : \E i \in req[t].items : i.player = x.player /\ i.to = x.roster
          /\ Cardinality(left) = Cardinality(came)]_vars

\* executeTrade: "One or more players may have been traded or dropped": a
\* trade only moves players from the rosters that give them.
TradesMoveExactly ==
  [][\A t \in Tx : Commit(t) /\ req[t].kind = "trade" =>
       \A i \in req[t].items : \E x \in rows : x.player = i.player /\ x.roster = i.from]_vars

\* A player has one owner in the league.
SingleOwner == \A x, y \in rows : x.player = y.player => x.roster = y.roster
=============================================================================
