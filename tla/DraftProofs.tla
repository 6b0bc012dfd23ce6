--------------------------- MODULE DraftProofs ------------------------------
(* Theorems about the drafts, for every league, draft and order.  DraftRoom: *)
(* the counter and the board keep step, and the draft implements DraftBoard. *)
(* DraftSetup: every derby stays in order, and tradeable picks are kept.     *)
EXTENDS DraftRoom, DraftSetup, FiniteSetTheorems, WellFoundedInduction, TLAPS

\* The inductive invariant.  A draft that has not started has an empty board
\* and one that runs has a turn; a completed one has filled its rosters, so
\* that the holes an undo after an early completion leaves are excused.
Stages ==
  /\ status = "not_started" => DOMAIN board = {}
  /\ status \in {"in_progress", "paused"} => current \in Pick
  /\ status = "completed" => populated

DraftInv == TypeOK /\ CounterMatchesBoard /\ ClockRuns /\ Stages

-----------------------------------------------------------------------------
(* The order of the picks                                                  *)

LEMMA Sizes == Teams \in Nat \ {0} /\ Total \in Nat \ {0} /\ Total = Teams * Rounds
<1>1. Teams \in Nat
  BY OrderAssumption, FS_CardinalityType DEF Teams
<1>2. Teams # 0
  BY OrderAssumption, FS_EmptySet DEF Teams
<1>3. Teams * Rounds \in Nat \ {0}
  <2> DEFINE T == Teams
             R == Rounds
  <2>1. T \in Nat \ {0} /\ R \in Nat \ {0}
    BY <1>1, <1>2, OrderAssumption
  <2>2. T * R \in Nat /\ T * R # 0
    <3> HIDE DEF T, R
    <3> QED BY <2>1
  <2> QED BY <2>2
<1> QED BY <1>1, <1>2, <1>3 DEF Total

\* Every pick has a slot: the position computed from the pick number is a
\* position of the draft order, forwards and backwards.
LEMMA SlotType == \A k \in Pick : Slot(k) \in Roster
<1> DEFINE T == Teams
<1>1. T \in Nat \ {0}
  BY Sizes
<1> SUFFICES ASSUME NEW k \in Pick PROVE Slot(k) \in Roster
  OBVIOUS
<1>2. k - 1 \in Nat
  BY Sizes DEF Pick
<1>3. (k - 1) % T \in 0..(T - 1)
  <2> HIDE DEF T
  <2> QED BY <1>1, <1>2
<1>4. PickInRound(k) \in 1..Teams /\ Teams - PickInRound(k) + 1 \in 1..Teams
  BY <1>1, <1>3 DEF PickInRound
<1> QED BY <1>4, OrderAssumption DEF Slot

-----------------------------------------------------------------------------
(* The invariant                                                           *)

LEMMA InvInit == Init => DraftInv
<1> SUFFICES ASSUME Init PROVE DraftInv
  OBVIOUS
<1>1. 1 \in 0..Total /\ DOMAIN board = {}
  BY Sizes DEF Init
<1>2. TypeOK
  BY <1>1, SlotType DEF Init, TypeOK, NoDeal
<1> QED BY <1>1, <1>2 DEF Init, DraftInv, CounterMatchesBoard, ClockRuns, Stages

\* The rosters receive entries of the board only.
LEMMA FinalizeType ==
  ASSUME NEW picks, \A k \in DOMAIN picks : picks[k] \in Entry,
         rostered \subseteq Roster \X Player, Finalize(picks)
  PROVE  populated' = TRUE /\ rostered' \subseteq Roster \X Player
<1>1. {<<picks[k].roster, picks[k].player>> : k \in DOMAIN picks} \subseteq Roster \X Player
  BY DEF Entry
<1> QED BY <1>1 DEF Finalize, Filled

\* A pick fills the number on the clock, which becomes the last one, and the
\* turn goes to the next number or the draft is completed.
LEMMA InsertInv ==
  ASSUME DraftInv, status = "in_progress", NEW e \in Entry, Insert(e),
         autodraft' \subseteq Roster, UNCHANGED <<owner, night, starting, deal>>
  PROVE  DraftInv'
<1>1. current \in Pick /\ Total \in Nat /\ current \notin DOMAIN board
  BY Sizes DEF DraftInv, Stages, Insert
<1>2. DOMAIN board' = DOMAIN board \cup {current} /\ DOMAIN board' \subseteq Pick
  BY <1>1 DEF Insert, DraftInv, TypeOK
<1>3. \A k \in DOMAIN board' : board'[k] \in Entry
  BY <1>1 DEF Insert, DraftInv, TypeOK
<1>4. \A k \in DOMAIN board : k \in Int /\ k < current
  BY DEF DraftInv, CounterMatchesBoard, TypeOK, Pick
<1>5. CASE current = Total
  <2>1. /\ status' = "completed" /\ current' = 0 /\ onClock' = Nobody /\ deadline' = "none"
        /\ Finalize(board')
    BY <1>5 DEF Insert, Advance
  <2>2. populated' = TRUE /\ rostered' \subseteq Roster \X Player
    BY <2>1, <1>3, FinalizeType DEF DraftInv, TypeOK
  <2>3. TypeOK'
    BY <1>1, <1>2, <1>3, <2>1, <2>2 DEF DraftInv, TypeOK, NoDeal
  <2> QED BY <2>1, <2>2, <2>3 DEF DraftInv, CounterMatchesBoard, ClockRuns, Stages
<1>6. CASE current # Total
  <2>1. /\ status' = "in_progress" /\ current' = current + 1 /\ deadline' = "ahead"
        /\ onClock' = owner[current + 1] /\ UNCHANGED <<populated, rostered>>
    BY <1>6 DEF Insert, Advance
  <2>2. current + 1 \in Pick
    BY <1>1, <1>6 DEF Pick
  <2>3. TypeOK'
    <3>1. owner[current + 1] \in Roster
      BY <2>2 DEF DraftInv, TypeOK
    <3> QED BY <1>1, <1>2, <1>3, <2>1, <2>2, <3>1 DEF DraftInv, TypeOK, NoDeal, Pick
  <2>4. CounterMatchesBoard'
    <3>1. \A k \in DOMAIN board' : k < current'
      BY <1>1, <1>2, <1>4, <2>1 DEF Pick
    <3>2. ASSUME ~populated' PROVE DOMAIN board' = 1..(current' - 1)
      <4>1. DOMAIN board = 1..(current - 1)
        BY <3>2, <2>1 DEF DraftInv, CounterMatchesBoard
      <4> QED BY <4>1, <1>1, <1>2, <2>1 DEF Pick
    <3> QED BY <3>1, <3>2 DEF CounterMatchesBoard
  <2>5. ClockRuns'
    BY <2>1, <2>2, NobodyAssumption DEF ClockRuns, DraftInv, TypeOK
  <2> QED BY <2>1, <2>2, <2>3, <2>4, <2>5 DEF DraftInv, Stages
<1> QED BY <1>5, <1>6

\* Removing the last pick gives its number back.
LEMMA UndoInv == ASSUME DraftInv, Undo PROVE DraftInv'
<1> PICK last \in DOMAIN board :
      /\ \A k \in DOMAIN board : k <= last
      /\ board' = [k \in DOMAIN board \ {last} |-> board[k]]
  BY DEF Undo
<1>1. Total \in Nat \ {0} /\ DOMAIN board \subseteq 1..Total
  BY Sizes DEF DraftInv, TypeOK, Pick
<1>2. /\ DOMAIN board' = DOMAIN board \ {last}
      /\ \A k \in DOMAIN board' : k \in 1..Total /\ k < last /\ board'[k] \in Entry
  BY <1>1 DEF DraftInv, TypeOK
<1>3. UNCHANGED <<autodraft, owner, populated, rostered, night, starting, deal>>
  BY DEF Undo
<1>4. status \in {"in_progress", "paused", "completed"}
  BY DEF Undo, DraftInv, TypeOK
<1>5. current' \in Pick /\ \A k \in DOMAIN board' : k < current'
  <2>1. CASE status = "completed"
    BY <2>1, <1>1, <1>2 DEF Undo, Pick
  <2>2. CASE status # "completed"
    <3>1. current' = current - 1 /\ last < current /\ current \in Pick
      BY <2>2, <1>4 DEF Undo, DraftInv, CounterMatchesBoard, Stages
    <3> QED BY <3>1, <1>1, <1>2 DEF Pick
  <2> QED BY <2>1, <2>2
<1>6. onClock' \in Roster
  BY <1>5 DEF Undo, DraftInv, TypeOK
<1>7. status' \in {"in_progress", "paused"} /\ (status' = "in_progress" <=> deadline' # "none")
      /\ deadline' \in {"none", "ahead"}
  BY <1>4 DEF Undo
<1>8. TypeOK'
  BY <1>1, <1>2, <1>3, <1>5, <1>6, <1>7 DEF DraftInv, TypeOK, Pick, NoDeal
<1>9. ASSUME ~populated' PROVE DOMAIN board' = 1..(current' - 1)
  <2>1. ~populated /\ status \in {"in_progress", "paused"}
    BY <1>9, <1>3, <1>4 DEF DraftInv, Stages
  <2>2. DOMAIN board = 1..(current - 1) /\ current' = current - 1 /\ current \in Pick
    BY <2>1 DEF DraftInv, CounterMatchesBoard, Undo, Stages
  <2>3. last = current - 1
    <3>1. current \in Int /\ last \in Int /\ 1 <= last /\ last <= current - 1
      BY <2>2, <1>1 DEF Pick
    <3>2. current - 1 \in DOMAIN board
      BY <2>2, <3>1
    <3> QED BY <3>1, <3>2
  <2> QED BY <1>2, <2>2, <2>3 DEF Pick
<1> QED BY <1>5, <1>6, <1>7, <1>8, <1>9, NobodyAssumption
        DEF DraftInv, CounterMatchesBoard, ClockRuns, Stages

\* Closing the draft fills the rosters, if that has not been done.
LEMMA CloseInv ==
  ASSUME DraftInv, Close, UNCHANGED <<board, owner, night, starting, deal, autodraft>>
  PROVE  DraftInv'
<1>1. populated' = TRUE /\ rostered' \subseteq Roster \X Player
  BY FinalizeType DEF DraftInv, TypeOK, Close
<1>2. TypeOK'
  BY <1>1 DEF DraftInv, TypeOK, Close, NoDeal
<1> QED BY <1>1, <1>2 DEF DraftInv, Close, CounterMatchesBoard, ClockRuns, Stages

\* A tick that acts makes the pick: the number on the clock is never taken.
LEMMA TickPicks ==
  ASSUME DraftInv, NEW p \in Player, Tick(p)
  PROVE  /\ Insert([roster |-> onClock, player |-> p, auto |-> TRUE])
         /\ [roster |-> onClock, player |-> p, auto |-> TRUE] \in Entry
         /\ autodraft' = autodraft \cup {onClock}
         /\ status = "in_progress" /\ UNCHANGED <<owner, night, starting, deal>>
<1>1. status = "in_progress" /\ onClock \in Roster /\ current \in Pick
  BY DEF Tick, DraftInv, ClockRuns, Stages, TypeOK
<1>2. current \notin DOMAIN board
  BY <1>1 DEF DraftInv, CounterMatchesBoard, Pick
<1> QED BY <1>1, <1>2 DEF Tick, Entry

-----------------------------------------------------------------------------
(* Every step preserves the invariant                                      *)

LEMMA InvStep == DraftInv /\ [Next]_vars => DraftInv'
<1> SUFFICES ASSUME DraftInv, [Next]_vars PROVE DraftInv'
  OBVIOUS
<1> USE DEF DraftInv
<1>1. ASSUME NEW p \in Player, Tick(p) PROVE DraftInv'
  <2>1. autodraft' \subseteq Roster
    BY <1>1, TickPicks DEF TypeOK, ClockRuns
  <2> QED BY <1>1, <2>1, TickPicks, InsertInv
<1>2. ASSUME NEW p \in Player, NEW r \in Roster, MakePick(r, p) PROVE DraftInv'
  <2> DEFINE e == [roster |-> r, player |-> p, auto |-> FALSE]
  <2>1. status = "in_progress" /\ Insert(e) /\ UNCHANGED <<autodraft, owner, night, starting, deal>>
    BY <1>2 DEF MakePick, MayPick
  <2>2. e \in Entry
    BY DEF Entry
  <2> HIDE DEF e
  <2> QED BY <2>1, <2>2, InsertInv DEF TypeOK
<1>3. ASSUME NEW r \in Roster, RepeatPick(r) PROVE DraftInv'
  <2>1. populated' = TRUE /\ rostered' \subseteq Roster \X Player
    BY <1>3, FinalizeType DEF RepeatPick, TypeOK
  <2>2. UNCHANGED <<status, current, onClock, deadline, board, autodraft, owner, night,
                    starting, deal>>
    BY <1>3 DEF RepeatPick
  <2> QED BY <2>1, <2>2 DEF TypeOK, CounterMatchesBoard, ClockRuns, Stages, NoDeal
<1>4. ASSUME NEW r \in Roster, ToggleAutodraft(r) PROVE DraftInv'
  BY <1>4 DEF ToggleAutodraft, TypeOK, CounterMatchesBoard, ClockRuns, Stages, NoDeal
<1>5. ASSUME NEW r \in Roster, Start(r) PROVE DraftInv'
  <2>1. 1 \in Pick /\ 1 \in 0..Total /\ DOMAIN board = {}
    BY <1>5, Sizes DEF Start, Stages, Pick
  <2> QED BY <1>5, <2>1, NobodyAssumption
          DEF Start, TypeOK, CounterMatchesBoard, ClockRuns, Stages, NoDeal
<1>6. ASSUME Undo PROVE DraftInv'
  BY <1>6, UndoInv
<1>7. ASSUME AskStart PROVE DraftInv'
  <2>1. owner[1] \in Roster
    BY Sizes DEF TypeOK, Pick
  <2> QED BY <1>7, <2>1
          DEF AskStart, TypeOK, CounterMatchesBoard, ClockRuns, Stages, NoDeal
<1>8. ASSUME Pause \/ Resume PROVE DraftInv'
  <2>1. UNCHANGED <<current, onClock, board, autodraft, owner, populated, rostered, night,
                    starting, deal>>
    BY <1>8 DEF Pause, Resume
  <2>2. \/ status = "in_progress" /\ status' = "paused" /\ deadline' = "none"
        \/ status = "paused" /\ status' = "in_progress" /\ deadline' \in {"ahead", "passed"}
    BY <1>8 DEF Pause, Resume
  <2>3. TypeOK' /\ Stages' /\ CounterMatchesBoard'
    BY <2>1, <2>2 DEF TypeOK, CounterMatchesBoard, Stages, NoDeal
  <2>4. ClockRuns'
    BY <2>1, <2>2, NobodyAssumption DEF ClockRuns, TypeOK
  <2> QED BY <2>3, <2>4
<1>9. ASSUME Complete PROVE DraftInv'
  BY <1>9, CloseInv DEF Complete
<1>10. ASSUME NEW k \in Tradable, NEW r \in Roster, AgreeTrade(k, r) PROVE DraftInv'
  BY <1>10 DEF AgreeTrade, TypeOK, CounterMatchesBoard, ClockRuns, Stages, NoDeal
<1>11. ASSUME TransferPick PROVE DraftInv'
  <2>1. deal \in [pick : Tradable, to : Roster]
    BY <1>11 DEF TransferPick, TypeOK
  <2>2. owner' \in [Pick -> Roster]
    BY <1>11, <2>1 DEF TransferPick, TypeOK
  <2> QED BY <1>11, <2>2
          DEF TransferPick, TypeOK, CounterMatchesBoard, ClockRuns, Stages, NoDeal
<1>12. ASSUME AbandonTrade PROVE DraftInv'
  BY <1>12 DEF AbandonTrade, TypeOK, CounterMatchesBoard, ClockRuns, Stages, NoDeal
<1>13. ASSUME Expire \/ Dusk \/ Dawn PROVE DraftInv'
  BY <1>13 DEF Expire, Dusk, Dawn, TypeOK, CounterMatchesBoard, ClockRuns, Stages, NoDeal
<1>14. ASSUME UNCHANGED vars PROVE DraftInv'
  BY <1>14 DEF vars, TypeOK, CounterMatchesBoard, ClockRuns, Stages, NoDeal
<1> QED BY <1>1, <1>2, <1>3, <1>4, <1>5, <1>6, <1>7, <1>8, <1>9, <1>10, <1>11, <1>12,
           <1>13, <1>14 DEF Next

\* The draft room keeps its types, the counter in step with the board, and a
\* deadline on exactly the drafts that run, for every league.
THEOREM DraftInvariant == Spec => [](TypeOK /\ CounterMatchesBoard /\ ClockRuns)
<1>1. DraftInv => TypeOK /\ CounterMatchesBoard /\ ClockRuns
  BY DEF DraftInv
<1> QED BY InvInit, InvStep, <1>1, PTL DEF Spec

\* A deadline stands exactly while the draft is in progress, and a roster is
\* on the clock from the start to the end: no pause, undo or completion leaves
\* a running draft the job does not see.
THEOREM DraftClockRuns == Spec => []ClockRuns
<1> QED BY DraftInvariant, PTL

-----------------------------------------------------------------------------
(* The draft implements DraftBoard                                         *)

\* A pick is one step of the contract: the entry joins behind all others.
LEMMA InsertIsPick ==
  ASSUME DraftInv, status = "in_progress", NEW e \in Entry, Insert(e)
  PROVE  Contract!Next
<1>1. current \in 1..Total
  BY DEF DraftInv, Stages, Pick
<1>2. \A j \in DOMAIN board : j < current /\ board[j].player # e.player
  BY DEF DraftInv, CounterMatchesBoard, Insert, Drafted
<1>3. board' = [j \in DOMAIN board \cup {current} |-> IF j = current THEN e ELSE board[j]]
  BY DEF Insert
<1>4. status' = IF current = Total THEN "completed" ELSE "in_progress"
  BY DEF Insert, Advance
<1>5. Contract!Pick(current, e)
  BY <1>2, <1>3, <1>4 DEF Contract!Pick
<1>6. e \in Contract!Entry
  BY DEF Contract!Entry, Entry
<1> QED BY <1>1, <1>5, <1>6 DEF Contract!Next

LEMMA StepKeepsBoard ==
  DraftInv /\ [Next]_vars => [Contract!Next]_<<status, board>>
<1> SUFFICES ASSUME DraftInv, [Next]_vars PROVE Contract!Next \/ UNCHANGED <<status, board>>
  OBVIOUS
<1>1. ASSUME NEW p \in Player, Tick(p) PROVE Contract!Next
  BY <1>1, TickPicks, InsertIsPick
<1>2. ASSUME NEW p \in Player, NEW r \in Roster, MakePick(r, p) PROVE Contract!Next
  <2>1. [roster |-> r, player |-> p, auto |-> FALSE] \in Entry
    BY DEF Entry
  <2> QED BY <1>2, <2>1, InsertIsPick DEF MakePick, MayPick
<1>3. ASSUME Undo PROVE Contract!Next
  <2>1. Contract!Undo
    BY <1>3 DEF Undo, Contract!Undo
  <2> QED BY <2>1 DEF Contract!Next
<1>4. ASSUME NEW r \in Roster, Start(r) PROVE Contract!Next
  BY <1>4 DEF Start, Contract!Next, Contract!Direct
<1>5. ASSUME Pause \/ Resume \/ Complete PROVE Contract!Next
  BY <1>5 DEF Pause, Resume, Complete, Close, Contract!Next, Contract!Direct
<1>6. ASSUME NEW r \in Roster, RepeatPick(r) \/ ToggleAutodraft(r)
      PROVE  UNCHANGED <<status, board>>
  BY <1>6 DEF RepeatPick, ToggleAutodraft
<1>7. ASSUME AskStart \/ TransferPick \/ AbandonTrade \/ Expire \/ Dusk \/ Dawn
      PROVE  UNCHANGED <<status, board>>
  BY <1>7 DEF AskStart, TransferPick, AbandonTrade, Expire, Dusk, Dawn
<1>8. ASSUME NEW k \in Tradable, NEW r \in Roster, AgreeTrade(k, r)
      PROVE  UNCHANGED <<status, board>>
  BY <1>8 DEF AgreeTrade
<1>9. ASSUME UNCHANGED vars PROVE UNCHANGED <<status, board>>
  BY <1>9 DEF vars
<1> QED BY <1>1, <1>2, <1>3, <1>4, <1>5, <1>6, <1>7, <1>8, <1>9 DEF Next

\* Whatever interleaves, the members see a draft as DraftBoard describes it.
THEOREM DraftKeepsBoard == Spec => KeepsBoard
<1>1. Init => Contract!Init
  BY DEF Init, Contract!Init
<1> QED BY InvInit, InvStep, StepKeepsBoard, <1>1, PTL DEF Spec, KeepsBoard, Contract!Spec

-----------------------------------------------------------------------------
(* The setup of a league's drafts: the derby and the tradeable picks        *)

\* A derby among n rosters, whoever is asked: every roster has one place in
\* the turn order, and at most one slot.
DerbyShape(derby) ==
    LET n == Len(derby.turn)
    IN  /\ DOMAIN derby = {"turn", "idx", "picker", "slots"}
        /\ derby.turn \in Seq(Nat \ {Free})
        /\ \A i, j \in 1..n : derby.turn[i] = derby.turn[j] => i = j
        /\ derby.idx \in 1..n /\ derby.picker = derby.turn[derby.idx]
        /\ derby.slots \in [1..n -> Listed(derby.turn) \union {Free}]
        /\ \A s, t \in 1..n : derby.slots[s] = derby.slots[t] /\ s # t => derby.slots[s] = Free

\* ... and the one that is asked has none.
DerbyOK(derby) == DerbyShape(derby) /\ ~HasSlot(derby, derby.picker)

DraftColumns == {"type", "pool", "rounds", "status", "phase", "order", "confirmed", "derby",
                 "current", "pick", "games"}

DraftsOK ==
    \A d \in DOMAIN drafts : /\ DOMAIN drafts[d] = DraftColumns
                             /\ InDerby(d) => DerbyOK(drafts[d].derby)

\* Rows of draft_pick_assets.
PickRows(a) == \A key \in DOMAIN a : DOMAIN a[key] = {"owner", "draft", "pos"}

\* The invariant of the setup: also the derby a pause is about to write back is
\* one in order, and the picks a request is about to insert are rows.
SetupInv ==
    /\ members \in Nat \ {0}
    /\ left \in [derby : Nat, op : Nat, trade : Nat, draft : Nat]
    /\ DraftsOK
    /\ op.kind = "pause" => DerbyOK(op.derby)
    /\ PickRows(assets)
    /\ op.kind = "generate" => PickRows(op.picks)

\* Some element of a set of natural numbers is the least.
LEMMA LeastOf ==
    ASSUME NEW S, S \subseteq Nat, S # {}
    PROVE  Nearest(S) \in S
<1> DEFINE R == {p \in Nat \X Nat : p[1] < p[2]}
<1>1. IsWellFoundedOn(R, Nat)
  BY NatLessThanWellFounded DEF OpToRel
<1>2. PICK i \in S : \A j \in S : ~(<<j, i>> \in R)
  <2> HIDE DEF R
  <2>. QED BY <1>1, WFMin
<1>3. \A j \in S : i <= j
  <2>1. ASSUME NEW j \in S
        PROVE  i <= j
    <3>1. i \in Nat /\ j \in Nat
      OBVIOUS
    <3>2. ~(j < i)
      BY <1>2, <3>1
    <3>. QED BY <3>1, <3>2
  <2>. QED BY <2>1
<1>. QED BY <1>2, <1>3 DEF Nearest

\* As long as a slot is free, somebody in the turn order has none.
LEMMA SomebodyWaits ==
    ASSUME NEW derby, DerbyShape(derby), Available(derby) # {}
    PROVE  \E j \in 1..Len(derby.turn) : ~HasSlot(derby, derby.turn[j])
<1> DEFINE n == Len(derby.turn)
<1>1. n \in Nat /\ DOMAIN derby.slots = 1..n
  BY DEF DerbyShape
<1>2. PICK s \in 1..n : derby.slots[s] = Free
  BY <1>1 DEF Available
<1>3. SUFFICES ASSUME \A j \in 1..n : HasSlot(derby, derby.turn[j])
               PROVE  FALSE
  OBVIOUS
<1> DEFINE f == [j \in 1..n |-> CHOOSE t \in 1..n : derby.slots[t] = derby.turn[j]]
           T == (1..n) \ {s}
<1>4. \A j \in 1..n : derby.turn[j] # Free
  BY DEF DerbyShape
<1>5. \A j \in 1..n : f[j] \in 1..n /\ derby.slots[f[j]] = derby.turn[j]
  BY <1>1, <1>3 DEF HasSlot
<1>6. f \in [1..n -> T]
  BY <1>2, <1>4, <1>5
<1>7. IsFiniteSet(1..n) /\ Cardinality(1..n) = n
  BY <1>1, FS_Interval
<1>8. IsFiniteSet(T) /\ Cardinality(T) < Cardinality(1..n)
  <2>1. IsFiniteSet(T) /\ Cardinality(T) = Cardinality(1..n) - 1
    BY <1>2, <1>7, FS_RemoveElement
  <2>. QED BY <1>1, <1>7, <2>1
<1>9. PICK x, y \in 1..n : x # y /\ f[x] = f[y]
  <2> HIDE DEF f, T, n
  <2>. QED BY <1>6, <1>7, <1>8, FS_PigeonHole
<1>10. derby.turn[x] = derby.turn[y]
  <2> HIDE DEF f
  <2>. QED BY <1>5, <1>9
<1>. QED BY <1>9, <1>10 DEF DerbyShape

LEMMA Remainders ==
    ASSUME NEW a \in Nat, NEW n \in Nat, a < n
    PROVE  a % n = a /\ (n + a) % n = a
OBVIOUS

\* Going round the table from any place one comes to every other place.
LEMMA RoundTheTable ==
    ASSUME NEW derby, DerbyShape(derby)
    PROVE  /\ \A i \in Nat : After(derby, i) \in 1..Len(derby.turn)
           /\ \A j \in 1..Len(derby.turn) : j # derby.idx =>
                 \E i \in 1..(Len(derby.turn) - 1) : After(derby, i) = j
<1> DEFINE n == Len(derby.turn)
           k == derby.idx
<1>1. n \in Nat /\ k \in 1..n
  BY DEF DerbyShape
<1>2. \A i : After(derby, i) = ((k - 1 + i) % n) + 1
  BY DEF After
<1> HIDE DEF n, k
<1>3. \A m \in Nat : m % n \in 0..(n - 1)
  BY <1>1
<1>4. \A i \in Nat : After(derby, i) \in 1..n
  <2> TAKE i \in Nat
  <2>1. k - 1 + i \in Nat
    BY <1>1
  <2>2. (k - 1 + i) % n \in 0..(n - 1)
    BY <1>3, <2>1
  <2>. QED BY <1>1, <1>2, <2>2
<1>5. ASSUME NEW j \in 1..n, j # k
      PROVE  \E i \in 1..(n - 1) : After(derby, i) = j
  <2>1. CASE j > k
    <3>1. (j - k) \in 1..(n - 1) /\ k - 1 + (j - k) = j - 1
      BY <1>1, <2>1
    <3>2. (j - 1) % n = j - 1
      <4>1. j - 1 \in Nat /\ n \in Nat /\ j - 1 < n
        BY <1>1
      <4>. QED BY <4>1, Remainders
    <3>3. After(derby, j - k) = j
      <4>1. After(derby, j - k) = ((k - 1 + (j - k)) % n) + 1
        BY <1>2
      <4>. QED BY <1>1, <3>1, <3>2, <4>1
    <3>. QED BY <3>1, <3>3
  <2>2. CASE j < k
    <3>1. (n + j - k) \in 1..(n - 1) /\ k - 1 + (n + j - k) = n + (j - 1)
      BY <1>1, <2>2
    <3>2. (n + (j - 1)) % n = j - 1
      <4>1. j - 1 \in Nat /\ n \in Nat /\ j - 1 < n
        BY <1>1
      <4>. QED BY <4>1, Remainders
    <3>3. After(derby, n + j - k) = j
      <4>1. After(derby, n + j - k) = ((k - 1 + (n + j - k)) % n) + 1
        BY <1>2
      <4>. QED BY <1>1, <3>1, <3>2, <4>1
    <3>. QED BY <3>1, <3>3
  <2>. QED BY <1>1, <1>5, <2>1, <2>2
<1>. QED BY <1>4, <1>5 DEF n, k

\* The next one round the table who has no slot.
LEMMA NextWaits ==
    ASSUME NEW derby, DerbyShape(derby), Waits(derby) # {}
    PROVE  LET next == After(derby, Nearest(Waits(derby)))
           IN  next \in 1..Len(derby.turn) /\ ~HasSlot(derby, derby.turn[next])
<1> DEFINE i == Nearest(Waits(derby))
<1>1. Waits(derby) \subseteq Nat
  BY DEF Waits
<1>2. i \in Waits(derby)
  BY <1>1, LeastOf
<1> HIDE DEF i
<1>3. ~HasSlot(derby, derby.turn[After(derby, i)]) /\ i \in Nat
  BY <1>1, <1>2 DEF Waits
<1>4. After(derby, i) \in 1..Len(derby.turn)
  BY <1>3, RoundTheTable
<1>. QED BY <1>3, <1>4 DEF i

LEMMA DerbyBegins ==
    ASSUME NEW n \in Nat \ {0}, NEW order \in Orders(1..n)
    PROVE  DerbyOK(NewDerby(order))
<1>1. Cardinality(1..n) = n
  BY FS_Interval
<1>2. /\ order \in [1..n -> 1..n]
      /\ \A i, j \in 1..n : order[i] = order[j] => i = j
  BY <1>1 DEF Orders
<1>3. order \in Seq(Nat \ {Free}) /\ Len(order) = n
  BY <1>2 DEF Free
<1> DEFINE derby == NewDerby(order)
<1>4. /\ derby.turn = order /\ derby.idx = 1 /\ derby.picker = order[1]
      /\ derby.slots = [s \in 1..n |-> Free]
      /\ DOMAIN derby = {"turn", "idx", "picker", "slots"}
  BY <1>2 DEF NewDerby
<1> HIDE DEF derby
<1>5. DerbyShape(derby)
  BY <1>2, <1>3, <1>4 DEF DerbyShape
<1>6. ~HasSlot(derby, derby.picker)
  BY <1>2, <1>4 DEF HasSlot, Free
<1>. QED BY <1>5, <1>6 DEF DerbyOK, derby

\* A claim gives the one that is asked its only slot.
LEMMA ClaimShape ==
    ASSUME NEW derby, DerbyOK(derby), NEW s \in Available(derby)
    PROVE  DerbyShape(Claim(derby, s)) /\ HasSlot(Claim(derby, s), derby.picker)
<1> DEFINE new == Claim(derby, s)
           n == Len(derby.turn)
<1>1. /\ DerbyShape(derby) /\ n \in Nat /\ s \in 1..n /\ derby.slots[s] = Free
      /\ DOMAIN derby.slots = 1..n
      /\ \A t \in 1..n : derby.slots[t] # derby.picker
  BY DEF DerbyOK, DerbyShape, HasSlot, Available
<1>2. /\ new.turn = derby.turn /\ new.idx = derby.idx /\ new.picker = derby.picker
      /\ new.slots = [derby.slots EXCEPT ![s] = derby.picker]
      /\ DOMAIN new = {"turn", "idx", "picker", "slots"}
  BY <1>1 DEF Claim, DerbyShape
<1>3. derby.picker \in Listed(derby.turn)
  BY <1>1 DEF DerbyShape, Listed
<1> HIDE DEF new
<1>4. new.slots \in [1..n -> Listed(derby.turn) \union {Free}]
  BY <1>1, <1>2, <1>3 DEF DerbyShape
<1>5. \A t, u \in 1..n : new.slots[t] = new.slots[u] /\ t # u => new.slots[t] = Free
  BY <1>1, <1>2 DEF DerbyShape
<1>6. DerbyShape(new)
  BY <1>1, <1>2, <1>4, <1>5 DEF DerbyShape
<1>7. HasSlot(new, derby.picker)
  BY <1>1, <1>2 DEF HasSlot
<1>. QED BY <1>6, <1>7 DEF new

\* advanceToNextPicker finds somebody after a claim that is not the last.
LEMMA SomebodyIsNext ==
    ASSUME NEW derby, DerbyShape(derby), HasSlot(derby, derby.picker), Available(derby) # {}
    PROVE  DerbyOK(AdvanceToNextPicker(derby))
<1> DEFINE next == After(derby, Nearest(Waits(derby)))
           new == AdvanceToNextPicker(derby)
<1>1. PICK j \in 1..Len(derby.turn) : ~HasSlot(derby, derby.turn[j])
  BY SomebodyWaits
<1>2. j # derby.idx
  BY <1>1 DEF DerbyShape
<1>3. PICK i \in 1..(Len(derby.turn) - 1) : After(derby, i) = j
  BY <1>2, RoundTheTable
<1>4. Waits(derby) # {}
  BY <1>1, <1>3 DEF Waits
<1>5. next \in 1..Len(derby.turn) /\ ~HasSlot(derby, derby.turn[next])
  BY <1>4, NextWaits
<1>6. /\ new.turn = derby.turn /\ new.idx = next /\ new.picker = derby.turn[next]
      /\ new.slots = derby.slots /\ DOMAIN new = {"turn", "idx", "picker", "slots"}
  <2> HIDE DEF next
  <2>1. new = [derby EXCEPT !.idx = next, !.picker = derby.turn[next]]
    BY DEF AdvanceToNextPicker, next
  <2>. QED BY <2>1 DEF DerbyShape
<1> HIDE DEF next, new
<1>7. DerbyShape(new)
  BY <1>5, <1>6 DEF DerbyShape
<1>8. ~HasSlot(new, new.picker)
  BY <1>5, <1>6 DEF HasSlot
<1>. QED BY <1>7, <1>8 DEF DerbyOK, new

\* Another turn order of the same rosters, with a place of one without a slot.
Reordered(derby, new) ==
    LET n == Len(derby.turn)
    IN  /\ DOMAIN new = {"turn", "idx", "picker", "slots"} /\ new.slots = derby.slots
        /\ new.turn \in Seq(Nat \ {Free}) /\ Len(new.turn) = n
        /\ \A i \in 1..n : \E j \in 1..n : new.turn[j] = derby.turn[i]
        /\ \A i, j \in 1..n : new.turn[i] = new.turn[j] => i = j
        /\ new.idx \in 1..n /\ new.picker = new.turn[new.idx]
        /\ ~HasSlot(derby, new.picker)

LEMMA OtherOrder ==
    ASSUME NEW derby, DerbyShape(derby), NEW new, Reordered(derby, new)
    PROVE  DerbyOK(new)
<1> DEFINE n == Len(derby.turn)
<1>1. n \in Nat /\ DOMAIN derby.turn = 1..n /\ DOMAIN new.turn = 1..n
  BY DEF DerbyShape, Reordered
<1>2. Listed(derby.turn) \subseteq Listed(new.turn)
  <2>1. ASSUME NEW i \in 1..n
        PROVE  derby.turn[i] \in Listed(new.turn)
    <3>1. PICK j \in 1..n : new.turn[j] = derby.turn[i]
      BY DEF Reordered
    <3>. QED BY <1>1, <3>1 DEF Listed
  <2>. QED BY <1>1, <2>1 DEF Listed
<1>3. derby.slots \in [1..n -> Listed(new.turn) \union {Free}]
  <2>1. derby.slots \in [1..n -> Listed(derby.turn) \union {Free}]
    BY DEF DerbyShape
  <2>. QED BY <1>2, <2>1
<1>4. DerbyShape(new)
  BY <1>1, <1>3 DEF DerbyShape, Reordered
<1>5. ~HasSlot(new, new.picker)
  BY DEF HasSlot, Reordered
<1>. QED BY <1>4, <1>5 DEF DerbyOK

LEMMA BackOneOK ==
    ASSUME NEW derby, DerbyOK(derby)
    PROVE  DerbyOK(PushBackOne(derby))
<1>1. CASE Waits(derby) = {}
  BY <1>1 DEF PushBackOne
<1>2. CASE Waits(derby) # {}
  <2> DEFINE n == Len(derby.turn)
             next == After(derby, Nearest(Waits(derby)))
             at == derby.idx
             turn == [[derby.turn EXCEPT ![at] = derby.turn[next]] EXCEPT ![next] = derby.turn[at]]
             new == PushBackOne(derby)
  <2>1. /\ DerbyShape(derby) /\ n \in Nat /\ at \in 1..n
        /\ DOMAIN derby.turn = 1..n /\ derby.turn \in Seq(Nat \ {Free})
        /\ \A i, j \in 1..n : derby.turn[i] = derby.turn[j] => i = j
    BY DEF DerbyOK, DerbyShape
  <2>2. next \in 1..n /\ ~HasSlot(derby, derby.turn[next])
    BY <1>2, <2>1, NextWaits
  <2>3. new = [derby EXCEPT !.turn = turn, !.picker = derby.turn[next]]
    <3>1. new = [derby EXCEPT !.turn[derby.idx] = derby.turn[next],
                              !.turn[next] = derby.turn[derby.idx],
                              !.picker = derby.turn[next]]
      BY <1>2 DEF PushBackOne
    <3> HIDE DEF next, new
    <3>2. DOMAIN derby = {"turn", "idx", "picker", "slots"}
      BY <2>1 DEF DerbyShape
    <3>. QED BY <3>1, <3>2
  <2> HIDE DEF next, new
  <2>4. /\ new.turn = turn /\ new.idx = at /\ new.picker = derby.turn[next]
        /\ new.slots = derby.slots /\ DOMAIN new = {"turn", "idx", "picker", "slots"}
    <3> HIDE DEF turn
    <3>. QED BY <2>1, <2>3 DEF DerbyShape
  <2>5. turn \in Seq(Nat \ {Free}) /\ Len(turn) = n
    BY <2>1, <2>2
  <2>6. /\ \A i \in 1..n : turn[i] = IF i = next THEN derby.turn[at]
                                     ELSE IF i = at THEN derby.turn[next] ELSE derby.turn[i]
        /\ at \in 1..n /\ n = Len(derby.turn)
    BY <2>1, <2>2
  <2> HIDE DEF turn, at
  <2>7. \A i, j \in 1..n : turn[i] = turn[j] => i = j
    BY <2>1, <2>2, <2>6
  <2>8. \A i \in 1..n : \E j \in 1..n : turn[j] = derby.turn[i]
    BY <2>2, <2>6
  <2>9. turn[at] = derby.turn[next]
    BY <2>2, <2>6
  <2>10. Reordered(derby, new)
    BY <2>2, <2>4, <2>5, <2>6, <2>7, <2>8, <2>9 DEF Reordered
  <2>. QED BY <2>1, <2>10, OtherOrder DEF new
<1>. QED BY <1>1, <1>2

LEMMA ToEndOK ==
    ASSUME NEW derby, DerbyOK(derby)
    PROVE  DerbyOK(PushToEnd(derby))
<1> DEFINE n == Len(derby.turn)
           at == CHOOSE i \in DOMAIN derby.turn : derby.turn[i] = derby.picker
           turn == MovedToEnd(derby)
           Open == {i \in DOMAIN turn : ~HasSlot(derby, turn[i])}
           first == Nearest(Open)
           new == PushToEnd(derby)
<1>1. /\ DerbyShape(derby) /\ n \in Nat /\ derby.idx \in 1..n
      /\ derby.picker = derby.turn[derby.idx] /\ ~HasSlot(derby, derby.picker)
      /\ DOMAIN derby.turn = 1..n /\ \A i \in 1..n : derby.turn[i] \in Nat \ {Free}
      /\ \A i, j \in 1..n : derby.turn[i] = derby.turn[j] => i = j
  BY DEF DerbyOK, DerbyShape
<1>2. at \in 1..n /\ derby.turn[at] = derby.picker
  BY <1>1
<1>3. turn = [i \in 1..n |-> IF i < at THEN derby.turn[i]
                            ELSE IF i < n THEN derby.turn[i + 1] ELSE derby.picker]
  BY DEF MovedToEnd
<1> HIDE DEF at, turn
<1>4. turn \in [1..n -> Nat \ {Free}]
  BY <1>1, <1>2, <1>3
<1>5. turn \in Seq(Nat \ {Free}) /\ Len(turn) = n /\ DOMAIN turn = 1..n
  BY <1>1, <1>4
<1>6. \A i, j \in 1..n : turn[i] = turn[j] => i = j
  BY <1>1, <1>2, <1>3
<1>7. \A i \in 1..n : \E j \in 1..n : turn[j] = derby.turn[i]
  <2> TAKE i \in 1..n
  <2>1. CASE i < at
    BY <1>1, <1>2, <1>3, <2>1
  <2>2. CASE i = at
    <3>1. n \in 1..n /\ turn[n] = derby.picker
      BY <1>1, <1>2, <1>3
    <3>. QED BY <1>2, <2>2, <3>1
  <2>3. CASE i > at
    <3>1. i - 1 \in 1..n /\ ~(i - 1 < at) /\ i - 1 < n /\ (i - 1) + 1 = i
      BY <1>1, <1>2, <2>3
    <3>2. turn[i - 1] = derby.turn[i]
      BY <1>3, <3>1
    <3>. QED BY <3>1, <3>2
  <2>. QED BY <1>1, <1>2, <2>1, <2>2, <2>3
<1>8. first \in Open
  <2>1. PICK j \in 1..n : turn[j] = derby.turn[derby.idx]
    BY <1>1, <1>7
  <2>2. j \in Open
    BY <1>1, <1>5, <2>1
  <2>3. Open \subseteq Nat
    BY <1>1, <1>5
  <2> HIDE DEF Open
  <2>. QED BY <2>2, <2>3, LeastOf
<1>9. first \in 1..n /\ ~HasSlot(derby, turn[first])
  <2> HIDE DEF first
  <2>. QED BY <1>5, <1>8
<1>10. new = [derby EXCEPT !.turn = turn, !.idx = first, !.picker = turn[first]]
  BY DEF PushToEnd, turn
<1> HIDE DEF new, first
<1>11. /\ new.turn = turn /\ new.idx = first /\ new.picker = turn[first]
       /\ new.slots = derby.slots /\ DOMAIN new = {"turn", "idx", "picker", "slots"}
  BY <1>1, <1>10 DEF DerbyShape
<1>12. Reordered(derby, new)
  BY <1>5, <1>6, <1>7, <1>9, <1>11 DEF Reordered
<1>. QED BY <1>1, <1>12, OtherOrder DEF new

\* What DerbyInOrder says of one derby.
LEMMA InOrder ==
    ASSUME NEW derby, DerbyOK(derby)
    PROVE  /\ derby.turn \in Orders(Listed(derby.turn))
           /\ derby.picker = derby.turn[derby.idx]
           /\ ~HasSlot(derby, derby.picker)
           /\ \A s, t \in DOMAIN derby.slots :
                 derby.slots[s] = derby.slots[t] /\ s # t => derby.slots[s] = Free
<1> DEFINE n == Len(derby.turn)
           turn == derby.turn
           S == Listed(turn)
<1>1. /\ n \in Nat /\ DOMAIN turn = 1..n /\ turn \in [1..n -> S] /\ DOMAIN derby.slots = 1..n
      /\ \A i, j \in 1..n : turn[i] = turn[j] => i = j
  BY DEF DerbyOK, DerbyShape, Listed
<1>2. Cardinality(S) = n
  <2>1. IsFiniteSet(1..n) /\ Cardinality(1..n) = n
    BY <1>1, FS_Interval
  <2>2. S = {turn[i] : i \in 1..n}
    BY <1>1 DEF Listed
  <2>3. turn \in Bijection(1..n, S)
    <3> HIDE DEF S
    <3>. QED BY <1>1, <2>2 DEF Bijection, Injection, Surjection, IsInjective
  <2>4. ExistsBijection(1..n, S)
    <3> HIDE DEF S, turn, n
    <3>. QED BY <2>3 DEF ExistsBijection
  <2> HIDE DEF S, n
  <2>. QED BY <2>1, <2>4, FS_Bijection
<1>3. turn \in Orders(S)
  <2> HIDE DEF S, n
  <2>. QED BY <1>1, <1>2 DEF Orders
<1>. QED BY <1>1, <1>3 DEF DerbyOK, DerbyShape

-----------------------------------------------------------------------------
(* The statements on draft_pick_assets                                      *)

\* No pick is lost, changes hands or leaves its draft.
Keeps(a, b) ==
    \A key \in DOMAIN a : /\ key \in DOMAIN b
                          /\ b[key].owner = a[key].owner
                          /\ a[key].draft # Unlinked => b[key].draft = a[key].draft

LEMMA FreshPicks ==
    ASSUME NEW d, NEW season, NEW rounds, NEW order
    PROVE  PickRows(Fresh(d, season, rounds, order))
BY DEF PickRows, Fresh

LEMMA InsertedPicks ==
    ASSUME NEW a, PickRows(a), NEW b, PickRows(b)
    PROVE  PickRows(InsertAssets(a, b)) /\ Keeps(a, InsertAssets(a, b))
BY DEF PickRows, Keeps, InsertAssets

LEMMA LinkedPicks ==
    ASSUME NEW a, PickRows(a), NEW season, NEW d
    PROVE  PickRows(Link(a, season, d)) /\ Keeps(a, Link(a, season, d))
BY DEF PickRows, Keeps, Link

LEMMA RepositionedPicks ==
    ASSUME NEW a, PickRows(a), NEW d, NEW order
    PROVE  PickRows(Reposition(a, d, order)) /\ Keeps(a, Reposition(a, d, order))
BY DEF PickRows, Keeps, Reposition

LEMMA DraftPicks ==
    ASSUME NEW a, PickRows(a), NEW d, NEW rounds, NEW order
    PROVE  PickRows(WithPicks(a, d, rounds, order)) /\ Keeps(a, WithPicks(a, d, rounds, order))
<1> DEFINE F == Fresh(d, 0, rounds, order)
           b == InsertAssets(a, F)
           Later == {key \in Future \X (1..rounds) \X Listed(order) : TRUE}
           L == [key \in Later |->
                   [owner |-> key[3], draft |-> Unlinked, pos |-> PlaceOf(order, key[3])]]
           c == InsertAssets(b, L)
<1>1. PickRows(F)
  BY FreshPicks
<1>2. PickRows(L)
  BY DEF PickRows
<1>3. WithPicks(a, d, rounds, order) = c
  BY DEF WithPicks
<1> HIDE DEF F, L
<1>4. PickRows(b) /\ Keeps(a, b)
  BY <1>1, InsertedPicks
<1> HIDE DEF b
<1>5. PickRows(c) /\ Keeps(b, c)
  BY <1>2, <1>4, InsertedPicks
<1> HIDE DEF c
<1>. QED BY <1>3, <1>4, <1>5 DEF Keeps

LEMMA RookieDraftPicks ==
    ASSUME NEW a, PickRows(a), NEW d, NEW order
    PROVE  /\ PickRows(Reposition(Link(a, 0, d), d, order))
           /\ Keeps(a, Reposition(Link(a, 0, d), d, order))
<1> DEFINE b == Link(a, 0, d)
           c == Reposition(b, d, order)
<1>1. PickRows(b) /\ Keeps(a, b)
  BY LinkedPicks
<1> HIDE DEF b
<1>2. PickRows(c) /\ Keeps(b, c)
  BY <1>1, RepositionedPicks
<1> HIDE DEF c
<1>3. Keeps(a, c)
  BY <1>1, <1>2 DEF Keeps
<1>. QED BY <1>2, <1>3 DEF b, c

LEMMA RemainingPicks ==
    ASSUME NEW a, PickRows(a), NEW keys
    PROVE  /\ PickRows(Without(a, keys))
           /\ DOMAIN Without(a, keys) = DOMAIN a \ keys
           /\ \A key \in DOMAIN a \ keys : Without(a, keys)[key] = a[key]
BY DEF PickRows, Without

-----------------------------------------------------------------------------
(* The steps of the setup                                                   *)

LEMMA InitialPicks ==
    ASSUME NEW structure
    PROVE  PickRows(PicksOf(structure))
<1> DEFINE Then(before, d) == IF d \in DOMAIN structure
                              THEN WithPicks(before, d, structure[d].rounds, <<1>>) ELSE before
           a == Then(<<>>, 1)
           b == Then(a, 2)
           c == Then(b, 3)
<1>1. \A x, d : PickRows(x) => PickRows(Then(x, d))
  BY DraftPicks
<1>2. PickRows(<<>>)
  BY DEF PickRows
<1>3. PicksOf(structure) = c
  BY DEF PicksOf
<1> HIDE DEF Then
<1>4. PickRows(a)
  BY <1>1, <1>2
<1> HIDE DEF a
<1>5. PickRows(b)
  BY <1>1, <1>4
<1> HIDE DEF b
<1>. QED BY <1>1, <1>3, <1>5

LEMMA NewDraftOK ==
    ASSUME NEW preset, NEW order
    PROVE  /\ DOMAIN NewDraft(preset, order) = DraftColumns
           /\ NewDraft(preset, order).phase = "SETUP"
BY DEF NewDraft, DraftColumns

LEMMA SetupInvInit == SetupInit => SetupInv
<1> SUFFICES ASSUME SetupInit PROVE SetupInv
  OBVIOUS
<1>1. PICK structure \in Structures :
        /\ drafts = [d \in DOMAIN structure |-> NewDraft(structure[d], <<1>>)]
        /\ assets = PicksOf(structure)
  BY DEF SetupInit
<1>2. DraftsOK
  <2> SUFFICES ASSUME NEW d \in DOMAIN drafts
               PROVE  DOMAIN drafts[d] = DraftColumns /\ drafts[d].phase # "DERBY"
    BY DEF DraftsOK, InDerby
  <2>. QED BY <1>1, NewDraftOK
<1>3. PickRows(assets)
  BY <1>1, InitialPicks
<1>4. members = 1 /\ op = NoOp /\ left \in Budgets
  BY DEF SetupInit
<1>. QED BY <1>2, <1>3, <1>4, BudgetsAssumption DEF SetupInv, NoOp

\* What PicksAreKept says of a step.
PicksKept ==
    \A key \in DOMAIN assets :
        IF key \in DOMAIN assets'
        THEN /\ assets[key].draft # Unlinked => assets'[key].draft = assets[key].draft
             /\ assets'[key].owner # assets[key].owner => left'.trade < left.trade
        ELSE \/ assets[key].draft \notin DOMAIN drafts'
             \/ op.kind = "repick" /\ assets[key].draft = op.draft
             \/ op.kind = "rookies" /\ assets[key].draft = Unlinked

LEMMA PicksStay ==
    ASSUME Keeps(assets, assets')
    PROVE  PicksKept
BY DEF Keeps, PicksKept

LEMMA SamePicks ==
    ASSUME PickRows(assets), UNCHANGED assets
    PROVE  PickRows(assets') /\ PicksKept
BY DEF PickRows, PicksKept

LEMMA SpendOK ==
    ASSUME SetupInv, NEW kind \in {"derby", "op", "trade", "draft"}, Spend(kind)
    PROVE  /\ left' \in [derby : Nat, op : Nat, trade : Nat, draft : Nat]
           /\ left'[kind] < left[kind]
BY DEF SetupInv, Spend

\* A step that writes one draft.
LEMMA OneDraft ==
    ASSUME DraftsOK, NEW d \in DOMAIN drafts, DOMAIN drafts' = DOMAIN drafts,
           \A e \in DOMAIN drafts : e # d => drafts'[e] = drafts[e],
           DOMAIN drafts'[d] = DraftColumns,
           drafts'[d].phase = "DERBY" => DerbyOK(drafts'[d].derby)
    PROVE  DraftsOK'
<1> SUFFICES ASSUME NEW e \in DOMAIN drafts'
             PROVE  /\ DOMAIN drafts'[e] = DraftColumns
                    /\ drafts'[e].phase = "DERBY" => DerbyOK(drafts'[e].derby)
  BY DEF DraftsOK, InDerby
<1>1. CASE e = d
  BY <1>1
<1>2. CASE e # d
  BY <1>2 DEF DraftsOK, InDerby
<1>. QED BY <1>1, <1>2

LEMMA SameDrafts ==
    ASSUME DraftsOK, UNCHANGED drafts
    PROVE  DraftsOK'
BY DEF DraftsOK, InDerby

\* A request that has only read, and one that is forgotten.
LEMMA OnlyOp ==
    ASSUME SetupInv, UNCHANGED <<members, drafts, assets, schedule, policy, serial>>,
           UNCHANGED left \/ Spend("op"),
           op'.kind = "pause" => DerbyOK(op'.derby), op'.kind # "generate"
    PROVE  SetupInv' /\ PicksKept
<1>1. left' \in [derby : Nat, op : Nat, trade : Nat, draft : Nat]
  BY SpendOK DEF SetupInv
<1>2. DraftsOK' /\ PickRows(assets') /\ PicksKept
  BY SamePicks, SameDrafts DEF SetupInv
<1>. QED BY <1>1, <1>2 DEF SetupInv

LEMMA AskStep ==
    ASSUME SetupInv, NEW d \in DOMAIN drafts,
           \/ AskRandom(d) \/ AskConfirm(d) \/ AskOwnership(d) \/ AskDelete(d) \/ AskPause(d)
           \/ \E n \in RoundChoices : AskRounds(d, n)
           \/ \E choice \in RookieChoices : AskRookiePicks(d, choice)
    PROVE  SetupInv' /\ PicksKept
<1>1. CASE AskRandom(d)
  BY <1>1, OnlyOp DEF AskRandom
<1>2. CASE AskConfirm(d)
  BY <1>2, OnlyOp DEF AskConfirm
<1>3. CASE AskOwnership(d)
  BY <1>3, OnlyOp DEF AskOwnership
<1>4. CASE AskDelete(d)
  BY <1>4, OnlyOp DEF AskDelete
<1>5. CASE AskPause(d)
  <2>1. DerbyOK(drafts[d].derby)
    BY <1>5 DEF SetupInv, DraftsOK, AskPause, InDerby
  <2>2. op'.derby = drafts[d].derby /\ op'.kind = "pause"
    BY <1>5 DEF AskPause
  <2>3. UNCHANGED <<members, drafts, assets, schedule, policy, serial>> /\ Spend("op")
    BY <1>5 DEF AskPause
  <2>. QED BY <2>1, <2>2, <2>3, OnlyOp
<1>6. ASSUME NEW n \in RoundChoices, AskRounds(d, n)
      PROVE  SetupInv' /\ PicksKept
  BY <1>6, OnlyOp DEF AskRounds
<1>7. ASSUME NEW choice \in RookieChoices, AskRookiePicks(d, choice)
      PROVE  SetupInv' /\ PicksKept
  BY <1>7, OnlyOp DEF AskRookiePicks
<1>. QED BY <1>1, <1>2, <1>3, <1>4, <1>5, <1>6, <1>7

LEMMA JoinStep ==
    ASSUME SetupInv, Join
    PROVE  SetupInv' /\ PicksKept
<1>1. DraftsOK' /\ PickRows(assets') /\ PicksKept
  BY SamePicks, SameDrafts DEF SetupInv, Join
<1>2. members' = members + 1 /\ op' = op /\ left' = left
  BY DEF Join
<1>. QED BY <1>1, <1>2 DEF SetupInv

LEMMA CreateStep ==
    ASSUME SetupInv, NEW preset, CreateDraft(preset)
    PROVE  SetupInv' /\ PicksKept
<1> DEFINE d == serial + 1
           new == NewDraft(preset, Everyone)
<1>1. PickRows(assets)
  BY DEF SetupInv
<1>2. /\ Spend("draft") /\ members' = members /\ op' = op
      /\ drafts' = [e \in DOMAIN drafts \union {d} |-> IF e = d THEN new ELSE drafts[e]]
      /\ \/ assets' = Reposition(Link(assets, 0, d), d, Everyone)
         \/ assets' = WithPicks(assets, d, preset.rounds, Everyone)
  BY DEF CreateDraft
<1>3. PickRows(assets') /\ Keeps(assets, assets')
  BY <1>1, <1>2, RookieDraftPicks, DraftPicks
<1>4. DOMAIN new = DraftColumns /\ new.phase = "SETUP"
  BY NewDraftOK
<1> HIDE DEF new, d
<1>5. DraftsOK'
  <2> SUFFICES ASSUME NEW e \in DOMAIN drafts'
               PROVE  /\ DOMAIN drafts'[e] = DraftColumns
                      /\ drafts'[e].phase = "DERBY" => DerbyOK(drafts'[e].derby)
    BY DEF DraftsOK, InDerby
  <2>1. CASE e = d
    BY <1>2, <1>4, <2>1
  <2>2. CASE e # d
    <3>1. e \in DOMAIN drafts /\ drafts'[e] = drafts[e]
      BY <1>2, <2>2
    <3>. QED BY <3>1 DEF SetupInv, DraftsOK, InDerby
  <2>. QED BY <2>1, <2>2
<1>6. left' \in [derby : Nat, op : Nat, trade : Nat, draft : Nat]
  BY <1>2, SpendOK
<1>7. PicksKept
  BY <1>3, PicksStay
<1>. QED BY <1>2, <1>3, <1>5, <1>6, <1>7 DEF SetupInv

LEMMA TradeStep ==
    ASSUME SetupInv, NEW key, NEW r, TradePick(key, r)
    PROVE  SetupInv' /\ PicksKept
<1>1. /\ key \in DOMAIN assets /\ Spend("trade") /\ members' = members /\ op' = op
      /\ assets' = [assets EXCEPT ![key].owner = r] /\ drafts' = drafts
  BY DEF TradePick, Transfer
<1>2. DraftsOK'
  BY <1>1, SameDrafts DEF SetupInv
<1>3. PickRows(assets')
  BY <1>1 DEF SetupInv, PickRows
<1>4. left' \in [derby : Nat, op : Nat, trade : Nat, draft : Nat] /\ left'.trade < left.trade
  BY <1>1, SpendOK
<1>5. PicksKept
  <2>1. \A k \in DOMAIN assets : k \in DOMAIN assets' /\ assets'[k].draft = assets[k].draft
    BY <1>1 DEF SetupInv, PickRows
  <2>. QED BY <1>4, <2>1 DEF PicksKept
<1>. QED BY <1>1, <1>2, <1>3, <1>4, <1>5 DEF SetupInv

\* The end of a request, and a step beside it.
LEMMA Written ==
    ASSUME SetupInv, DraftsOK', PickRows(assets'), PicksKept,
           UNCHANGED <<members, left>>, op' = NoOp \/ op' = op
    PROVE  SetupInv' /\ PicksKept
BY DEF SetupInv, NoOp

\* A step that writes one draft outside a derby, or nothing the derby reads.
LEMMA Reordering ==
    ASSUME SetupInv, NEW d \in DOMAIN drafts, NEW draft, NEW order, NEW e,
           drafts' = [drafts EXCEPT ![d] = draft], DOMAIN draft = DraftColumns,
           draft.phase = "DERBY" => DerbyOK(draft.derby),
           assets' = Reposition(assets, e, order),
           UNCHANGED <<members, left>>, op' = NoOp \/ op' = op
    PROVE  SetupInv' /\ PicksKept
<1>1. DraftsOK'
  <2>1. DraftsOK /\ DOMAIN drafts' = DOMAIN drafts /\ drafts'[d] = draft
    BY DEF SetupInv
  <2>. QED BY <2>1, OneDraft
<1>2. PickRows(assets') /\ Keeps(assets, assets')
  BY RepositionedPicks DEF SetupInv
<1>. QED BY <1>1, <1>2, PicksStay, Written

LEMMA OrderSteps ==
    ASSUME SetupInv, Randomize \/ ConfirmOrder \/ OrderByOwnership
    PROVE  SetupInv' /\ PicksKept
<1> DEFINE d == op.draft
<1>1. op.draft \in DOMAIN drafts /\ op' = NoOp /\ UNCHANGED <<members, left>>
  BY DEF Randomize, ConfirmOrder, OrderByOwnership, Alive
<1>2. /\ DOMAIN drafts[op.draft] = DraftColumns
      /\ drafts[op.draft].phase = "DERBY" => DerbyOK(drafts[op.draft].derby)
  BY <1>1 DEF SetupInv, DraftsOK, InDerby
<1>3. \A order : /\ DOMAIN Confirmed(drafts[op.draft], order) = DraftColumns
                 /\ Confirmed(drafts[op.draft], order).phase = drafts[op.draft].phase
                 /\ Confirmed(drafts[op.draft], order).derby = drafts[op.draft].derby
  BY <1>2 DEF Confirmed, DraftColumns
<1>4. ASSUME NEW order, Update(Confirmed(drafts[op.draft], order)),
             assets' = Reposition(assets, op.draft, order)
      PROVE  SetupInv' /\ PicksKept
  <2> DEFINE draft == Confirmed(drafts[op.draft], order)
  <2>1. /\ drafts' = [drafts EXCEPT ![op.draft] = draft] /\ DOMAIN draft = DraftColumns
        /\ draft.phase = "DERBY" => DerbyOK(draft.derby)
    BY <1>2, <1>3, <1>4 DEF Update
  <2> HIDE DEF draft
  <2>. QED BY <1>1, <1>4, <2>1, Reordering
<1>5. CASE Randomize
  BY <1>4, <1>5 DEF Randomize
<1>6. CASE OrderByOwnership
  BY <1>4, <1>6 DEF OrderByOwnership
<1>7. CASE ConfirmOrder
  <2> DEFINE draft == [drafts[op.draft] EXCEPT !.confirmed = TRUE]
  <2>1. /\ drafts' = [drafts EXCEPT ![op.draft] = draft] /\ DOMAIN draft = DraftColumns
        /\ draft.phase = "DERBY" => DerbyOK(draft.derby)
        /\ assets' = Reposition(assets, op.draft, OrderOf(op.draft))
    BY <1>2, <1>7 DEF Update, ConfirmOrder, DraftColumns
  <2> HIDE DEF draft
  <2>. QED BY <1>1, <2>1, Reordering
<1>. QED BY <1>5, <1>6, <1>7

LEMMA RoundsStep ==
    ASSUME SetupInv, WriteRounds
    PROVE  SetupInv' /\ PicksKept
<1> DEFINE draft == [drafts[op.draft] EXCEPT !.rounds = op.rounds]
<1>1. /\ op.draft \in DOMAIN drafts /\ drafts' = [drafts EXCEPT ![op.draft] = draft]
      /\ UNCHANGED <<members, assets, left>> /\ op'.kind = "repick"
  BY DEF WriteRounds, Alive, Update
<1>2. /\ DOMAIN drafts[op.draft] = DraftColumns
      /\ drafts[op.draft].phase = "DERBY" => DerbyOK(drafts[op.draft].derby)
  BY <1>1 DEF SetupInv, DraftsOK, InDerby
<1>3. DOMAIN draft = DraftColumns /\ (draft.phase = "DERBY" => DerbyOK(draft.derby))
  BY <1>2 DEF DraftColumns
<1> HIDE DEF draft
<1>4. DraftsOK'
  <2>1. DraftsOK /\ DOMAIN drafts' = DOMAIN drafts /\ drafts'[op.draft] = draft
    BY <1>1 DEF SetupInv
  <2>. QED BY <1>1, <1>3, <2>1, OneDraft
<1>5. PickRows(assets') /\ PicksKept
  BY <1>1, SamePicks DEF SetupInv
<1>. QED BY <1>1, <1>4, <1>5 DEF SetupInv

\* Picks are deleted for the request that makes others in their place, or with
\* their draft.
LEMMA DropStep ==
    ASSUME SetupInv, DropPicks
    PROVE  SetupInv' /\ PicksKept
<1>1. /\ assets' = Without(assets, Linked(assets, op.draft)) /\ op.kind = "repick"
      /\ op' = [kind |-> "generate", picks |-> Fresh(op.draft, 0, op.rounds, op.order)]
      /\ UNCHANGED <<members, drafts, left>>
  BY DEF DropPicks, DropLinked
<1> DEFINE gone == Linked(assets, op.draft)
<1>2. /\ PickRows(assets') /\ DOMAIN assets' = DOMAIN assets \ gone
      /\ \A key \in DOMAIN assets \ gone : assets'[key] = assets[key]
  <2> HIDE DEF gone
  <2>1. assets' = Without(assets, gone) /\ PickRows(assets)
    BY <1>1 DEF SetupInv, gone
  <2>. QED BY <2>1, RemainingPicks
<1>3. PicksKept
  BY <1>1, <1>2 DEF PicksKept, Linked
<1>4. PickRows(op'.picks) /\ op'.kind = "generate"
  BY <1>1, FreshPicks
<1>5. DraftsOK'
  BY <1>1, SameDrafts DEF SetupInv
<1>. QED BY <1>1, <1>2, <1>3, <1>4, <1>5 DEF SetupInv

LEMMA RookiesStep ==
    ASSUME SetupInv, OfferRookiePicks
    PROVE  SetupInv' /\ PicksKept
<1> DEFINE gone == OfSeason(assets, op.season) \cap Linked(assets, Unlinked)
<1>1. /\ assets' = Without(assets, gone) /\ op.kind = "rookies"
      /\ op' = [kind |-> "generate",
                picks |-> Fresh(Unlinked, op.season, op.rounds, Everyone)]
      /\ UNCHANGED <<members, drafts, left>>
  BY DEF OfferRookiePicks, DropUnlinked
<1>2. \A key \in gone : assets[key].draft = Unlinked
  BY DEF Linked
<1> HIDE DEF gone
<1>3. /\ PickRows(assets') /\ DOMAIN assets' = DOMAIN assets \ gone
      /\ \A key \in DOMAIN assets \ gone : assets'[key] = assets[key]
  BY <1>1, RemainingPicks DEF SetupInv
<1>4. PicksKept
  BY <1>1, <1>2, <1>3 DEF PicksKept
<1>5. PickRows(op'.picks) /\ op'.kind = "generate"
  BY <1>1, FreshPicks
<1>6. DraftsOK'
  BY <1>1, SameDrafts DEF SetupInv
<1>. QED BY <1>1, <1>3, <1>4, <1>5, <1>6 DEF SetupInv

LEMMA GenerateStep ==
    ASSUME SetupInv, GeneratePicks
    PROVE  SetupInv' /\ PicksKept
<1>1. /\ assets' = InsertAssets(assets, op.picks) /\ op.kind = "generate" /\ op' = NoOp
      /\ UNCHANGED <<members, drafts, left>>
  BY DEF GeneratePicks
<1>2. PickRows(assets') /\ Keeps(assets, assets')
  BY <1>1, InsertedPicks DEF SetupInv
<1>3. DraftsOK'
  BY <1>1, SameDrafts DEF SetupInv
<1>. QED BY <1>1, <1>2, <1>3, PicksStay, Written

LEMMA DeleteStep ==
    ASSUME SetupInv, DeleteDraft
    PROVE  SetupInv' /\ PicksKept
<1>1. /\ assets' = Without(assets, Linked(assets, op.draft)) /\ op' = NoOp
      /\ drafts' = [d \in DOMAIN drafts \ {op.draft} |-> drafts[d]]
      /\ UNCHANGED <<members, left>>
  BY DEF DeleteDraft, DropLinked
<1> DEFINE gone == Linked(assets, op.draft)
<1>2. /\ PickRows(assets') /\ DOMAIN assets' = DOMAIN assets \ gone
      /\ \A key \in DOMAIN assets \ gone : assets'[key] = assets[key]
  <2> HIDE DEF gone
  <2>1. assets' = Without(assets, gone) /\ PickRows(assets)
    BY <1>1 DEF SetupInv, gone
  <2>. QED BY <2>1, RemainingPicks
<1>3. PicksKept
  BY <1>1, <1>2 DEF PicksKept, Linked
<1>4. DraftsOK'
  BY <1>1 DEF SetupInv, DraftsOK, InDerby
<1>. QED BY <1>1, <1>2, <1>3, <1>4, Written

\* A step that writes one draft and no pick.
LEMMA Writing ==
    ASSUME SetupInv, NEW d \in DOMAIN drafts, NEW draft,
           drafts' = [drafts EXCEPT ![d] = draft], DOMAIN draft = DraftColumns,
           draft.phase = "DERBY" => DerbyOK(draft.derby),
           UNCHANGED <<members, assets>>, left' = left \/ Spend("derby"),
           op' = NoOp \/ op' = op
    PROVE  SetupInv' /\ PicksKept
<1>1. DraftsOK'
  <2>1. DraftsOK /\ DOMAIN drafts' = DOMAIN drafts /\ drafts'[d] = draft
    BY DEF SetupInv
  <2>. QED BY <2>1, OneDraft
<1>2. PickRows(assets') /\ PicksKept
  BY SamePicks DEF SetupInv
<1>3. left' \in [derby : Nat, op : Nat, trade : Nat, draft : Nat]
  BY SpendOK DEF SetupInv
<1>. QED BY <1>1, <1>2, <1>3 DEF SetupInv, NoOp

LEMMA PauseStep ==
    ASSUME SetupInv, PauseOrResume
    PROVE  SetupInv' /\ PicksKept
<1> DEFINE next == IF op.from = "paused" THEN "in_progress" ELSE "paused"
           draft == [drafts[op.draft] EXCEPT !.status = next, !.derby = op.derby]
<1>1. /\ op.draft \in DOMAIN drafts /\ drafts' = [drafts EXCEPT ![op.draft] = draft]
      /\ UNCHANGED <<members, assets, left>> /\ op.kind = "pause" /\ op' = NoOp
  BY DEF PauseOrResume, Alive, Update
<1>2. DOMAIN drafts[op.draft] = DraftColumns /\ DerbyOK(op.derby)
  BY <1>1 DEF SetupInv, DraftsOK
<1> HIDE DEF next
<1>3. DOMAIN draft = DraftColumns /\ draft.derby = op.derby
  BY <1>2 DEF DraftColumns
<1> HIDE DEF draft
<1>. QED BY <1>1, <1>2, <1>3, Writing

LEMMA StartStep ==
    ASSUME SetupInv, NEW d \in DOMAIN drafts, StartDraft(d)
    PROVE  SetupInv' /\ PicksKept
<1> DEFINE first == Owner(d, 1, OrderOf(d)[1])
           draft == [drafts[d] EXCEPT !.status = "in_progress", !.pick = 1,
                                      !.current = first]
<1>1. /\ drafts' = [drafts EXCEPT ![d].status = "in_progress", ![d].pick = 1,
                                  ![d].current = first]
      /\ UNCHANGED <<members, assets, left, op>>
  BY DEF StartDraft
<1>2. DOMAIN drafts[d] = DraftColumns /\ (drafts[d].phase = "DERBY" => DerbyOK(drafts[d].derby))
  BY DEF SetupInv, DraftsOK, InDerby
<1> HIDE DEF first
<1>3. drafts' = [drafts EXCEPT ![d] = draft]
  BY <1>1, <1>2 DEF DraftColumns
<1>4. /\ DOMAIN draft = DraftColumns /\ draft.phase = drafts[d].phase
      /\ draft.derby = drafts[d].derby
  BY <1>2 DEF DraftColumns
<1> HIDE DEF draft
<1>. QED BY <1>1, <1>2, <1>3, <1>4, Writing

LEMMA StartDerbyStep ==
    ASSUME SetupInv, NEW d \in DOMAIN drafts, StartDerby(d)
    PROVE  SetupInv' /\ PicksKept
<1>1. PICK order \in Orders(1..members) :
          drafts' = [drafts EXCEPT ![d].phase = "DERBY", ![d].status = "in_progress",
                                   ![d].derby = NewDerby(order)]
  BY DEF StartDerby
<1> DEFINE derby == NewDerby(order)
           draft == [drafts[d] EXCEPT !.phase = "DERBY", !.status = "in_progress",
                                      !.derby = derby]
<1>2. UNCHANGED <<members, assets, op>> /\ Spend("derby")
  BY DEF StartDerby
<1>3. DerbyOK(derby)
  BY DerbyBegins DEF SetupInv
<1> HIDE DEF derby
<1>4. DOMAIN drafts[d] = DraftColumns
  BY DEF SetupInv, DraftsOK
<1>5. drafts' = [drafts EXCEPT ![d] = draft]
  BY <1>1, <1>4 DEF DraftColumns, derby
<1>6. DOMAIN draft = DraftColumns /\ draft.derby = derby
  BY <1>4 DEF DraftColumns
<1> HIDE DEF draft
<1>. QED BY <1>2, <1>3, <1>5, <1>6, Writing

\* The derby goes on in order, or is over.
LEMMA DerbyGoesOn ==
    ASSUME SetupInv, NEW d \in DOMAIN drafts, NEW derby, DerbyOK(derby), WriteDerby(d, derby),
           UNCHANGED <<members, left, op>>
    PROVE  SetupInv' /\ PicksKept
<1> DEFINE draft == [drafts[d] EXCEPT !.derby = derby]
<1>1. drafts' = [drafts EXCEPT ![d].derby = derby] /\ UNCHANGED assets
  BY DEF WriteDerby
<1>2. DOMAIN drafts[d] = DraftColumns
  BY DEF SetupInv, DraftsOK
<1>3. drafts' = [drafts EXCEPT ![d] = draft]
  BY <1>1, <1>2 DEF DraftColumns
<1>4. DOMAIN draft = DraftColumns /\ draft.derby = derby
  BY <1>2 DEF DraftColumns
<1> HIDE DEF draft
<1>. QED BY <1>1, <1>3, <1>4, Writing

LEMMA DerbyEnds ==
    ASSUME SetupInv, NEW d \in DOMAIN drafts, NEW slots, TransitionToLive(d, slots),
           UNCHANGED <<members, left, op>>
    PROVE  SetupInv' /\ PicksKept
<1> DEFINE draft == [drafts[d] EXCEPT !.phase = "LIVE", !.order = slots, !.confirmed = TRUE,
                                      !.pick = 1, !.current = slots[1], !.derby = NoDerby]
<1>1. /\ drafts' = [drafts EXCEPT
                       ![d].phase = "LIVE", ![d].order = slots, ![d].confirmed = TRUE,
                       ![d].pick = 1, ![d].current = slots[1], ![d].derby = NoDerby]
      /\ assets' = Reposition(assets, d, OrderOf(d))
  BY DEF TransitionToLive
<1>2. DOMAIN drafts[d] = DraftColumns
  BY DEF SetupInv, DraftsOK
<1>3. drafts' = [drafts EXCEPT ![d] = draft]
  BY <1>1, <1>2 DEF DraftColumns
<1>4. DOMAIN draft = DraftColumns /\ draft.phase = "LIVE"
  BY <1>2 DEF DraftColumns
<1> HIDE DEF draft
<1>. QED BY <1>1, <1>3, <1>4, Reordering

LEMMA SlotTaken ==
    ASSUME SetupInv, NEW d \in DOMAIN drafts, InDerby(d),
           NEW s \in Available(drafts[d].derby), SetSlot(d, Claim(drafts[d].derby, s)),
           UNCHANGED <<members, left, op>>
    PROVE  SetupInv' /\ PicksKept
<1> DEFINE derby == drafts[d].derby
           claimed == Claim(derby, s)
<1>1. DerbyOK(derby)
  BY DEF SetupInv, DraftsOK
<1>2. DerbyShape(claimed) /\ HasSlot(claimed, derby.picker)
  BY <1>1, ClaimShape
<1>3. claimed.picker = derby.picker
  BY <1>1 DEF Claim, DerbyOK, DerbyShape
<1> HIDE DEF claimed
<1>4. CASE Available(claimed) = {}
  BY <1>4, DerbyEnds DEF SetSlot, claimed
<1>5. CASE Available(claimed) # {}
  <2>1. DerbyOK(AdvanceToNextPicker(claimed))
    BY <1>2, <1>3, <1>5, SomebodyIsNext
  <2>2. WriteDerby(d, AdvanceToNextPicker(claimed))
    BY <1>5 DEF SetSlot, claimed
  <2>. QED BY <2>1, <2>2, DerbyGoesOn
<1>. QED BY <1>4, <1>5

LEMMA PickSlotStep ==
    ASSUME SetupInv, NEW d \in DOMAIN drafts, NEW r, NEW s, PickSlot(d, r, s)
    PROVE  SetupInv' /\ PicksKept
<1>1. /\ InDerby(d) /\ s \in Available(drafts[d].derby)
      /\ SetSlot(d, Claim(drafts[d].derby, s)) /\ UNCHANGED <<members, left, op>>
  BY Zenon DEF PickSlot
<1>. QED BY <1>1, SlotTaken

LEMMA TimeoutStep ==
    ASSUME SetupInv, NEW d \in DOMAIN drafts, Timeout(d)
    PROVE  SetupInv' /\ PicksKept
<1> DEFINE derby == drafts[d].derby
<1>1. InDerby(d) /\ UNCHANGED <<members, left, op>>
  BY DEF Timeout, Expired
<1>2. DerbyOK(derby)
  BY <1>1 DEF SetupInv, DraftsOK
<1>3. ASSUME NEW s \in Available(derby), SetSlot(d, Claim(derby, s))
      PROVE  SetupInv' /\ PicksKept
  BY <1>1, <1>3, SlotTaken
<1>4. CASE WriteDerby(d, PushBackOne(derby))
  <2>1. DerbyOK(PushBackOne(derby))
    BY <1>2, BackOneOK
  <2>. QED BY <1>1, <1>4, <2>1, DerbyGoesOn
<1>5. CASE WriteDerby(d, PushToEnd(derby))
  <2>1. DerbyOK(PushToEnd(derby))
    BY <1>2, ToEndOK
  <2>. QED BY <1>1, <1>5, <2>1, DerbyGoesOn
<1>. QED BY <1>3, <1>4, <1>5, Zenon DEF Timeout

LEMMA GameStep ==
    ASSUME SetupInv, NEW d \in DOMAIN drafts, NEW g, TakeGame(d, g),
           UNCHANGED <<members, assets, left, op>>
    PROVE  SetupInv' /\ PicksKept
<1> DEFINE both == drafts[d].games \cup {g, Game(g.opponent, g.week, g.roster)}
           next == PickerOf(d, drafts[d].pick + 1)
           over == [drafts[d] EXCEPT !.games = both, !.status = "completed",
                                     !.current = NoRoster]
           going == [drafts[d] EXCEPT !.games = both, !.pick = @ + 1, !.current = next]
<1>1. \/ drafts' = [drafts EXCEPT ![d].games = both, ![d].status = "completed",
                                  ![d].current = NoRoster]
      \/ drafts' = [drafts EXCEPT ![d].games = both, ![d].pick = @ + 1, ![d].current = next]
  BY DEF TakeGame
<1>2. DOMAIN drafts[d] = DraftColumns /\ (drafts[d].phase = "DERBY" => DerbyOK(drafts[d].derby))
  BY DEF SetupInv, DraftsOK, InDerby
<1> HIDE DEF both, next
<1>3. PICK draft \in {over, going} : drafts' = [drafts EXCEPT ![d] = draft]
  <2>1. CASE drafts' = [drafts EXCEPT ![d].games = both, ![d].status = "completed",
                                      ![d].current = NoRoster]
    BY <1>2, <2>1 DEF DraftColumns
  <2>2. CASE drafts' = [drafts EXCEPT ![d].games = both, ![d].pick = @ + 1,
                                      ![d].current = next]
    BY <1>2, <2>2 DEF DraftColumns
  <2>. QED BY <1>1, <2>1, <2>2
<1>4. /\ DOMAIN draft = DraftColumns /\ draft.phase = drafts[d].phase
      /\ draft.derby = drafts[d].derby
  BY <1>2 DEF DraftColumns
<1> HIDE DEF over, going
<1>. QED BY <1>2, <1>3, <1>4, Writing

LEMMA GameSteps ==
    ASSUME SetupInv, NEW d \in DOMAIN drafts,
           AutoMatchup(d) \/ \E week \in RoundChoices, r \in Rosters : MatchupPick(d, week, r)
    PROVE  SetupInv' /\ PicksKept
<1>1. UNCHANGED <<members, assets, left, op>> /\ \E g : TakeGame(d, g)
  <2>1. CASE AutoMatchup(d)
    BY <2>1, Zenon DEF AutoMatchup
  <2>2. ASSUME NEW week \in RoundChoices, NEW r \in Rosters, MatchupPick(d, week, r)
        PROVE  UNCHANGED <<members, assets, left, op>> /\ \E g : TakeGame(d, g)
    BY <2>2, Zenon DEF MatchupPick
  <2>. QED BY <2>1, <2>2
<1>2. PICK g : TakeGame(d, g)
  BY <1>1
<1>. QED BY <1>1, <1>2, GameStep

LEMMA SetupInvStep ==
    ASSUME SetupInv, [SetupNext]_setupVars
    PROVE  SetupInv' /\ PicksKept
<1>1. CASE UNCHANGED setupVars
  <2>1. UNCHANGED <<members, left>> /\ op' = op /\ UNCHANGED drafts /\ UNCHANGED assets
    BY <1>1 DEF setupVars
  <2>2. DraftsOK'
    BY <2>1, SameDrafts DEF SetupInv
  <2>3. PickRows(assets') /\ PicksKept
    BY <2>1, SamePicks DEF SetupInv
  <2>. QED BY <2>1, <2>2, <2>3, Written
<1>2. CASE Join
  BY <1>2, JoinStep
<1>3. ASSUME NEW preset \in Kinds, CreateDraft(preset)
      PROVE  SetupInv' /\ PicksKept
  BY <1>3, CreateStep
<1>4. ASSUME NEW key \in DOMAIN assets, NEW r \in Rosters, TradePick(key, r)
      PROVE  SetupInv' /\ PicksKept
  BY <1>4, TradeStep
<1>5. CASE Writes
  <2>1. CASE Randomize \/ ConfirmOrder \/ OrderByOwnership
    BY <2>1, OrderSteps
  <2>2. CASE WriteRounds
    BY <2>2, RoundsStep
  <2>3. CASE DropPicks
    BY <2>3, DropStep
  <2>4. CASE GeneratePicks
    BY <2>4, GenerateStep
  <2>5. CASE OfferRookiePicks
    BY <2>5, RookiesStep
  <2>6. CASE DeleteDraft
    BY <2>6, DeleteStep
  <2>7. CASE PauseOrResume
    BY <2>7, PauseStep
  <2>8. CASE GiveUp
    BY <2>8, OnlyOp DEF GiveUp, NoOp
  <2>. QED BY <1>5, <2>1, <2>2, <2>3, <2>4, <2>5, <2>6, <2>7, <2>8 DEF Writes
<1>6. ASSUME NEW d \in DOMAIN drafts, Commissioner(d)
      PROVE  SetupInv' /\ PicksKept
  <2>1. CASE StartDraft(d)
    BY <2>1, StartStep
  <2>2. CASE StartDerby(d)
    BY <2>2, StartDerbyStep
  <2>. QED BY <1>6, <2>1, <2>2, AskStep DEF Commissioner
<1>7. ASSUME NEW d \in DOMAIN drafts, NEW r \in Rosters, NEW s \in Rosters, PickSlot(d, r, s)
      PROVE  SetupInv' /\ PicksKept
  BY <1>7, PickSlotStep
<1>8. ASSUME NEW d \in DOMAIN drafts, Timeout(d)
      PROVE  SetupInv' /\ PicksKept
  BY <1>8, TimeoutStep
<1>9. ASSUME NEW d \in DOMAIN drafts,
             AutoMatchup(d) \/ \E week \in RoundChoices, r \in Rosters : MatchupPick(d, week, r)
      PROVE  SetupInv' /\ PicksKept
  BY <1>9, GameSteps
<1>. QED BY <1>1, <1>2, <1>3, <1>4, <1>5, <1>6, <1>7, <1>8, <1>9, Zenon DEF SetupNext

LEMMA SetupInvHolds == SetupSpec => []SetupInv
<1>1. SetupInit => SetupInv
  BY SetupInvInit
<1>2. SetupInv /\ [SetupNext]_setupVars => SetupInv'
  BY SetupInvStep
<1>. QED BY <1>1, <1>2, PTL DEF SetupSpec

\* DerbyInOrder holds of the setup of any league: whatever the timeouts, the
\* pushes and the stale writes of pauses do to a derby (derby.service.ts,
\* derby.job.ts), the turn order keeps its rosters, nobody gets two slots, and
\* the one asked is in its place and may claim.
THEOREM DerbyStaysInOrder == SetupSpec => []DerbyInOrder
<1>1. SetupInv => DerbyInOrder
  <2> SUFFICES ASSUME SetupInv, NEW d \in DOMAIN drafts, InDerby(d)
               PROVE  LET derby == drafts[d].derby
                      IN  /\ derby.turn \in Orders(Listed(derby.turn))
                          /\ derby.picker = derby.turn[derby.idx]
                          /\ ~HasSlot(derby, derby.picker)
                          /\ \A s, t \in DOMAIN derby.slots :
                                derby.slots[s] = derby.slots[t] /\ s # t =>
                                    derby.slots[s] = Free
    BY DEF DerbyInOrder
  <2>1. DerbyOK(drafts[d].derby)
    BY DEF SetupInv, DraftsOK
  <2>. QED BY <2>1, InOrder
<1>. QED BY <1>1, SetupInvHolds, PTL

\* PicksAreKept holds of the setup of any league: no statement on
\* draft_pick_assets takes a pick from its owner or its draft but a trade, and
\* none deletes it but with its draft, with other rounds or with the rookie
\* picks offered anew.
THEOREM PicksSurvive == SetupSpec => PicksAreKept
<1>1. SetupInv /\ [SetupNext]_setupVars => [PicksKept]_setupVars
  BY SetupInvStep
<1>2. SetupSpec => [][PicksKept]_setupVars
  BY <1>1, SetupInvHolds, PTL DEF SetupSpec
<1>. QED BY <1>2 DEF PicksAreKept, PicksKept

-----------------------------------------------------------------------------
(* A claim is kept until the derby ends                                     *)

\* A new draft takes no other's place.
Numbered == serial \in Nat /\ DOMAIN drafts \subseteq 1..serial

\* What ClaimsAreKept says of a step.
ClaimsKept ==
    \A d \in DOMAIN drafts \cap DOMAIN drafts' : InDerby(d) =>
        \A s \in DOMAIN drafts[d].derby.slots :
            LET roster == drafts[d].derby.slots[s]
            IN  roster # Free =>
                    \/ StaleWrite
                    \/ IF InDerby(d)' THEN drafts'[d].derby.slots[s] = roster
                       ELSE drafts'[d].order[s] = roster

\* The derby of a draft is what it was.
SameDerby(d) == drafts'[d].phase = drafts[d].phase /\ drafts'[d].derby = drafts[d].derby

LEMMA DerbiesStand ==
    ASSUME \A d \in DOMAIN drafts \cap DOMAIN drafts' : InDerby(d) => SameDerby(d)
    PROVE  ClaimsKept
BY DEF ClaimsKept, SameDerby, InDerby

\* What one draft shows of a step stands for all of them, if it writes no other.
LEMMA OneDerby ==
    ASSUME NEW d \in DOMAIN drafts, NEW draft, drafts' = [drafts EXCEPT ![d] = draft],
           InDerby(d) => \A s \in DOMAIN drafts[d].derby.slots :
               drafts[d].derby.slots[s] # Free =>
                   IF draft.phase = "DERBY" THEN draft.derby.slots[s] = drafts[d].derby.slots[s]
                   ELSE draft.order[s] = drafts[d].derby.slots[s]
    PROVE  ClaimsKept
BY DEF ClaimsKept, InDerby

LEMMA NumberedHolds == SetupSpec => []Numbered
<1>1. SetupInit => Numbered
  <2> SUFFICES ASSUME SetupInit PROVE Numbered
    OBVIOUS
  <2>1. PICK structure \in Structures :
          /\ drafts = [d \in DOMAIN structure |-> NewDraft(structure[d], <<1>>)]
          /\ serial = Len(structure)
    BY DEF SetupInit
  <2>. QED BY <2>1, StructuresAssumption DEF Numbered
<1>2. Numbered /\ [SetupNext]_setupVars => Numbered'
  <2> SUFFICES ASSUME Numbered, [SetupNext]_setupVars PROVE Numbered'
    OBVIOUS
  <2>1. ASSUME serial' = serial, DOMAIN drafts' \subseteq DOMAIN drafts
        PROVE  Numbered'
    BY <2>1 DEF Numbered
  <2>2. CASE UNCHANGED setupVars
    BY <2>1, <2>2 DEF setupVars
  <2>3. CASE Join
    BY <2>1, <2>3 DEF Join
  <2>4. ASSUME NEW preset \in Kinds, CreateDraft(preset)
        PROVE  Numbered'
    <3>1. serial' = serial + 1 /\ DOMAIN drafts' = DOMAIN drafts \union {serial + 1}
      BY <2>4 DEF CreateDraft
    <3>. QED BY <3>1 DEF Numbered
  <2>5. ASSUME NEW key \in DOMAIN assets, NEW r \in Rosters, TradePick(key, r)
        PROVE  Numbered'
    BY <2>1, <2>5 DEF TradePick
  <2>6. CASE Writes
    BY <2>1, <2>6 DEF Writes, Randomize, ConfirmOrder, OrderByOwnership, WriteRounds, DropPicks,
       GeneratePicks, OfferRookiePicks, DeleteDraft, PauseOrResume, GiveUp, Update
  <2>7. ASSUME NEW d \in DOMAIN drafts, Commissioner(d)
        PROVE  Numbered'
    BY <2>1, <2>7 DEF Commissioner, AskRandom, AskConfirm, AskOwnership, AskDelete, AskPause,
       AskRounds, AskRookiePicks, StartDraft, StartDerby
  <2>8. ASSUME NEW d \in DOMAIN drafts, NEW r \in Rosters, NEW s \in Rosters,
               PickSlot(d, r, s)
        PROVE  Numbered'
    BY <2>1, <2>8 DEF PickSlot, SetSlot, TransitionToLive, WriteDerby
  <2>9. ASSUME NEW d \in DOMAIN drafts, Timeout(d)
        PROVE  Numbered'
    BY <2>1, <2>9 DEF Timeout, SetSlot, TransitionToLive, WriteDerby
  <2>10. ASSUME NEW d \in DOMAIN drafts,
                AutoMatchup(d) \/ \E week \in RoundChoices, r \in Rosters : MatchupPick(d, week, r)
         PROVE  Numbered'
    <3>1. serial' = serial /\ \E g : TakeGame(d, g)
      <4>1. CASE AutoMatchup(d)
        BY <4>1, Zenon DEF AutoMatchup
      <4>2. ASSUME NEW week \in RoundChoices, NEW r \in Rosters, MatchupPick(d, week, r)
            PROVE  serial' = serial /\ \E g : TakeGame(d, g)
        BY <4>2, Zenon DEF MatchupPick
      <4>. QED BY <2>10, <4>1, <4>2
    <3>2. DOMAIN drafts' = DOMAIN drafts
      BY <3>1 DEF TakeGame
    <3>. QED BY <2>1, <3>1, <3>2
  <2>. QED BY <2>2, <2>3, <2>4, <2>5, <2>6, <2>7, <2>8, <2>9, <2>10, Zenon DEF SetupNext
<1>. QED BY <1>1, <1>2, PTL DEF SetupSpec

LEMMA ClaimsThroughWrites ==
    ASSUME SetupInv, Writes
    PROVE  ClaimsKept
<1>1. \A d \in DOMAIN drafts : DOMAIN drafts[d] = DraftColumns
  BY DEF SetupInv, DraftsOK
<1>2. CASE Randomize \/ ConfirmOrder \/ OrderByOwnership \/ WriteRounds
  <2>1. op.draft \in DOMAIN drafts
    BY <1>2 DEF Randomize, ConfirmOrder, OrderByOwnership, WriteRounds, Alive
  <2>2. PICK draft : /\ drafts' = [drafts EXCEPT ![op.draft] = draft]
                     /\ draft.phase = drafts[op.draft].phase
                     /\ draft.derby = drafts[op.draft].derby
    <3>1. \A order : LET draft == Confirmed(drafts[op.draft], order)
                     IN  /\ draft.phase = drafts[op.draft].phase
                         /\ draft.derby = drafts[op.draft].derby
      BY <1>1, <2>1 DEF Confirmed, DraftColumns
    <3>2. CASE Randomize \/ OrderByOwnership
      <4>1. PICK order : Update(Confirmed(drafts[op.draft], order))
        BY <3>2 DEF Randomize, OrderByOwnership
      <4>. QED BY <3>1, <4>1 DEF Update
    <3>3. CASE ConfirmOrder
      <4> DEFINE draft == [drafts[op.draft] EXCEPT !.confirmed = TRUE]
      <4>1. drafts' = [drafts EXCEPT ![op.draft] = draft]
        BY <3>3 DEF ConfirmOrder, Update
      <4>2. /\ draft.phase = drafts[op.draft].phase
            /\ draft.derby = drafts[op.draft].derby
        BY <1>1, <2>1 DEF DraftColumns
      <4>. QED BY <4>1, <4>2
    <3>4. CASE WriteRounds
      <4> DEFINE draft == [drafts[op.draft] EXCEPT !.rounds = op.rounds]
      <4>1. drafts' = [drafts EXCEPT ![op.draft] = draft]
        BY <3>4 DEF WriteRounds, Update
      <4>2. /\ draft.phase = drafts[op.draft].phase
            /\ draft.derby = drafts[op.draft].derby
        BY <1>1, <2>1 DEF DraftColumns
      <4>. QED BY <4>1, <4>2
    <3>. QED BY <1>2, <3>2, <3>3, <3>4
  <2>3. \A d \in DOMAIN drafts \cap DOMAIN drafts' : SameDerby(d)
    BY <2>2 DEF SameDerby
  <2>. QED BY <2>3, DerbiesStand
<1>3. CASE DropPicks \/ GeneratePicks \/ OfferRookiePicks \/ DeleteDraft \/ GiveUp
  <2>1. \A d \in DOMAIN drafts \cap DOMAIN drafts' : SameDerby(d)
    BY <1>3 DEF SameDerby, DropPicks, GeneratePicks, OfferRookiePicks, DeleteDraft, GiveUp
  <2>. QED BY <2>1, DerbiesStand
<1>4. CASE PauseOrResume
  BY <1>4 DEF PauseOrResume, ClaimsKept, StaleWrite
<1>. QED BY <1>2, <1>3, <1>4 DEF Writes

LEMMA ClaimsThroughRequests ==
    ASSUME SetupInv, NEW d \in DOMAIN drafts, Commissioner(d)
    PROVE  ClaimsKept
<1>1. \A e \in DOMAIN drafts : DOMAIN drafts[e] = DraftColumns
  BY DEF SetupInv, DraftsOK
<1>2. CASE StartDraft(d)
  <2>1. \A e \in DOMAIN drafts \cap DOMAIN drafts' : SameDerby(e)
    BY <1>1, <1>2 DEF SameDerby, StartDraft, DraftColumns
  <2>. QED BY <2>1, DerbiesStand
<1>3. CASE StartDerby(d)
  <2>1. \A e \in DOMAIN drafts \cap DOMAIN drafts' : InDerby(e) => SameDerby(e)
    BY <1>1, <1>3 DEF SameDerby, StartDerby, InDerby, DraftColumns
  <2>. QED BY <2>1, DerbiesStand
<1>4. CASE UNCHANGED drafts
  BY <1>4, DerbiesStand DEF SameDerby
<1>. QED BY <1>2, <1>3, <1>4 DEF Commissioner, AskRandom, AskConfirm, AskOwnership, AskDelete,
        AskPause, AskRounds, AskRookiePicks

\* A slot that is claimed stays claimed when another one is, whether the derby
\* goes on or ends with it.
LEMMA ClaimsThroughClaims ==
    ASSUME SetupInv, NEW d \in DOMAIN drafts, InDerby(d),
           NEW s \in Available(drafts[d].derby), SetSlot(d, Claim(drafts[d].derby, s))
    PROVE  ClaimsKept
<1> DEFINE derby == drafts[d].derby
           claimed == Claim(derby, s)
           next == AdvanceToNextPicker(claimed)
           live == [drafts[d] EXCEPT !.phase = "LIVE", !.order = claimed.slots,
                                     !.confirmed = TRUE, !.pick = 1,
                                     !.current = claimed.slots[1], !.derby = NoDerby]
           goingOn == [drafts[d] EXCEPT !.derby = next]
<1>1. DOMAIN drafts[d] = DraftColumns /\ DerbyOK(derby)
  BY DEF SetupInv, DraftsOK
<1>2. DOMAIN derby = {"turn", "idx", "picker", "slots"} /\ s \in DOMAIN derby.slots
      /\ derby.slots[s] = Free
  BY <1>1 DEF DerbyOK, DerbyShape, Available
<1>3. \A t \in DOMAIN derby.slots : derby.slots[t] # Free => claimed.slots[t] = derby.slots[t]
  BY <1>2 DEF Claim
<1>4. next.slots = claimed.slots
  <2>1. DOMAIN claimed = {"turn", "idx", "picker", "slots"}
    BY <1>2 DEF Claim
  <2> HIDE DEF claimed
  <2>. QED BY <2>1 DEF AdvanceToNextPicker
<1> HIDE DEF claimed, next
<1>5. CASE Available(claimed) = {}
  <2>1. drafts' = [drafts EXCEPT ![d] = live]
    BY <1>1, <1>5 DEF SetSlot, TransitionToLive, DraftColumns, claimed
  <2>2. live.phase = "LIVE" /\ live.order = claimed.slots
    BY <1>1 DEF DraftColumns
  <2> HIDE DEF live
  <2>. QED BY <1>3, <2>1, <2>2, OneDerby
<1>6. CASE Available(claimed) # {}
  <2>1. drafts' = [drafts EXCEPT ![d] = goingOn]
    BY <1>1, <1>6 DEF SetSlot, WriteDerby, DraftColumns, claimed, next
  <2>2. goingOn.phase = "DERBY" /\ goingOn.derby.slots = claimed.slots
    BY <1>1, <1>4 DEF DraftColumns, InDerby
  <2> HIDE DEF goingOn
  <2>. QED BY <1>3, <2>1, <2>2, OneDerby
<1>. QED BY <1>5, <1>6

LEMMA ClaimsThroughTimeouts ==
    ASSUME SetupInv, NEW d \in DOMAIN drafts, Timeout(d)
    PROVE  ClaimsKept
<1> DEFINE derby == drafts[d].derby
<1>1. InDerby(d) /\ DOMAIN drafts[d] = DraftColumns /\ DerbyOK(derby)
  BY DEF Timeout, Expired, SetupInv, DraftsOK
<1>2. ASSUME NEW s \in Available(derby), SetSlot(d, Claim(derby, s))
      PROVE  ClaimsKept
  BY <1>1, <1>2, ClaimsThroughClaims
<1>3. ASSUME NEW new, WriteDerby(d, new), new.slots = derby.slots
      PROVE  ClaimsKept
  <2> DEFINE draft == [drafts[d] EXCEPT !.derby = new]
  <2>1. drafts' = [drafts EXCEPT ![d] = draft]
    BY <1>1, <1>3 DEF WriteDerby, DraftColumns
  <2>2. draft.phase = "DERBY" /\ draft.derby = new
    BY <1>1 DEF DraftColumns, InDerby
  <2> HIDE DEF draft
  <2>. QED BY <1>3, <2>1, <2>2, OneDerby
<1>4. DOMAIN derby = {"turn", "idx", "picker", "slots"}
  BY <1>1 DEF DerbyOK, DerbyShape
<1>5. PushBackOne(derby).slots = derby.slots
  BY <1>4 DEF PushBackOne
<1>6. PushToEnd(derby).slots = derby.slots
  BY <1>4 DEF PushToEnd
<1>7. CASE WriteDerby(d, PushBackOne(derby))
  BY <1>3, <1>5, <1>7
<1>8. CASE WriteDerby(d, PushToEnd(derby))
  BY <1>3, <1>6, <1>8
<1>. QED BY <1>2, <1>7, <1>8, Zenon DEF Timeout

LEMMA ClaimsThroughGames ==
    ASSUME SetupInv, NEW d \in DOMAIN drafts, NEW g, TakeGame(d, g)
    PROVE  ClaimsKept
<1>1. \A e \in DOMAIN drafts : DOMAIN drafts[e] = DraftColumns
  BY DEF SetupInv, DraftsOK
<1>2. \A e \in DOMAIN drafts \cap DOMAIN drafts' : SameDerby(e)
  BY <1>1 DEF SameDerby, TakeGame, DraftColumns
<1>. QED BY <1>2, DerbiesStand

LEMMA ClaimsStep ==
    ASSUME SetupInv, Numbered, [SetupNext]_setupVars
    PROVE  ClaimsKept
<1>1. ASSUME UNCHANGED drafts
      PROVE  ClaimsKept
  BY <1>1, DerbiesStand DEF SameDerby
<1>2. CASE UNCHANGED setupVars
  BY <1>1, <1>2 DEF setupVars
<1>3. CASE Join
  BY <1>1, <1>3 DEF Join
<1>4. ASSUME NEW preset \in Kinds, CreateDraft(preset)
      PROVE  ClaimsKept
  <2>1. \A d \in DOMAIN drafts : d # serial + 1
    BY DEF Numbered
  <2>2. \A d \in DOMAIN drafts : drafts'[d] = drafts[d]
    BY <1>4, <2>1 DEF CreateDraft
  <2>. QED BY <2>2, DerbiesStand DEF SameDerby
<1>5. ASSUME NEW key \in DOMAIN assets, NEW r \in Rosters, TradePick(key, r)
      PROVE  ClaimsKept
  BY <1>1, <1>5 DEF TradePick
<1>6. CASE Writes
  BY <1>6, ClaimsThroughWrites
<1>7. ASSUME NEW d \in DOMAIN drafts, Commissioner(d)
      PROVE  ClaimsKept
  BY <1>7, ClaimsThroughRequests
<1>8. ASSUME NEW d \in DOMAIN drafts, NEW r \in Rosters, NEW s \in Rosters, PickSlot(d, r, s)
      PROVE  ClaimsKept
  <2>1. InDerby(d) /\ s \in Available(drafts[d].derby)
        /\ SetSlot(d, Claim(drafts[d].derby, s))
    BY <1>8, Zenon DEF PickSlot
  <2>. QED BY <2>1, ClaimsThroughClaims
<1>9. ASSUME NEW d \in DOMAIN drafts, Timeout(d)
      PROVE  ClaimsKept
  BY <1>9, ClaimsThroughTimeouts
<1>10. ASSUME NEW d \in DOMAIN drafts,
              AutoMatchup(d) \/ \E week \in RoundChoices, r \in Rosters : MatchupPick(d, week, r)
       PROVE  ClaimsKept
  <2>1. PICK g : TakeGame(d, g)
    BY <1>10, Zenon DEF AutoMatchup, MatchupPick
  <2>. QED BY <2>1, ClaimsThroughGames
<1>. QED BY <1>2, <1>3, <1>4, <1>5, <1>6, <1>7, <1>8, <1>9, <1>10, Zenon DEF SetupNext

\* ClaimsAreKept holds of the setup of any league: a slot claimed in a derby is
\* the claimer's place in the draft order, unless the draft is deleted or a
\* pause or resume (draft-state.service.ts) writes back a derby it read before.
THEOREM ClaimsSurvive == SetupSpec => ClaimsAreKept
<1>1. SetupInv /\ Numbered /\ [SetupNext]_setupVars => [ClaimsKept]_setupVars
  BY ClaimsStep
<1>2. SetupSpec => [][ClaimsKept]_setupVars
  BY <1>1, SetupInvHolds, NumberedHolds, PTL DEF SetupSpec
<1>. QED BY <1>2 DEF ClaimsAreKept, ClaimsKept
=============================================================================
