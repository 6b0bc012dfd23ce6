-------------------------- MODULE ChessDraftProofs --------------------------
(***************************************************************************)
(* The board, the clocks and the rookie picks of a draft in chess-clock    *)
(* mode, for every draft order, whatever starts, resumes and deletions act *)
(* on a draft that has changed since they read it (any value of Stale).    *)
(***************************************************************************)
EXTENDS ChessDraft, WellFoundedInduction, TLAPS

Statuses == {"not_started", "in_progress", "paused", "completed", "deleted"}
Ints ==
  /\ status \in Statuses
  /\ onClock \in Roster \union {None}
  /\ elapsed \in Nat
  /\ clock \in [Roster -> Nat]
  /\ owner \in [1 .. Total -> Roster]

\* The rows of the board, and the time each pick took.
Rows(b) ==
  /\ DOMAIN b \subseteq 1 .. Total
  /\ \A k \in DOMAIN b : b[k].used \in Nat
Distinct(b) == \A j, k \in DOMAIN b : b[j].item = b[k].item => j = k

\* Every pick made is before the current one, and nobody is on the clock of
\* a draft without a current pick, whatever has been written to its status.
Behind(b, c, r) ==
  \/ c = 0 /\ r = None
  \/ c \in 1 .. Total /\ \A k \in DOMAIN b : k < c

NotBegun ==
  /\ status = "not_started" => DOMAIN board = {} /\ \A r \in Roster : clock[r] = 0
  /\ asked # None /\ asked.op = "start" => status = "not_started"

IInv == Ints /\ Rows(board) /\ Distinct(board) /\ Behind(board, current, onClock) /\ NotBegun

\* What the sequel of Take depends on.
Taken(r, item, b) ==
  b = [k \in DOMAIN board \union {current} |->
         IF k # current THEN board[k]
         ELSE [roster |-> r, item |-> item, used |-> elapsed,
               from |-> IF item \in Asset THEN holder[item] ELSE None]]

-----------------------------------------------------------------------------
LEMMA TotalIsNat == Total \in Nat /\ Total > 0 /\ \A k \in 1 .. Total : Slot[k] \in Roster
<1>1. Slot \in Seq(Roster) /\ Total > 0
  BY ChessAssumption
<1>. QED BY <1>1 DEF Total

LEMMA LeastOf ==
  ASSUME NEW T \in SUBSET Nat, T # {}
  PROVE  \E x \in T : \A y \in T : x <= y
<1>. DEFINE R == {p \in Nat \X Nat : p[1] < p[2]}
<1>1. IsWellFoundedOn(R, Nat)
  BY NatLessThanWellFounded DEF OpToRel
<1>2. PICK x \in T : \A y \in T : ~(<<y, x>> \in R)
  <2>. HIDE DEF R
  <2>. QED BY <1>1, WFMin
<1>3. ASSUME NEW y \in T PROVE x <= y
  <2>1. x \in Nat /\ y \in Nat
    OBVIOUS
  <2>2. ~(y < x)
    BY <1>2, <2>1
  <2>. HIDE DEF R
  <2>. QED BY <2>1, <2>2
<1>. QED BY <1>3

\* There is a last pick.
LEMMA LastPick ==
  ASSUME NEW N \in Nat, NEW S \in SUBSET (1 .. N), S # {}
  PROVE  LET last == CHOOSE k \in S : \A j \in S : j <= k
         IN last \in S /\ \A j \in S : j <= last
<1>. DEFINE T == {N - k : k \in S}
<1>1. T \in SUBSET Nat /\ T # {}
  <2>1. \A k \in S : k \in 1 .. N /\ N - k \in Nat
    OBVIOUS
  <2>. QED BY <2>1
<1>2. PICK x \in T : \A y \in T : x <= y
  <2>. HIDE DEF T
  <2>. QED BY <1>1, LeastOf
<1>3. PICK k \in S : x = N - k
  BY <1>2
<1>4. \A j \in S : j <= k
  <2>. TAKE j \in S
  <2>1. x <= N - j
    BY <1>2
  <2>. QED BY <1>3, <2>1
<1>. QED BY <1>4

LEMMA InitInv == Init => IInv
<1>. SUFFICES ASSUME Init PROVE IInv
  OBVIOUS
<1>1. Ints
  BY TotalIsNat DEF Init, Ints, Statuses
<1>2. DOMAIN board = {}
  BY DEF Init
<1>. QED BY <1>1, <1>2, TotalIsNat DEF Init, IInv, Rows, Distinct, Behind, NotBegun

-----------------------------------------------------------------------------
(* Picks                                                                   *)

\* A pick is entered under its own number, with an item nobody has.
LEMMA TakeKeepsBoard ==
  ASSUME IInv, NEW r \in Roster, NEW item, status = "in_progress", Take(r, item)
  PROVE  /\ Taken(r, item, board') /\ current \in 1 .. Total /\ current \notin DOMAIN board
         /\ Rows(board') /\ Distinct(board')
         /\ Behind(board', current', onClock') /\ status' \in {"in_progress", "completed"}
         /\ onClock' \in Roster \union {None}
         /\ clock' = Deduct
         /\ current = Total => elapsed' = 0 /\ current' = 0
         /\ current # Total => current' # 0
<1>1. current \in 1 .. Total /\ \A k \in DOMAIN board : k < current
  BY ChessAssumption DEF IInv, Behind, Take
<1>2. Taken(r, item, board')
  BY DEF Take, Taken
<1>3. Rows(board')
  BY <1>1, <1>2 DEF IInv, Ints, Rows, Taken
<1>4. Distinct(board')
  <2>1. \A k \in DOMAIN board : board[k].item # item
    BY DEF Take, Drafted
  <2>. QED BY <1>2, <2>1 DEF IInv, Distinct, Taken
<1>5. CASE current = Total
  BY <1>1, <1>2, <1>3, <1>4, <1>5 DEF Take, Advance, WriteTurn, Behind
<1>6. CASE current # Total
  <2>1. current + 1 \in 1 .. Total
    BY <1>1, <1>6, TotalIsNat
  <2>2. /\ current' = current + 1 /\ onClock' = owner[current + 1] /\ status' = status
        /\ clock' = Deduct
    BY <1>6 DEF Take, Advance, WriteTurn
  <2>3. onClock' \in Roster
    BY <2>1, <2>2 DEF IInv, Ints
  <2>4. \A k \in DOMAIN board' : k < current'
    <3>1. DOMAIN board' = DOMAIN board \union {current} /\ DOMAIN board \subseteq 1 .. Total
      BY <1>2 DEF Taken, IInv, Rows
    <3>. QED BY <1>1, <2>2, <3>1
  <2>. QED BY <1>1, <1>2, <1>3, <1>4, <1>6, <2>1, <2>2, <2>3, <2>4 DEF Behind
<1>. QED BY <1>5, <1>6

LEMMA DeductIsClock == Ints => Deduct \in [Roster -> Nat]
<1>. SUFFICES ASSUME Ints PROVE Deduct \in [Roster -> Nat]
  OBVIOUS
<1>1. CASE onClock \in Roster
  <2>1. clock[onClock] \in Nat /\ elapsed \in Nat
    BY <1>1 DEF Ints
  <2>2. (IF clock[onClock] > elapsed THEN clock[onClock] - elapsed ELSE 0) \in Nat
    BY <2>1
  <2>. QED BY <1>1, <2>2 DEF Ints, Deduct
<1>2. CASE onClock \notin Roster
  BY <1>2 DEF Ints, Deduct
<1>. QED BY <1>1, <1>2

LEMMA TakeStep ==
  ASSUME IInv, NEW r \in Roster, NEW item, status = "in_progress", Take(r, item),
         elapsed' = elapsed \/ TurnStarts, UNCHANGED <<owner, asked>>
  PROVE  IInv'
<1>1. /\ Rows(board') /\ Distinct(board') /\ Behind(board', current', onClock')
      /\ status' \in {"in_progress", "completed"}
      /\ onClock' \in Roster \union {None} /\ clock' = Deduct
      /\ current = Total => elapsed' = 0
      /\ current # Total => current' # 0
  BY TakeKeepsBoard
<1>2. elapsed' \in Nat
  BY <1>1 DEF TurnStarts, IInv, Ints
<1>3. Ints'
  BY <1>1, <1>2, DeductIsClock DEF IInv, Ints, Statuses
<1>4. NotBegun'
  BY <1>1 DEF IInv, NotBegun
<1>. QED BY <1>1, <1>3, <1>4 DEF IInv

\* Every way to pick is a Take of one item, by the roster on the clock, that
\* starts the next turn or leaves its start alone.
Picks(item) ==
  /\ status = "in_progress"
  /\ \E r \in Roster : Take(r, item)
  /\ elapsed' = elapsed \/ TurnStarts
  /\ UNCHANGED rest

LEMMA MakePickPicks ==
  ASSUME NEW r \in Roster, NEW p \in Player, MakePick(r, p)
  PROVE  Picks(p)
BY DEF MakePick, Picks

LEMMA MakeAssetPicks ==
  ASSUME NEW r \in Roster, NEW a \in Asset, MakePickAssetSelection(r, a)
  PROVE  Picks(a) /\ ~InPendingTrade(a)
BY DEF MakePickAssetSelection, Picks

\* The autopick takes the first free entry of a queue, the best player or,
\* when there is none, a rookie pick that is in no pending trade.
LEMMA TickPicks ==
  ASSUME Tick, IInv
  PROVE  \E item : /\ Picks(item)
                   /\ \/ AutoPickQueued /\ item = Head(FreeEntries(onClock))
                      \/ item \in Player
                      \/ item \in Asset /\ ~InPendingTrade(item)
<1>. DEFINE Ok(item) == /\ Picks(item)
                        /\ \/ AutoPickQueued /\ item = Head(FreeEntries(onClock))
                           \/ item \in Player
                           \/ item \in Asset /\ ~InPendingTrade(item)
<1>1. status = "in_progress" /\ onClock \in Roster /\ UNCHANGED rest
  BY DEF Tick, IInv, Ints
<1>2. ASSUME NEW item, TakeBest(item) PROVE Picks(item)
  BY <1>1, <1>2 DEF TakeBest, Picks
<1>3. CASE AutoPickQueued
  <2>. DEFINE item == Head(FreeEntries(onClock))
  <2>1. Take(onClock, item) /\ (IF current = Total THEN TRUE ELSE UNCHANGED elapsed)
    BY <1>3 DEF AutoPickQueued
  <2>2. elapsed' = elapsed \/ TurnStarts
    BY <2>1 DEF Take, Advance, TurnStarts
  <2>3. Ok(item)
    BY <1>1, <1>3, <2>1, <2>2 DEF Picks
  <2>. QED BY <2>3
<1>4. CASE AutoPickPlayer
  <2>1. PICK p : p = BestAvailablePlayer /\ TakeBest(p)
    BY <1>4 DEF AutoPickPlayer
  <2>2. p \in Player
    <3>1. Player \ Drafted # {} /\ Player \subseteq Nat
      BY <1>4, ChessAssumption DEF AutoPickPlayer
    <3>2. \E x \in Player \ Drafted : \A y \in Player \ Drafted : x <= y
      BY <3>1, LeastOf
    <3>. QED BY <2>1, <3>2 DEF BestAvailablePlayer
  <2>. QED BY <1>2, <2>1, <2>2
<1>5. CASE AutoPickAsset
  <2>1. PICK a \in AvailableAssets : TakeBest(a)
    BY <1>5 DEF AutoPickAsset
  <2>2. a \in Asset /\ ~InPendingTrade(a)
    BY DEF AvailableAssets
  <2>. QED BY <1>2, <2>1, <2>2
<1>. QED BY <1>3, <1>4, <1>5 DEF Tick, AutoPickBest

LEMMA PickStep ==
  ASSUME IInv, NEW item, Picks(item)
  PROVE  IInv'
<1>1. PICK r \in Roster : Take(r, item)
  BY DEF Picks
<1>. QED BY <1>1, TakeStep DEF Picks, rest

-----------------------------------------------------------------------------
(* The commissioner                                                        *)

LEMMA StartStep == ASSUME IInv, Start PROVE IInv'
<1>1. status = "not_started"
  BY DEF Start, Answer, IInv, NotBegun
<1>2. /\ status' = "in_progress" /\ onClock' = owner[1] /\ elapsed' = 0 /\ current' = 1
      /\ asked' = None /\ clock' = [r \in Roster |-> Budget] /\ UNCHANGED <<board, owner>>
  BY <1>1 DEF Start, Answer, Update
<1>3. Ints'
  BY <1>2, ChessAssumption, TotalIsNat DEF IInv, Ints, Statuses
<1>4. Behind(board', current', onClock')
  BY <1>1, <1>2, TotalIsNat DEF IInv, NotBegun, Behind
<1>. QED BY <1>2, <1>3, <1>4 DEF IInv, Rows, Distinct, NotBegun

LEMMA PauseStep == ASSUME IInv, Pause PROVE IInv'
<1>1. Ints'
  BY DeductIsClock DEF Pause, Update, IInv, Ints, Statuses, rest
<1>2. Behind(board', current', onClock')
  BY DEF Pause, Update, IInv, Behind
<1>. QED BY <1>1, <1>2 DEF Pause, Update, IInv, Rows, Distinct, NotBegun, rest

LEMMA ResumeStep == ASSUME IInv, Resume PROVE IInv'
<1>1. Ints'
  BY DEF Resume, Update, IInv, Ints, Statuses
<1>2. Behind(board', current', onClock')
  BY DEF Resume, Update, IInv, Behind
<1>. QED BY <1>1, <1>2 DEF Resume, Answer, Update, IInv, Rows, Distinct, NotBegun

LEMMA CompleteStep == ASSUME IInv, Complete PROVE IInv'
<1>1. Ints'
  BY DEF Complete, Update, IInv, Ints, Statuses, rest
<1>2. Behind(board', current', onClock')
  BY DEF Complete, Update, IInv, Behind
<1>. QED BY <1>1, <1>2 DEF Complete, Update, IInv, Rows, Distinct, NotBegun, rest

LEMMA DeleteStep == ASSUME IInv, Delete PROVE IInv'
<1>1. Ints'
  BY DEF Delete, WriteTurn, IInv, Ints, Statuses
<1>2. DOMAIN board' = {} /\ Behind(board', current', onClock')
  BY DEF Delete, WriteTurn, Behind
<1>. QED BY <1>1, <1>2 DEF Delete, Answer, WriteTurn, IInv, Rows, Distinct, NotBegun

\* What undoPick takes off the board and gives back.
LastOf(b) == CHOOSE k \in DOMAIN b : \A j \in DOMAIN b : j <= k
Prev == IF status = "completed" THEN Total ELSE current - 1
Refund ==
  IF status = "paused" \/ Prev \notin DOMAIN board THEN 0
  ELSE IF board[Prev].item \in Asset THEN 0 ELSE board[Prev].used

LEMMA UndoFacts ==
  ASSUME IInv, Undo
  PROVE  /\ status \in {"in_progress", "paused", "completed"}
         /\ status' \in {"in_progress", "paused"}
         /\ LastOf(board) \in DOMAIN board
         /\ \A j \in DOMAIN board : j <= LastOf(board)
         /\ board' = [k \in DOMAIN board \ {LastOf(board)} |-> board[k]]
         /\ holder' = IF board[LastOf(board)].item \in Asset
                      THEN [holder EXCEPT ![board[LastOf(board)].item] = board[LastOf(board)].from]
                      ELSE holder
         /\ Prev \in 1 .. Total /\ Refund \in Nat
         /\ clock' = [clock EXCEPT ![owner[Prev]] = @ + Refund]
         /\ current' = Prev /\ onClock' = owner[Prev] /\ elapsed' = 0
         /\ UNCHANGED rest
<1>1. LastOf(board) \in DOMAIN board /\ \A j \in DOMAIN board : j <= LastOf(board)
  BY LastPick, TotalIsNat DEF Undo, IInv, Rows, LastOf
<1>2. Prev \in 1 .. Total
  BY TotalIsNat DEF Undo, Prev, IInv, Behind
<1>3. Refund \in Nat
  BY DEF Refund, IInv, Rows
<1>4. /\ status \in {"in_progress", "paused", "completed"}
      /\ board' = [k \in DOMAIN board \ {LastOf(board)} |-> board[k]]
      /\ holder' = IF board[LastOf(board)].item \in Asset
                   THEN [holder EXCEPT ![board[LastOf(board)].item] = board[LastOf(board)].from]
                   ELSE holder
      /\ elapsed' = 0 /\ UNCHANGED rest
  BY DEF Undo, LastOf
<1>5. clock' = [clock EXCEPT ![owner[Prev]] = @ + Refund]
  BY DEF Undo, Prev, Refund
<1>6. /\ status' \in {"in_progress", "paused"}
      /\ current' = Prev /\ onClock' = owner[Prev]
  BY DEF Undo, Prev, WriteTurn
<1>. QED BY <1>1, <1>2, <1>3, <1>4, <1>5, <1>6

LEMMA UndoStep == ASSUME IInv, Undo PROVE IInv'
<1>. DEFINE last == LastOf(board)
<1>1. /\ status' \in {"in_progress", "paused"} /\ status # "not_started"
      /\ last \in DOMAIN board /\ \A j \in DOMAIN board : j <= last
      /\ board' = [k \in DOMAIN board \ {last} |-> board[k]]
      /\ Prev \in 1 .. Total /\ Refund \in Nat
      /\ clock' = [clock EXCEPT ![owner[Prev]] = @ + Refund]
      /\ current' = Prev /\ onClock' = owner[Prev] /\ elapsed' = 0
      /\ owner' = owner /\ asked' = asked
  BY UndoFacts DEF rest
<1>. HIDE DEF last
<1>2. Ints'
  BY <1>1 DEF IInv, Ints, Statuses
<1>3. Rows(board') /\ Distinct(board')
  BY <1>1 DEF IInv, Rows, Distinct
<1>4. last <= Prev
  BY <1>1, TotalIsNat DEF IInv, Behind, Rows, Prev
<1>5. Behind(board', current', onClock')
  <2>1. \A k \in DOMAIN board' : k < Prev
    BY <1>1, <1>4 DEF IInv, Rows
  <2>. QED BY <1>1, <2>1 DEF Behind
<1>6. NotBegun'
  BY <1>1 DEF IInv, NotBegun
<1>. QED BY <1>2, <1>3, <1>5, <1>6 DEF IInv

-----------------------------------------------------------------------------
\* What touches none of the board, the turn and the clocks.
Aside ==
  \/ \E r \in Roster : \/ \E a \in Asset : ProposeTrade(a, r)
                       \/ \E i \in Queueable : AddToQueue(r, i) \/ RemoveFromQueue(r, i)
                       \/ ReorderQueue(r) \/ ToggleAutodraft(r)
                       \/ \E k \in Tradable : TradePick(k, r)
  \/ AskStart \/ AskResume \/ AskDelete
  \/ AgreeTrade \/ TransferOwnership \/ EndTrade
  \/ Elapse \/ UNCHANGED vars

LEMMA AsideFacts ==
  ASSUME IInv, Aside
  PROVE  /\ UNCHANGED <<status, current, onClock, board, clock>>
         /\ elapsed' \in Nat /\ owner' \in [1 .. Total -> Roster]
         /\ \/ asked' = asked
            \/ asked' # None /\ asked'.op = "start" => status = "not_started"
<1>. DEFINE Goal == /\ UNCHANGED <<status, current, onClock, board, clock>>
                    /\ elapsed' \in Nat /\ owner' \in [1 .. Total -> Roster]
                    /\ \/ asked' = asked
                       \/ asked' # None /\ asked'.op = "start" => status = "not_started"
<1>. USE DEF IInv, Ints, turn, clocks, rest
<1>1. ASSUME NEW r \in Roster, NEW a \in Asset, ProposeTrade(a, r) PROVE Goal
  BY <1>1 DEF ProposeTrade
<1>2. ASSUME NEW r \in Roster, NEW i \in Queueable, AddToQueue(r, i) \/ RemoveFromQueue(r, i)
      PROVE  Goal
  BY <1>2 DEF AddToQueue, RemoveFromQueue
<1>3. ASSUME NEW r \in Roster, ReorderQueue(r) \/ ToggleAutodraft(r) PROVE Goal
  BY <1>3 DEF ReorderQueue, ToggleAutodraft
<1>4. ASSUME NEW r \in Roster, NEW k \in Tradable, TradePick(k, r) PROVE Goal
  BY <1>4 DEF TradePick
<1>5. ASSUME AskStart \/ AskResume \/ AskDelete PROVE Goal
  BY <1>5 DEF AskStart, AskResume, AskDelete, Ask
<1>6. ASSUME AgreeTrade \/ TransferOwnership \/ EndTrade PROVE Goal
  BY <1>6 DEF AgreeTrade, TransferOwnership, EndTrade
<1>7. ASSUME Elapse PROVE Goal
  BY <1>7 DEF Elapse
<1>8. ASSUME UNCHANGED vars PROVE Goal
  BY <1>8 DEF vars
<1>. HIDE DEF Goal
<1>9. Goal
  BY <1>1, <1>2, <1>3, <1>4, <1>5, <1>6, <1>7, <1>8 DEF Aside
<1>. QED BY <1>9 DEF Goal

LEMMA AsideStep == ASSUME IInv, Aside PROVE IInv'
<1>1. /\ UNCHANGED <<status, current, onClock, board, clock>>
      /\ elapsed' \in Nat /\ owner' \in [1 .. Total -> Roster]
      /\ \/ asked' = asked
         \/ asked' # None /\ asked'.op = "start" => status = "not_started"
  BY AsideFacts
<1>2. Ints'
  BY <1>1 DEF IInv, Ints
<1>3. NotBegun'
  BY <1>1 DEF IInv, NotBegun
<1>. QED BY <1>1, <1>2, <1>3 DEF IInv, Rows, Distinct, Behind

\* The steps of a draft: a pick, something of the commissioner's, or aside.
LEMMA Steps ==
  ASSUME IInv, [Next]_vars
  PROVE  \/ \E item : /\ Picks(item)
                      /\ \/ AutoPickQueued /\ item = Head(FreeEntries(onClock))
                         \/ item \in Player
                         \/ item \in Asset /\ ~InPendingTrade(item)
         \/ Start \/ Pause \/ Resume \/ Complete \/ Delete \/ Undo \/ Aside
<1>1. ASSUME NEW r \in Roster, NEW p \in Player, MakePick(r, p) PROVE Picks(p)
  BY <1>1, MakePickPicks
<1>2. ASSUME NEW r \in Roster, NEW a \in Asset, MakePickAssetSelection(r, a)
      PROVE  Picks(a) /\ ~InPendingTrade(a)
  BY <1>2, MakeAssetPicks
<1>3. CASE Tick
  BY <1>3, TickPicks
<1>4. CASE \/ \E r \in Roster :
                \/ \E a \in Asset : ProposeTrade(a, r)
                \/ \E i \in Queueable : AddToQueue(r, i) \/ RemoveFromQueue(r, i)
                \/ ReorderQueue(r) \/ ToggleAutodraft(r)
                \/ \E k \in Tradable : TradePick(k, r)
           \/ AskStart \/ AskResume \/ AskDelete
           \/ AgreeTrade \/ TransferOwnership \/ EndTrade
           \/ Elapse \/ UNCHANGED vars
  BY <1>4 DEF Aside
<1>. QED BY <1>1, <1>2, <1>3, <1>4 DEF Next

LEMMA NextInv == IInv /\ [Next]_vars => IInv'
<1>. SUFFICES ASSUME IInv, [Next]_vars PROVE IInv'
  OBVIOUS
<1>1. ASSUME NEW item, Picks(item) PROVE IInv'
  BY <1>1, PickStep
<1>. QED BY <1>1, Steps, StartStep, PauseStep, ResumeStep, CompleteStep, DeleteStep, UndoStep,
         AsideStep

\* draft_picks and vet_draft_pick_selections are one board: no item is
\* drafted twice, and the current pick is free in both tables.
THEOREM BoardIsOne == Spec => []OneBoard
<1>1. IInv => OneBoard
  BY DEF IInv, Rows, Distinct, Behind, OneBoard
<1>. QED BY <1>1, InitInv, NextInv, PTL DEF Spec

-----------------------------------------------------------------------------
\* A deduction is from the clock of the roster whose turn it was; a refund
\* and the budgets at the start take nothing.
LEMMA WhoPays ==
  ASSUME IInv, [Next]_vars, NEW r \in Roster, clock'[r] < clock[r], status' # "deleted"
  PROVE  r = onClock
<1>0. clock[r] \in Nat /\ Budget \in Nat
  BY ChessAssumption DEF IInv, Ints
<1>1. ASSUME NEW item, Picks(item) PROVE r = onClock
  <2>1. clock' = Deduct
    BY <1>1, TakeKeepsBoard DEF Picks
  <2>. QED BY <1>0, <2>1 DEF Deduct, IInv, Ints
<1>2. CASE Start
  <2>1. clock[r] = 0 /\ clock'[r] = Budget
    BY <1>2 DEF Start, Answer, IInv, NotBegun
  <2>. QED BY <1>0, <2>1
<1>3. CASE Pause
  BY <1>0, <1>3 DEF Pause, Deduct, IInv, Ints
<1>4. CASE Resume \/ Complete
  BY <1>0, <1>4 DEF Resume, Complete
<1>5. CASE Delete
  BY <1>5 DEF Delete, WriteTurn
<1>6. CASE Undo
  <2>1. Refund \in Nat /\ clock' = [clock EXCEPT ![owner[Prev]] = @ + Refund]
    BY <1>6, UndoFacts
  <2>. QED BY <1>0, <2>1 DEF IInv, Ints
<1>7. CASE Aside
  BY <1>0, <1>7, AsideFacts
<1>. QED BY <1>1, <1>2, <1>3, <1>4, <1>5, <1>6, <1>7, Steps

\* Only the roster on the clock pays time, whoever owns the pick by now and
\* whoever makes it (processChessClockDeduction).
THEOREM ClockOfTheTurnPays == Spec => OnlyTheClockPays
<1>1. IInv /\ [Next]_vars =>
        [\A r \in Roster : clock'[r] < clock[r] /\ status' # "deleted" => r = onClock]_vars
  BY WhoPays
<1>. QED BY <1>1, InitInv, NextInv, PTL DEF Spec, OnlyTheClockPays

-----------------------------------------------------------------------------
(* Rookie picks                                                            *)

\* No autopick takes a rookie pick out of a pending trade, as it does when the
\* pick is first in the queue of the roster on the clock.
QueuesAreFree == [][AutoPickQueued => ~InPendingTrade(Head(FreeEntries(onClock)))]_vars

\* A drafted rookie pick is with its drafter, and undoPick would give it back
\* to whom the trades have given it; a trade agreed upon moves no drafted one.
Accounts(b, h, o) ==
  /\ h \in [Asset -> Roster] /\ titled \in [Asset -> Roster]
  /\ \A k \in DOMAIN b : b[k].item \in Asset =>
       /\ b[k].roster = h[b[k].item]
       /\ b[k].from = titled[b[k].item]
  /\ \A a \in Asset : (\A k \in DOMAIN b : b[k].item # a) => h[a] = titled[a]
  /\ o # None => o.asset \in Asset /\ o.to \in Roster
  /\ o # None /\ o.agreed => \A k \in DOMAIN b : b[k].item # o.asset
RInv == status # "deleted" => Accounts(board, holder, offer)

LEMMA InitRInv == Init => RInv
<1>. SUFFICES ASSUME Init PROVE RInv
  OBVIOUS
<1>1. DOMAIN board = {} /\ holder = FirstOwner /\ titled = FirstOwner /\ offer = None
  BY DEF Init
<1>. QED BY <1>1, ChessAssumption DEF RInv, Accounts

LEMMA PickKeepsAccounts ==
  ASSUME IInv, RInv, NEW item, Picks(item), ~InPendingTrade(item)
  PROVE  RInv'
<1>1. PICK r \in Roster : Take(r, item)
  BY DEF Picks
<1>2. /\ status = "in_progress" /\ UNCHANGED rest
      /\ Taken(r, item, board') /\ current \notin DOMAIN board
  BY <1>1, TakeKeepsBoard DEF Picks
<1>3. /\ holder' = IF item \in Asset THEN [holder EXCEPT ![item] = r] ELSE holder
      /\ \A k \in DOMAIN board : board[k].item # item
  BY <1>1 DEF Take, Drafted
<1>4. Accounts(board, holder, offer)
  BY <1>2 DEF RInv
<1>5. UNCHANGED <<titled, offer>>
  BY <1>2 DEF rest
<1>6. /\ DOMAIN board' = DOMAIN board \union {current}
      /\ \A k \in DOMAIN board : k # current /\ board'[k] = board[k]
      /\ board'[current].item = item /\ board'[current].roster = r
      /\ item \in Asset => board'[current].from = holder[item]
  BY <1>2 DEF Taken
<1>7. holder' \in [Asset -> Roster]
  BY <1>3, <1>4 DEF Accounts
<1>8. ASSUME NEW k \in DOMAIN board', board'[k].item \in Asset
      PROVE  board'[k].roster = holder'[board'[k].item] /\ board'[k].from = titled[board'[k].item]
  <2>1. CASE k = current
    BY <1>3, <1>4, <1>6, <1>8, <2>1 DEF Accounts
  <2>2. CASE k # current
    <3>1. k \in DOMAIN board /\ board'[k] = board[k] /\ board[k].item # item
      BY <1>3, <1>6, <2>2
    <3>. QED BY <1>3, <1>4, <1>8, <3>1 DEF Accounts
  <2>. QED BY <2>1, <2>2
<1>9. ASSUME NEW a \in Asset, \A k \in DOMAIN board' : board'[k].item # a
      PROVE  holder'[a] = titled[a]
  <2>1. a # item /\ \A k \in DOMAIN board : board[k].item # a
    BY <1>6, <1>9
  <2>. QED BY <1>3, <1>4, <2>1 DEF Accounts
<1>10. offer # None => offer.asset # item
  BY DEF InPendingTrade
<1>11. Accounts(board', holder', offer)
  BY <1>4, <1>5, <1>6, <1>7, <1>8, <1>9, <1>10 DEF Accounts
<1>. QED BY <1>5, <1>11 DEF RInv, Accounts

LEMMA UndoKeepsAccounts ==
  ASSUME IInv, RInv, Undo
  PROVE  RInv'
<1>. DEFINE last == LastOf(board)
<1>1. /\ status # "deleted" /\ last \in DOMAIN board
      /\ board' = [k \in DOMAIN board \ {last} |-> board[k]]
      /\ holder' = IF board[last].item \in Asset
                   THEN [holder EXCEPT ![board[last].item] = board[last].from] ELSE holder
      /\ UNCHANGED <<titled, offer>>
  BY UndoFacts DEF rest
<1>. HIDE DEF last
<1>2. Accounts(board, holder, offer)
  BY <1>1 DEF RInv
<1>3. /\ DOMAIN board' \subseteq DOMAIN board
      /\ \A k \in DOMAIN board' : board'[k] = board[k] /\ board[k].item # board[last].item
  BY <1>1 DEF IInv, Distinct
<1>4. holder' \in [Asset -> Roster]
  BY <1>1, <1>2 DEF Accounts
<1>5. ASSUME NEW k \in DOMAIN board', board'[k].item \in Asset
      PROVE  board'[k].roster = holder'[board'[k].item] /\ board'[k].from = titled[board'[k].item]
  BY <1>1, <1>2, <1>3, <1>5 DEF Accounts
<1>6. ASSUME NEW a \in Asset, \A k \in DOMAIN board' : board'[k].item # a
      PROVE  holder'[a] = titled[a]
  <2>1. CASE a = board[last].item
    BY <1>1, <1>2, <2>1 DEF Accounts
  <2>2. CASE a # board[last].item
    <3>1. \A k \in DOMAIN board : board[k].item # a
      BY <1>1, <1>6, <2>2
    <3>. QED BY <1>1, <1>2, <2>2, <3>1 DEF Accounts
  <2>. QED BY <2>1, <2>2
<1>7. Accounts(board', holder', offer)
  BY <1>1, <1>2, <1>3, <1>4, <1>5, <1>6 DEF Accounts
<1>. QED BY <1>1, <1>7 DEF RInv, Accounts

\* Steps of the commissioner that leave the board and the rookie picks alone.
LEMMA RestKeepsAccounts ==
  ASSUME RInv, status # "deleted", UNCHANGED <<board, holder, offer, titled>>
  PROVE  RInv'
BY DEF RInv, Accounts

\* A trade checks at its acceptance that nobody has drafted its pick.
LEMMA TradeKeepsAccounts ==
  ASSUME IInv, RInv, Aside
  PROVE  RInv'
<1>. SUFFICES ASSUME status # "deleted" PROVE RInv'
  BY AsideFacts DEF RInv
<1>1. Accounts(board, holder, offer) /\ board' = board
  BY AsideFacts DEF RInv
<1>2. ASSUME NEW r \in Roster, NEW a \in Asset, ProposeTrade(a, r) PROVE RInv'
  <2>1. /\ offer' = [asset |-> a, by |-> holder[a], to |-> r, agreed |-> FALSE]
        /\ UNCHANGED <<holder, titled>>
    BY <1>2 DEF ProposeTrade
  <2>2. offer'.asset = a /\ offer'.to = r /\ ~offer'.agreed
    BY <2>1
  <2>. QED BY <1>1, <2>1, <2>2 DEF RInv, Accounts
<1>3. CASE AgreeTrade
  <2>1. /\ offer' = [offer EXCEPT !.agreed = TRUE] /\ UNCHANGED <<holder, titled>>
        /\ offer # None /\ \A k \in DOMAIN board : board[k].item # offer.asset
    BY <1>3 DEF AgreeTrade, IsPickUsed, Drafted
  <2>2. offer'.asset = offer.asset /\ offer'.to = offer.to
    BY <2>1
  <2>. QED BY <1>1, <2>1, <2>2 DEF RInv, Accounts
<1>4. CASE TransferOwnership
  <2>1. /\ offer # None /\ offer.agreed /\ offer' = None
        /\ holder' = [holder EXCEPT ![offer.asset] = offer.to]
        /\ titled' = [titled EXCEPT ![offer.asset] = offer.to]
    BY <1>4 DEF TransferOwnership
  <2>2. /\ offer.asset \in Asset /\ offer.to \in Roster
        /\ \A k \in DOMAIN board : board[k].item # offer.asset
    BY <1>1, <2>1 DEF Accounts
  <2>. QED BY <1>1, <2>1, <2>2 DEF RInv, Accounts
<1>5. CASE EndTrade
  BY <1>1, <1>5 DEF EndTrade, RInv, Accounts
<1>6. CASE UNCHANGED <<holder, offer, titled>>
  BY <1>1, <1>6 DEF RInv, Accounts
<1>7. ASSUME NEW r \in Roster, NEW i \in Queueable, AddToQueue(r, i) \/ RemoveFromQueue(r, i)
      PROVE  UNCHANGED <<holder, offer, titled>>
  BY <1>7 DEF AddToQueue, RemoveFromQueue, rest
<1>8. ASSUME NEW r \in Roster, ReorderQueue(r) \/ ToggleAutodraft(r)
      PROVE  UNCHANGED <<holder, offer, titled>>
  BY <1>8 DEF ReorderQueue, ToggleAutodraft, rest
<1>9. ASSUME NEW r \in Roster, NEW k \in Tradable, TradePick(k, r)
      PROVE  UNCHANGED <<holder, offer, titled>>
  BY <1>9 DEF TradePick
<1>10. ASSUME AskStart \/ AskResume \/ AskDelete \/ Elapse \/ UNCHANGED vars
       PROVE  UNCHANGED <<holder, offer, titled>>
  BY <1>10 DEF AskStart, AskResume, AskDelete, Ask, Elapse, rest, vars
<1>. QED BY <1>2, <1>3, <1>4, <1>5, <1>6, <1>7, <1>8, <1>9, <1>10 DEF Aside

LEMMA NextRInv ==
  IInv /\ RInv /\ [Next]_vars /\ [AutoPickQueued => ~InPendingTrade(Head(FreeEntries(onClock)))]_vars
    => RInv'
<1>. SUFFICES ASSUME IInv, RInv, [Next]_vars,
                     [AutoPickQueued => ~InPendingTrade(Head(FreeEntries(onClock)))]_vars
              PROVE  RInv'
  OBVIOUS
<1>1. CASE UNCHANGED vars
  BY <1>1 DEF vars, RInv, Accounts
<1>2. ASSUME NEW item, Picks(item), item \in Player PROVE RInv'
  <2>1. item \notin Asset
    BY <1>2, ChessAssumption
  <2>2. Accounts(board, holder, offer)
    BY <1>2 DEF RInv, Picks
  <2>3. ~InPendingTrade(item)
    BY <2>1, <2>2 DEF InPendingTrade, Accounts
  <2>. QED BY <1>2, <2>3, PickKeepsAccounts
<1>3. ASSUME NEW item, Picks(item), ~InPendingTrade(item) PROVE RInv'
  BY <1>3, PickKeepsAccounts
<1>4. CASE Delete
  BY <1>4 DEF Delete, WriteTurn, RInv
<1>5. CASE Start \/ Pause \/ Resume \/ Complete
  <2>1. status # "deleted" /\ UNCHANGED <<board, holder, offer, titled>>
    BY <1>5 DEF Start, Pause, Resume, Complete, Answer, rest
  <2>. QED BY <2>1, RestKeepsAccounts
<1>. QED BY <1>1, <1>2, <1>3, <1>4, <1>5, Steps, UndoKeepsAccounts, TradeKeepsAccounts

\* A rookie pick belongs to its drafter, or to whom the trades have given it:
\* it can go wrong in no way but the autopick from a queue that does not look
\* for a pending trade (base-draft.engine.ts:563).
THEOREM RookiesHaveOneOwner == Spec /\ QueuesAreFree => []RookiePicksAccounted
<1>1. IInv /\ RInv => RookiePicksAccounted
  <2>. SUFFICES ASSUME IInv, RInv, status # "deleted", NEW a \in Asset
                PROVE  IF a \in Drafted
                       THEN \E k \in DOMAIN board : board[k].item = a /\ board[k].roster = holder[a]
                       ELSE holder[a] = titled[a]
    BY DEF RookiePicksAccounted
  <2>. QED BY DEF RInv, Accounts, Drafted
<1>. QED BY <1>1, InitInv, NextInv, InitRInv, NextRInv, PTL DEF Spec, QueuesAreFree
=============================================================================
