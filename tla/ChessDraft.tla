----------------------------- MODULE ChessDraft -----------------------------
(***************************************************************************)
(* A draft in chess-clock mode in which the picks of the next rookie draft *)
(* can be drafted like players: what DraftRoom leaves out of               *)
(* draft-state.service.ts, draft-pick.service.ts and the engines, with the *)
(* queues of the managers and the trades of pick assets.                   *)
(*                                                                         *)
(* An operation that holds the DRAFT lock is one action.  Start, resume    *)
(* and delete read the draft before (Ask) and act on what they read; a     *)
(* trade moves its pick under the TRADE lock, after checks of its own.     *)
(* Time passes in units: `elapsed` is the time since turnStartedAt, `left` *)
(* the time until the deadline.  Players are numbered in the order of      *)
(* their ADP.  The rosters that a completed draft fills are in DraftRoom.  *)
(***************************************************************************)
EXTENDS Integers, Sequences, FiniteSets, FiniteSetsExt, SequencesExt

CONSTANTS
    Roster,
    Slot,        \* Slot[k]: the roster whose turn pick k is by the draft order
    Teams,       \* rosters in the draft
    Player,      \* 1..n, best ADP first
    Asset,       \* rookie picks that may be drafted (includeRookiePicks)
    FirstOwner,  \* owner of each rookie pick before the draft
    Tradable,    \* pick numbers whose assets are traded in the instance
    Queueable,   \* items that managers put in their queues
    Budget,      \* chessClockTotalSeconds
    MinPick,     \* chessClockMinPickSeconds
    Stale,       \* bound: whether others commit between a read and its write
    MaxElapsed,  \* bound: the longest turn
    MaxClock,    \* bound: time on a clock after refunds
    MaxQueue,    \* bound: entries of a queue
    None

Total == Len(Slot)
Item == Player \union Asset

ASSUME ChessAssumption ==
    /\ Slot \in Seq(Roster) /\ Total > 0 /\ Teams \in 1..Total
    /\ Player \subseteq Nat /\ Asset \intersect Nat = {}
    /\ FirstOwner \in [Asset -> Roster]
    /\ Tradable \subseteq 1..Total /\ Queueable \subseteq Item
    /\ Budget \in Nat \ {0} /\ MinPick \in Nat \ {0} /\ Stale \in BOOLEAN
    /\ None \notin Roster

VARIABLES
    status,     \* drafts.status, or "deleted"
    current,    \* drafts.current_pick, 0 for NULL
    onClock,    \* drafts.current_roster_id
    left,       \* time until pick_deadline, -1 for NULL
    elapsed,    \* time since draftState.turnStartedAt
    clock,      \* draft_chess_clocks.remaining_seconds
    board,      \* draft_picks and vet_draft_pick_selections by pick number
    owner,      \* current owner of the asset of each pick of this draft
    holder,     \* current_owner_roster_id of the rookie picks
    autodraft,  \* rosters with is_autodraft_enabled
    queue,      \* draft_queue: items of each roster in order
    offer,      \* the trade of a rookie pick under way
    asked,      \* what a start, resume or delete request has read
    titled      \* auxiliary: the owner of a rookie pick by trades alone

vars == <<status, current, onClock, left, elapsed, clock, board, owner, holder,
          autodraft, queue, offer, asked, titled>>
clocks == <<left, elapsed, clock>>
turn == <<status, current, onClock>>
rest == <<owner, offer, asked, titled>>

-----------------------------------------------------------------------------
(* The board and the clocks                                                 *)

Drafted == {board[k].item : k \in DOMAIN board}
Round(k) == ((k - 1) \div Teams) + 1

\* A clock that has run out still leaves the minimum for each pick.
Effective(seconds) == IF seconds > 0 THEN seconds ELSE MinPick

\* The turn's time is paid by the roster on the clock, down to zero.
Deduct_Faulty == [clock EXCEPT ![owner[current]] = IF @ > elapsed THEN @ - elapsed ELSE 0]
Deduct == [clock EXCEPT ![onClock] = IF @ > elapsed THEN @ - elapsed ELSE 0]

InPendingTrade(a) == offer # None /\ offer.asset = a

Without(q, item) == SelectSeq(q, LAMBDA x : x # item)

\* updateDraftStateWithClient: status, pick number, roster and deadline (of a
\* draft whose row is gone, what reads of it find: nothing).
WriteTurn(s, k, r, seconds) ==
    status' = s /\ current' = k /\ onClock' = r /\ left' = seconds

\* updateWithClient of the draft row, with the turn's start in draft_state.
Update(s, r, seconds) ==
    status' = s /\ onClock' = r /\ left' = seconds /\ elapsed' = 0

\* computeNextPickState: the next owner's turn, or the end of the draft.
Advance ==
    IF current = Total
    THEN WriteTurn("completed", 0, None, -1) /\ elapsed' = 0
    ELSE LET next == owner[current + 1]
         IN  WriteTurn(status, current + 1, next, Effective(clock'[next]))

Take_Faulty(r, item) ==
    /\ r = onClock
    /\ board' = [k \in DOMAIN board \union {current} |->
                   IF k # current THEN board[k]
                   ELSE [roster |-> r, item |-> item, used |-> elapsed,
                         from |-> IF item \in Asset THEN holder[item] ELSE None]]
    /\ holder' = IF item \in Asset THEN [holder EXCEPT ![item] = r] ELSE holder
    /\ clock' = Deduct
    /\ Advance

\* makePickAndAdvanceTxWithClient, makePickAssetSelectionTxWithClient: the
\* item leaves every queue; a rookie pick changes hands.
Take(r, item) ==
    /\ r = onClock
    /\ item \notin Drafted /\ current \notin DOMAIN board
    /\ board' = [k \in DOMAIN board \union {current} |->
                   IF k # current THEN board[k]
                   ELSE [roster |-> r, item |-> item, used |-> elapsed,
                         from |-> IF item \in Asset THEN holder[item] ELSE None]]
    /\ holder' = IF item \in Asset THEN [holder EXCEPT ![item] = r] ELSE holder
    /\ clock' = Deduct
    /\ Advance

\* turnStartedAt is written with the turn of the next roster.
TurnStarts == current' # 0 => elapsed' = 0

-----------------------------------------------------------------------------
(* Picks                                                                    *)

Init ==
    /\ status = "not_started" /\ current = 1 /\ onClock = None
    /\ left = -1 /\ elapsed = 0
    /\ clock = [r \in Roster |-> 0]
    /\ board = [k \in {} |-> None]
    /\ owner = [k \in 1..Total |-> Slot[k]]
    /\ holder = FirstOwner /\ titled = FirstOwner
    /\ autodraft = {}
    /\ queue = [r \in Roster |-> <<>>]
    /\ offer = None /\ asked = None

\* The manager who owns the pick takes a player.
MakePick(r, p) ==
    /\ status = "in_progress"
    /\ Take(r, p) /\ owner[current] = r
    /\ TurnStarts
    /\ queue' = [x \in Roster |-> Without(queue[x], p)]
    /\ UNCHANGED <<autodraft, rest>>

MakePickAssetSelection_Faulty(r, a) ==
    /\ status = "in_progress"
    /\ Take(r, a) /\ owner[current] = r
    /\ TurnStarts
    /\ queue' = [x \in Roster |-> Without(queue[x], a)]
    /\ UNCHANGED <<autodraft, rest>>

\* ... or a rookie pick, whoever holds it, unless a trade of it is pending.
MakePickAssetSelection(r, a) ==
    /\ status = "in_progress"
    /\ ~InPendingTrade(a)
    /\ Take(r, a) /\ owner[current] = r
    /\ TurnStarts
    /\ queue' = [x \in Roster |-> Without(queue[x], a)]
    /\ UNCHANGED <<autodraft, rest>>

ShouldAutoPick == left = 0 \/ onClock \in autodraft

\* The entries of the queue of r that are still free, in order.
FreeEntries(r) == SelectSeq(queue[r], LAMBDA x : x \notin Drafted)
BestAvailablePlayer == CHOOSE p \in Player \ Drafted : \A q \in Player \ Drafted : p <= q
AvailableAssets == {a \in Asset \ Drafted : ~InPendingTrade(a)}

\* The first free entry of the queue is taken, and those before it dropped.
\* This path returns before turnStartedAt is written.
AutoPickQueued ==
    LET item == Head(FreeEntries(onClock))
    IN  /\ FreeEntries(onClock) # <<>>
        /\ Take(onClock, item)
        /\ IF current = Total THEN TRUE ELSE UNCHANGED elapsed
        /\ queue' = [x \in Roster |->
                       Without(IF x = onClock
                               THEN SubSeq(queue[x], CHOOSE i \in DOMAIN queue[x] :
                                             queue[x][i] = item, Len(queue[x]))
                               ELSE queue[x], item)]

TakeBest(item) ==
    /\ Take(onClock, item)
    /\ TurnStarts
    /\ queue' = [x \in Roster |-> IF x = onClock THEN <<>> ELSE Without(queue[x], item)]

AutoPickPlayer == Player \ Drafted # {} /\ TakeBest(BestAvailablePlayer)
AutoPickAsset == \E a \in AvailableAssets : TakeBest(a)

\* The best player left, and a rookie pick when there is none.
AutoPickBest ==
    /\ FreeEntries(onClock) = <<>>
    /\ AutoPickPlayer \/ (Player \ Drafted = {} /\ AutoPickAsset)

\* handleAutodraftForceEnable
ForceAutodraft == autodraft' = autodraft \union {onClock}

\* tick: an autopick turns autodraft on for the roster it picks for.
Tick ==
    /\ status = "in_progress" /\ onClock # None
    /\ ShouldAutoPick
    /\ AutoPickQueued \/ AutoPickBest
    /\ ForceAutodraft
    /\ UNCHANGED rest

ToggleAutodraft(r) ==
    /\ status \in {"not_started", "in_progress", "paused"}
    /\ autodraft' = IF r \in autodraft THEN autodraft \ {r} ELSE autodraft \union {r}
    /\ UNCHANGED <<turn, clocks, board, holder, queue, rest>>

-----------------------------------------------------------------------------
(* Queues: statements of their own, under no lock                           *)

Queued(r, item) == \E i \in DOMAIN queue[r] : queue[r][i] = item

\* Whether the item is drafted is asked before, so that it may be by now.
AddToQueue(r, item) ==
    /\ status = "in_progress"
    /\ Len(queue[r]) < MaxQueue
    /\ ~Queued(r, item)
    /\ queue' = [queue EXCEPT ![r] = Append(@, item)]
    /\ UNCHANGED <<turn, clocks, board, holder, autodraft, rest>>

RemoveFromQueue(r, item) ==
    /\ status = "in_progress"
    /\ Queued(r, item)
    /\ queue' = [queue EXCEPT ![r] = Without(@, item)]
    /\ UNCHANGED <<turn, clocks, board, holder, autodraft, rest>>

ReorderQueue(r) ==
    /\ status = "in_progress"
    /\ Len(queue[r]) > 1
    /\ queue' = [queue EXCEPT ![r] = Reverse(@)]
    /\ UNCHANGED <<turn, clocks, board, holder, autodraft, rest>>

-----------------------------------------------------------------------------
(* The commissioner                                                         *)

Ask(op, from) ==
    /\ asked = None
    /\ status \in from
    /\ asked' = [op |-> op, status |-> status, onClock |-> onClock]
    /\ UNCHANGED <<turn, clocks, board, holder, owner, autodraft, queue, offer, titled>>

\* startDraft, resumeDraft and deleteDraft refuse other states here only.
AskStart == Ask("start", {"not_started"})
AskResume == Ask("resume", {"paused"})
AskDelete == Ask("delete", {"not_started", "paused"})

\* What was read is acted upon, whatever the draft has become since.
Answer(op) ==
    /\ asked # None /\ asked.op = op
    /\ Stale \/ asked.status = status
    /\ status # "deleted"
    /\ asked' = None

\* The first picker is computed with the pick assets as they are; the clocks
\* are inserted unless they exist.
Start ==
    /\ Answer("start")
    /\ current' = 1
    /\ Update("in_progress", owner[1], Budget)
    /\ clock' = IF status = "not_started" THEN [r \in Roster |-> Budget] ELSE clock
    /\ UNCHANGED <<board, owner, holder, autodraft, queue, offer, titled>>

\* pauseDraft reads the draft again under the lock.
Pause ==
    /\ status = "in_progress" /\ onClock # None
    /\ clock' = Deduct
    /\ Update("paused", onClock, -1)
    /\ UNCHANGED <<current, board, holder, autodraft, queue, rest>>

\* The deadline follows the clock of the roster that was read.
Resume ==
    /\ Answer("resume")
    /\ Update("in_progress", onClock, Effective(clock[asked.onClock]))
    /\ UNCHANGED <<current, clock, board, owner, holder, autodraft, queue,
                   offer, titled>>

Complete ==
    /\ status \in {"in_progress", "paused"}
    /\ Update("completed", None, -1)
    /\ UNCHANGED <<current, clock, board, holder, autodraft, queue, rest>>

\* The rows of the draft go with it; the rookie picks keep their owners.
Delete ==
    /\ Answer("delete")
    /\ WriteTurn("deleted", 0, None, -1) /\ elapsed' = 0
    /\ board' = [k \in {} |-> None]
    /\ queue' = [r \in Roster |-> <<>>]
    /\ clock' = [r \in Roster |-> 0]
    /\ UNCHANGED <<owner, holder, autodraft, offer, titled>>

\* undoPick: the last pick of the two tables goes, and a rookie pick goes
\* back.  Unless the draft is paused, the owner of the pick gets the time
\* that draft_picks has for it; rows of rookie picks are not looked up.
Undo ==
    LET last   == CHOOSE k \in DOMAIN board : \A j \in DOMAIN board : j <= k
        prev   == IF status = "completed" THEN Total ELSE current - 1
        item   == board[last].item
        refund == IF status = "paused" \/ prev \notin DOMAIN board THEN 0
                  ELSE IF board[prev].item \in Asset THEN 0 ELSE board[prev].used
    IN  /\ status \in {"in_progress", "paused", "completed"}
        /\ DOMAIN board # {} /\ prev > 0
        /\ clock[owner[prev]] + refund <= MaxClock
        /\ board' = [k \in DOMAIN board \ {last} |-> board[k]]
        /\ holder' = IF item \in Asset THEN [holder EXCEPT ![item] = board[last].from] ELSE holder
        /\ clock' = [clock EXCEPT ![owner[prev]] = @ + refund]
        /\ IF status = "paused"
             THEN WriteTurn("paused", prev, owner[prev], -1)
             ELSE WriteTurn("in_progress", prev, owner[prev], Effective(clock'[owner[prev]]))
        /\ elapsed' = 0
        /\ UNCHANGED <<autodraft, queue, rest>>

-----------------------------------------------------------------------------
(* Trades and time                                                          *)

\* isRoundPassed
RoundPassed(k) ==
    status \in {"completed", "deleted"} \/ (status = "in_progress" /\ Round(current) > Round(k))

\* A pick of this draft changes hands; the draft row is not touched.
TradePick(k, r) ==
    /\ ~RoundPassed(k) /\ owner[k] # r
    /\ owner' = [owner EXCEPT ![k] = r]
    /\ UNCHANGED <<turn, clocks, board, holder, autodraft, queue, offer, asked, titled>>

\* isPickUsed also looks for rookie picks drafted here.
IsPickUsed(a) == a \in Drafted

ProposeTrade(a, r) ==
    /\ offer = None /\ holder[a] # r /\ ~IsPickUsed(a)
    /\ offer' = [asset |-> a, by |-> holder[a], to |-> r, agreed |-> FALSE]
    /\ UNCHANGED <<turn, clocks, board, owner, holder, autodraft, queue, asked, titled>>

\* acceptTrade checks the owner and the use of the pick again...
AgreeTrade ==
    /\ offer # None /\ ~offer.agreed
    /\ holder[offer.asset] = offer.by /\ ~IsPickUsed(offer.asset)
    /\ offer' = [offer EXCEPT !.agreed = TRUE]
    /\ UNCHANGED <<turn, clocks, board, owner, holder, autodraft, queue, asked, titled>>

\* ... and transferOwnership writes, in the same transaction.
TransferOwnership ==
    /\ offer # None /\ offer.agreed
    /\ holder' = [holder EXCEPT ![offer.asset] = offer.to]
    /\ titled' = [titled EXCEPT ![offer.asset] = offer.to]
    /\ offer' = None
    /\ UNCHANGED <<turn, clocks, board, owner, autodraft, queue, asked>>

\* Rejected, cancelled, expired, or rolled back.
EndTrade ==
    /\ offer # None
    /\ offer' = None
    /\ UNCHANGED <<turn, clocks, board, owner, holder, autodraft, queue, asked, titled>>

Elapse ==
    /\ status = "in_progress"
    /\ elapsed < MaxElapsed
    /\ elapsed' = elapsed + 1
    /\ left' = IF left > 0 THEN left - 1 ELSE left
    /\ UNCHANGED <<turn, clock, board, holder, autodraft, queue, rest>>

Next ==
    \/ \E r \in Roster :
         \/ \E p \in Player : MakePick(r, p)
         \/ \E a \in Asset : MakePickAssetSelection(r, a) \/ ProposeTrade(a, r)
         \/ \E i \in Queueable : AddToQueue(r, i) \/ RemoveFromQueue(r, i)
         \/ ReorderQueue(r) \/ ToggleAutodraft(r)
         \/ \E k \in Tradable : TradePick(k, r)
    \/ Tick
    \/ AskStart \/ AskResume \/ AskDelete
    \/ Start \/ Pause \/ Resume \/ Complete \/ Delete \/ Undo
    \/ AgreeTrade \/ TransferOwnership \/ EndTrade
    \/ Elapse

Spec == Init /\ [][Next]_vars

-----------------------------------------------------------------------------
(* Properties                                                               *)

TypeOK ==
    /\ status \in {"not_started", "in_progress", "paused", "completed", "deleted"}
    /\ current \in 0..Total
    /\ onClock \in Roster \union {None}
    /\ left \in -1..MaxClock /\ elapsed \in 0..MaxElapsed
    /\ clock \in [Roster -> 0..MaxClock]
    /\ DOMAIN board \subseteq 1..Total
    /\ \A k \in DOMAIN board : board[k].item \in Item /\ board[k].roster \in Roster
    /\ holder \in [Asset -> Roster]

\* The two tables together are one board: no player and no rookie pick is
\* drafted twice, and the picks made are those before the current one, so
\* that the next pick has a number of its own in both tables.
OneBoard ==
    /\ \A j, k \in DOMAIN board : board[j].item = board[k].item => j = k
    /\ status \in {"in_progress", "paused"} => current \notin DOMAIN board

\* A rookie pick belongs to the roster that drafted it, and to whom the
\* trades have given it when it is not drafted (or no longer: undoPick).
RookiePicksAccounted ==
    status # "deleted" =>
        \A a \in Asset :
            IF a \in Drafted
            THEN \E k \in DOMAIN board : board[k].item = a /\ board[k].roster = holder[a]
            ELSE holder[a] = titled[a]

\* Only the roster on the clock ever pays time, whoever owns the pick by now
\* and whoever makes it.
OnlyTheClockPays ==
    [][\A r \in Roster : clock'[r] < clock[r] /\ status' # "deleted" => r = onClock]_vars

\* A turn's time is its own: the deadline is as far away as the clock of the
\* roster on the clock says, counted from the start of its turn.
TurnStartsFresh ==
    status = "in_progress" /\ onClock # None /\ left > 0 =>
        left + elapsed = Effective(clock[onClock])

\* A completed draft is only opened again by an undo.
CompletedStaysClosed ==
    [][status = "completed" /\ status' = "in_progress" =>
         Cardinality(DOMAIN board') < Cardinality(DOMAIN board)]_vars
=============================================================================
