----------------------------- MODULE DraftRoom ------------------------------
(***************************************************************************)
(* A snake or linear draft with a timer per pick: draft-state.service.ts,  *)
(* draft-pick.service.ts, engines/ and the autopick job.  An operation     *)
(* that holds the DRAFT lock and reads the draft inside it is one action.  *)
(* startDraft chooses the first picker before it takes the lock, and pick  *)
(* assets change hands under the TRADE and ROSTER locks only: those two    *)
(* are split in two actions.                                               *)
(* Time is reduced to whether the deadline has passed.  Operators whose    *)
(* name ends in _Faulty are wrong on purpose: the mutation tests put them  *)
(* in the place of the operator they precede.                              *)
(***************************************************************************)
EXTENDS Integers, FiniteSets

CONSTANTS Roster, Player,
          Order,        \* Order[i]: the roster at draft position i
          Rounds,
          Snake,        \* whether even rounds run backwards
          Managed,      \* rosters with a user
          Tradable,     \* pick numbers whose assets are traded in the instance
          Overnight,    \* whether the draft has an overnight pause window
          Nobody

Teams == Cardinality(Roster)
Total == Teams * Rounds
Pick == 1..Total

ASSUME OrderAssumption ==
  /\ IsFiniteSet(Roster) /\ Roster # {} /\ Rounds \in Nat \ {0} /\ Snake \in BOOLEAN
  /\ Order \in [1..Teams -> Roster]
  /\ \A i, j \in 1..Teams : Order[i] = Order[j] => i = j
ASSUME PoolAssumption == IsFiniteSet(Player) /\ Cardinality(Player) >= Total
ASSUME MembersAssumption ==
  Managed \subseteq Roster /\ Tradable \subseteq Pick /\ Overnight \in BOOLEAN
ASSUME NobodyAssumption == Nobody \notin Roster

VARIABLES
  status,      \* drafts.status
  current,     \* drafts.current_pick, 0 for NULL
  onClock,     \* drafts.current_roster_id
  deadline,    \* drafts.pick_deadline: "none", "ahead" or "passed"
  board,       \* draft_picks: what was picked at each number
  autodraft,   \* rosters with is_autodraft_enabled
  owner,       \* current owner of the asset of each pick
  populated,   \* roster_population_status is no longer NULL
  rostered,    \* the <<roster, player>> rows the completion has written
  night,       \* inside the overnight pause window
  starting,    \* the first pickers that start requests in flight have computed
  deal         \* asset and receiver of a trade that has passed its checks

vars == <<status, current, onClock, deadline, board, autodraft, owner,
          populated, rostered, night, starting, deal>>

Entry == [roster : Roster, player : Player, auto : BOOLEAN]
NoDeal == [pick |-> 0, to |-> Nobody]

TypeOK ==
  /\ status \in {"not_started", "in_progress", "paused", "completed"}
  /\ current \in 0..Total
  /\ onClock \in Roster \cup {Nobody}
  /\ deadline \in {"none", "ahead", "passed"}
  /\ DOMAIN board \subseteq Pick /\ \A k \in DOMAIN board : board[k] \in Entry
  /\ autodraft \subseteq Roster
  /\ owner \in [Pick -> Roster]
  /\ populated \in BOOLEAN /\ rostered \subseteq Roster \X Player
  /\ night \in BOOLEAN
  /\ starting \subseteq Roster
  /\ deal = NoDeal \/ deal \in [pick : Tradable, to : Roster]

-----------------------------------------------------------------------------
(* The order of the picks                                                  *)

\* getRound and getPickInRound
Round(k) == ((k - 1) \div Teams) + 1
PickInRound(k) == ((k - 1) % Teams) + 1

\* getPickerForPickNumber of the two engines
Slot(k) ==
  Order[IF Snake /\ Round(k) % 2 = 0 THEN Teams - PickInRound(k) + 1 ELSE PickInRound(k)]

Drafted == {board[k].player : k \in DOMAIN board}

Init ==
  /\ status = "not_started"
  /\ current = 1 /\ onClock = Nobody /\ deadline = "none"
  /\ board = [k \in {} |-> {}]
  /\ autodraft = {}
  /\ owner = [k \in Pick |-> Slot(k)]
  /\ populated = FALSE /\ rostered = {}
  /\ night = FALSE /\ starting = {} /\ deal = NoDeal

-----------------------------------------------------------------------------
(* What the operations share                                               *)

\* populateRostersFromDraft.
Filled(picks) == {<<picks[k].roster, picks[k].player>> : k \in DOMAIN picks}

\* finalizeDraftCompletion: the rosters are filled from the board, but only
\* while roster_population_status is NULL.
Finalize(picks) ==
  /\ populated' = TRUE
  /\ rostered' = IF populated THEN rostered ELSE Filled(picks)

\* computeNextPickState: the turn of the next pick's owner, or the end.
Advance(picks) ==
  IF current = Total
  THEN /\ status' = "completed"
       /\ current' = 0 /\ onClock' = Nobody /\ deadline' = "none"
       /\ Finalize(picks)
  ELSE /\ current' = current + 1
       /\ onClock' = owner[current + 1]
       /\ deadline' = "ahead"
       /\ UNCHANGED <<status, populated, rostered>>

\* The draft is closed where it stands; current_pick is kept.
Close ==
  /\ status' = "completed" /\ onClock' = Nobody /\ deadline' = "none"
  /\ Finalize(board)
  /\ UNCHANGED current

\* makePickAndAdvanceTxWithClient: the roster on the clock takes a player
\* who is still on the market.
Insert(e) ==
  /\ e.roster = onClock /\ current \notin DOMAIN board
  /\ e.player \notin Drafted
  /\ board' = [j \in DOMAIN board \cup {current} |-> IF j = current THEN e ELSE board[j]]
  /\ Advance(board')

-----------------------------------------------------------------------------
(* Picks                                                                   *)

\* Whether the owner r of the pick may act for himself.
MayPick(r) == status = "in_progress" /\ ~night /\ owner[current] = r

\* A manager picks; the owner of the pick and the roster on the clock must
\* be the same.
MakePick(r, p) ==
  /\ r \in Managed /\ MayPick(r)
  /\ Insert([roster |-> r, player |-> p, auto |-> FALSE])
  /\ UNCHANGED <<autodraft, owner, night, starting, deal>>

\* A request for an earlier pick is repeated, past the middleware, which has
\* no answer to replay when the process died before it stored one.  In the
\* turn of the same roster its idempotency key is found and no pick written,
\* but makePick goes on to finalise when the pick at hand would be the last.
RepeatPick(r) ==
  /\ r \in Managed /\ MayPick(r)
  /\ \E k \in DOMAIN board : board[k].roster = r /\ ~board[k].auto
  /\ current = Total /\ Finalize(board)
  /\ UNCHANGED <<status, current, onClock, deadline, board, autodraft, owner, night,
                 starting, deal>>

\* findExpiredDrafts: the time is up, autodraft is on, or there is no user.
Due == deadline = "passed" \/ onClock \in autodraft \/ onClock \notin Managed

\* The job picks only for rosters that own the pick.
Tick_Faulty(p) ==
  /\ status = "in_progress" /\ ~night /\ Due
  /\ onClock = owner[current]
  /\ Insert([roster |-> onClock, player |-> p, auto |-> TRUE])
  /\ autodraft' = autodraft \cup {onClock}
  /\ UNCHANGED <<owner, night, starting, deal>>

\* tick: the autopick job picks for the roster on the clock when it is due and
\* turns its autodraft on; a pick found in its place is not made again.
Tick(p) ==
  /\ status = "in_progress" /\ ~night /\ Due
  /\ IF current \in DOMAIN board
     THEN /\ IF current = Total THEN Close ELSE Advance(board)
          /\ UNCHANGED <<board, autodraft>>
     ELSE /\ Insert([roster |-> onClock, player |-> p, auto |-> TRUE])
          /\ autodraft' = autodraft \cup {onClock}
  /\ UNCHANGED <<owner, night, starting, deal>>

\* The commissioner's forceAutopick has no action: applyAutoPick reads a table
\* draft_queues that no migration creates, and so always rolls back.

\* undoPick removes the pick but does not give the turn back.
Undo_Faulty ==
  /\ status # "not_started"
  /\ \E last \in DOMAIN board :
       /\ \A k \in DOMAIN board : k <= last
       /\ board' = [k \in DOMAIN board \ {last} |-> board[k]]
  /\ current' = IF status = "completed" THEN Total ELSE current
  /\ onClock' = owner[current']
  /\ deadline' = IF status = "paused" THEN "none" ELSE "ahead"
  /\ status' = IF status = "completed" THEN "in_progress" ELSE status
  /\ UNCHANGED <<autodraft, owner, populated, rostered, night, starting, deal>>

\* undoPick deletes the pick with the highest number and gives its turn back
\* to the owner, taking the draft's final pick for the last of a completed one.
Undo ==
  /\ status # "not_started"
  /\ \E last \in DOMAIN board :
       /\ \A k \in DOMAIN board : k <= last
       /\ board' = [k \in DOMAIN board \ {last} |-> board[k]]
  /\ current' = IF status = "completed" THEN Total ELSE current - 1
  /\ onClock' = owner[current']
  /\ deadline' = IF status = "paused" THEN "none" ELSE "ahead"
  /\ status' = IF status = "completed" THEN "in_progress" ELSE status
  /\ UNCHANGED <<autodraft, owner, populated, rostered, night, starting, deal>>

-----------------------------------------------------------------------------
(* The commissioner                                                        *)

\* startDraft before its lock: the first picker is computed.
AskStart ==
  /\ status = "not_started"
  /\ starting' = starting \cup {owner[1]}
  /\ UNCHANGED <<status, current, onClock, deadline, board, autodraft, owner, populated,
                 rostered, night, deal>>

\* A start request does not look at the status again.
Start_Faulty(r) ==
  /\ r \in starting
  /\ status' = "in_progress"
  /\ current' = 1 /\ onClock' = r /\ deadline' = "ahead"
  /\ UNCHANGED <<starting, board, autodraft, owner, populated, rostered, night, deal>>

\* startDraft under the lock, if the draft has still not started.  The
\* request stays in the set: there may be another with the same picker.
Start(r) ==
  /\ r \in starting /\ status = "not_started"
  /\ status' = "in_progress"
  /\ current' = 1 /\ onClock' = r /\ deadline' = "ahead"
  /\ UNCHANGED <<starting, board, autodraft, owner, populated, rostered, night, deal>>

\* The pick deadline survives the pause.
Pause_Faulty ==
  /\ status = "in_progress"
  /\ status' = "paused"
  /\ UNCHANGED <<deadline, current, onClock, board, autodraft, owner, populated,
                 rostered, night, starting, deal>>

Pause ==
  /\ status = "in_progress"
  /\ status' = "paused" /\ deadline' = "none"
  /\ UNCHANGED <<current, onClock, board, autodraft, owner, populated, rostered, night,
                 starting, deal>>

\* The time that remained when pauseDraft read the draft may be none.
Resume ==
  /\ status = "paused"
  /\ status' = "in_progress" /\ deadline' \in {"ahead", "passed"}
  /\ UNCHANGED <<current, onClock, board, autodraft, owner, populated, rostered, night,
                 starting, deal>>

\* completeDraft, whatever is missing from the board.
Complete ==
  /\ status \in {"in_progress", "paused"}
  /\ Close
  /\ UNCHANGED <<board, autodraft, owner, night, starting, deal>>

-----------------------------------------------------------------------------
(* Managers, trades and time                                               *)

ToggleAutodraft(r) ==
  /\ r \in Managed
  /\ autodraft' = IF r \in autodraft THEN autodraft \ {r} ELSE autodraft \cup {r}
  /\ UNCHANGED <<status, current, onClock, deadline, board, owner, populated, rostered,
                 night, starting, deal>>

\* isRoundPassed; isPickUsed finds nothing, since draft_picks rows of player
\* picks carry no asset.
RoundPassed(k) ==
  status = "completed" \/ (status = "in_progress" /\ Round(current) > Round(k))

\* A trade of a pick asset passes the checks of acceptTrade...
AgreeTrade(k, r) ==
  /\ deal = NoDeal /\ owner[k] # r /\ ~RoundPassed(k)
  /\ deal' = [pick |-> k, to |-> r]
  /\ UNCHANGED <<status, current, onClock, deadline, board, autodraft, owner, populated,
                 rostered, night, starting>>

\* ... and transferOwnership commits later; the draft row is not touched.
TransferPick ==
  /\ deal # NoDeal
  /\ owner' = [owner EXCEPT ![deal.pick] = deal.to]
  /\ deal' = NoDeal
  /\ UNCHANGED <<status, current, onClock, deadline, board, autodraft, populated,
                 rostered, night, starting>>

\* A trade that throws after its checks.
AbandonTrade ==
  /\ deal # NoDeal
  /\ deal' = NoDeal
  /\ UNCHANGED <<status, current, onClock, deadline, board, autodraft, owner, populated,
                 rostered, night, starting>>

Expire ==
  /\ deadline = "ahead"
  /\ deadline' = "passed"
  /\ UNCHANGED <<status, current, onClock, board, autodraft, owner, populated, rostered,
                 night, starting, deal>>

Dusk ==
  /\ Overnight /\ ~night /\ night' = TRUE
  /\ UNCHANGED <<status, current, onClock, deadline, board, autodraft, owner, populated,
                 rostered, starting, deal>>

Dawn ==
  /\ night /\ night' = FALSE
  /\ UNCHANGED <<status, current, onClock, deadline, board, autodraft, owner, populated,
                 rostered, starting, deal>>

Next ==
  \/ \E p \in Player : Tick(p) \/ \E r \in Roster : MakePick(r, p)
  \/ \E r \in Roster : RepeatPick(r) \/ ToggleAutodraft(r) \/ Start(r)
  \/ Undo \/ AskStart \/ Pause \/ Resume \/ Complete
  \/ \E k \in Tradable, r \in Roster : AgreeTrade(k, r)
  \/ TransferPick \/ AbandonTrade
  \/ Expire \/ Dusk \/ Dawn

Spec == Init /\ [][Next]_vars

\* Deadlines pass, every night ends, and the job ticks every few seconds of
\* every day.
FairSpec ==
  Spec /\ WF_vars(Expire) /\ WF_vars(Dawn) /\ SF_vars(\E p \in Player : Tick(p))

-----------------------------------------------------------------------------
(* Properties                                                              *)

\* The picks made stay behind the counter, so that the number on the clock
\* is always free, and until a first completion they fill the numbers
\* before it without a hole: undo, pauses and autopicks keep step.
CounterMatchesBoard ==
  status \in {"in_progress", "paused"} =>
    /\ \A k \in DOMAIN board : k < current
    /\ ~populated => DOMAIN board = 1..(current - 1)

\* A deadline stands exactly while the draft is in progress, and a roster is
\* on the clock from the start to the end, through pauses and undone picks:
\* the job neither picks in a paused draft nor fails to see a running one.
ClockRuns ==
  /\ status = "in_progress" <=> deadline # "none"
  /\ status \in {"in_progress", "paused"} => onClock # Nobody

Contract == INSTANCE DraftBoard WITH phase <- status

\* Whatever interleaves, the members see a draft as DraftBoard describes it.
KeepsBoard == Contract!Spec

\* No turn of a running draft lasts for ever, not even when the pick on the
\* clock has been traded and neither its old nor its new owner can pick.
TurnEnds ==
  \A k \in Pick :
    status = "in_progress" /\ current = k ~> ~(status = "in_progress" /\ current = k)

\* When a draft is completed every pick of its board is on a roster.
CompletedDraftIsOnRosters ==
  status = "completed" =>
    \A k \in DOMAIN board : <<board[k].roster, board[k].player>> \in rostered
=============================================================================
