------------------------------- MODULE Derby -------------------------------
(* The derby of a draft (modules/drafts/derby): the teams choose their draft *)
(* slots in turns.  A derby is the part of drafts.draft_state that           *)
(* derby.service.ts reads and writes as a whole:                             *)
(*   turn    the turn order, a sequence of rosters                           *)
(*   idx     the current position in it (1-based)                            *)
(*   picker  currentPickerRosterId, stored beside idx                        *)
(*   slots   claimedSlots: which roster has claimed which slot               *)
(* Deadlines are left out: a timeout may come whenever a picker is waited    *)
(* for.                                                                      *)
EXTENDS Integers, Sequences, FiniteSets

\* Nobody has claimed the slot.
Free == 0

\* Every order of the elements of a set.
Orders(S) == {s \in [1..Cardinality(S) -> S] : \A i, j \in DOMAIN s : i # j => s[i] # s[j]}

NewDerby(order) ==
    [turn |-> order, idx |-> 1, picker |-> order[1],
     slots |-> [s \in DOMAIN order |-> Free]]

HasSlot(derby, r) == \E s \in DOMAIN derby.slots : derby.slots[s] = r
Available(derby) == {s \in DOMAIN derby.slots : derby.slots[s] = Free}

\* The place i turns after the current one, round the table.
After(derby, i) == ((derby.idx - 1 + i) % Len(derby.turn)) + 1

\* How many turns away the others who have no slot yet are.
Waits(derby) ==
    {i \in 1..(Len(derby.turn) - 1) : ~HasSlot(derby, derby.turn[After(derby, i)])}

Nearest(S) == CHOOSE i \in S : \A j \in S : i <= j

\* Both callers checked that the slot is free; the claim goes to the picker.
Claim(derby, s) == [derby EXCEPT !.slots[s] = derby.picker]

\* advanceToNextPicker: the next one in the turn order without a slot.
AdvanceToNextPicker(derby) ==
    LET next == After(derby, Nearest(Waits(derby)))
    IN  [derby EXCEPT !.idx = next, !.picker = derby.turn[next]]

\* For the mutant: the places change, the stored picker does not.
PushBackOne_Faulty(derby) ==
    IF Waits(derby) = {}
    THEN derby
    ELSE LET next == After(derby, Nearest(Waits(derby)))
         IN  [derby EXCEPT !.turn[derby.idx] = derby.turn[next],
                           !.turn[next] = derby.turn[derby.idx]]

\* PUSH_BACK_ONE: the picker changes places with the next one without a slot,
\* who is now the one to pick at the same place.
PushBackOne(derby) ==
    IF Waits(derby) = {}
    THEN derby
    ELSE LET next == After(derby, Nearest(Waits(derby)))
         IN  [derby EXCEPT !.turn[derby.idx] = derby.turn[next],
                           !.turn[next] = derby.turn[derby.idx],
                           !.picker = derby.turn[next]]

\* PUSH_TO_END: the picker goes to the end of the whole order, and the first
\* one of the new order without a slot is next.
MovedToEnd(derby) ==
    LET at == CHOOSE i \in DOMAIN derby.turn : derby.turn[i] = derby.picker
        n == Len(derby.turn)
    IN  [i \in 1..n |-> IF i < at THEN derby.turn[i]
                        ELSE IF i < n THEN derby.turn[i + 1] ELSE derby.picker]

\* For the mutant: handled as PUSH_BACK_ONE.
PushToEnd_Faulty(derby) == PushBackOne(derby)

PushToEnd(derby) ==
    LET turn == MovedToEnd(derby)
        first == Nearest({i \in DOMAIN turn : ~HasSlot(derby, turn[i])})
    IN  [derby EXCEPT !.turn = turn, !.idx = first, !.picker = turn[first]]

=============================================================================
