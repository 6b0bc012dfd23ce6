---------------------------- MODULE TradeContract ----------------------------
(***************************************************************************)
(* What a league may rely on about a trade, whatever requests, jobs and    *)
(* waiver runs interleave: it is proposed once, it stays open until it is  *)
(* either executed or dead, it is executed at most once and only by one    *)
(* step that hands every item from its giver to its receiver, and nothing  *)
(* revives it.                                                             *)
(***************************************************************************)
CONSTANTS Trade, Player,
          Items        \* Items[t]: records [player, from, to]

VARIABLES phase,       \* "absent", "open", "executed" or "dead"
          owner        \* who has each player

Init == phase \in [Trade -> {"absent", "open"}]

Propose(t) ==
  /\ phase[t] = "absent"
  /\ phase' = [phase EXCEPT ![t] = "open"]
  /\ owner' = owner

\* All items change hands and the trade is executed, in one step.
Execute(t) ==
  /\ phase[t] = "open"
  /\ phase' = [phase EXCEPT ![t] = "executed"]
  /\ \A i \in Items[t] : owner[i.player] = i.from
  /\ owner' = [p \in Player |->
                 IF \E i \in Items[t] : i.player = p
                 THEN (CHOOSE i \in Items[t] : i.player = p).to
                 ELSE owner[p]]

\* Rosters change for other reasons, and open trades die.
Outside ==
  /\ \A t \in Trade : phase'[t] = phase[t] \/ (phase[t] = "open" /\ phase'[t] = "dead")
  /\ phase' = [t \in Trade |-> phase'[t]]
  /\ owner' = [p \in Player |-> owner'[p]]

Next == Outside \/ \E t \in Trade : Propose(t) \/ Execute(t)

Spec == Init /\ [][Next]_<<phase, owner>>
=============================================================================
