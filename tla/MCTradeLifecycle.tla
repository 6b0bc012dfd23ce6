-------------------------- MODULE MCTradeLifecycle --------------------------
(* Instance of TradeLifecycle for TLC: a1 trades p1 for p2 between r1 and   *)
(* r2 and b1 gives the same p1 away without return; c1 is still to be       *)
(* proposed.  Waiver claims and drops reach the players of both trades.     *)
EXTENDS TradeLifecycle, TLC

CONSTANTS a1, b1, c1, r1, r2, p1, p2

Give(p, from, to) == [player |-> p, from |-> from, to |-> to]

MCItems == a1 :> {Give(p1, r1, r2), Give(p2, r2, r1)} @@ b1 :> {Give(p1, r1, r2)}
             @@ c1 :> {Give(p2, r2, r1)}
MCInitStatus == a1 :> "pending" @@ b1 :> "pending" @@ c1 :> "none"
MCInitOwner == p1 :> r1 @@ p2 :> r2

MCRequests ==
  [kind : {"reject", "cancel", "adminCancel"}, trade : {a1}]
    \cup [kind : {"review"}, trade : {a1, b1}]
    \cup [kind : {"accept"}, trade : {a1}, reviewed : BOOLEAN]
    \cup [kind : {"accept"}, trade : {b1}, reviewed : {TRUE}]
    \cup [kind : {"vote"}, trade : {a1}, voter : Voter, ballot : {"approve", "veto"}]
    \cup [kind : {"propose"}, trade : {c1}]
    \cup [kind : {"counter"}, trade : {a1}, new : {c1}]
    \cup [kind : {"drop"}, roster : {r1}, drop : {p1}]
    \cup [kind : {"waiver"}, roster : {r1}, add : {p1}, drop : {Nobody}]
    \cup [kind : {"waiver"}, roster : {r2}, add : {p1}, drop : {p2}]

=============================================================================
