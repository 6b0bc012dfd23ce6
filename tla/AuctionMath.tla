---------------------------- MODULE AuctionMath -----------------------------
(***************************************************************************)
(* The arithmetic of an auction draft: what a roster may bid, what the     *)
(* leader of a lot pays and how long a lot stays open.  A budget is a      *)
(* record of what a roster has spent, how many lots it won and what it     *)
(* has bid on the lots it leads; a proxy bid is a record of a roster and   *)
(* the most it would pay.                                                  *)
(***************************************************************************)
EXTENDS Integers, Sequences, Columns

CONSTANTS Total,         \* league_settings.auctionBudget
          Slots,         \* league_settings.rosterSlots
          MinBid, Increment

ASSUME MoneyAssumption == Total \in Nat /\ Slots \in Nat /\ MinBid \in Nat /\ Increment \in Nat

Larger(a, b) == IF a >= b THEN a ELSE b
Smaller(a, b) == IF a <= b THEN a ELSE b

Money == [spent : Int, won : Nat, leading : Int]

\* What stays set aside for a minimum bid on every other open slot.
Reserve(m) == Larger(0, Slots - m.won - 1) * MinBid

\* calculateMaxAffordableBid: the commitment of a roster that leads the lot
\* can be used again.
MaxAffordable(m, bid, leads) ==
  Total - m.spent - Reserve(m) - m.leading + (IF leads THEN bid ELSE 0)

CanAffordMinBid(m) == MinBid <= MaxAffordable(m, 0, FALSE)

\* assessNominatorEligibility.
MayNominate(m) == m.won < Slots /\ CanAffordMinBid(m)

\* calculateFallbackMaxBid: twice an even spread, at most what is legal.
FallbackMax(m) ==
  LET left == Total - m.spent - m.leading
      open == Slots - m.won
  IN IF open <= 0 \/ left <= 0 THEN MinBid
     ELSE Larger(MinBid, Smaller(left - Larger(0, open - 1) * MinBid, (left \div open) * 2))

\* computeAvailableBudget: what members are shown as left.
Available(m) == Larger(0, Total - m.spent - Reserve(m) - m.leading)

-----------------------------------------------------------------------------
\* ORDER BY max_bid DESC, created_at ASC: proxies are listed in the order
\* they were created, and a changed bid keeps its place.
Beats(proxies, i, j) ==
  proxies[i].max > proxies[j].max \/ (proxies[i].max = proxies[j].max /\ i < j)

Ranking(proxies) ==
  CHOOSE f \in [DOMAIN proxies -> DOMAIN proxies] :
    \A i, j \in DOMAIN proxies : i < j => Beats(proxies, f[i], f[j])

Ranked(proxies) == [i \in DOMAIN proxies |-> proxies[Ranking(proxies)[i]]]

\* The price a leader pays over the best of the others.
SecondPrice(first, second) == Smaller(first.max, second.max + Increment)

\* resolveSecondPrice: the highest bid leads and the price never falls.
LeadingPrice(ranked, bid) ==
  Larger(bid, IF Len(ranked) = 1 THEN MinBid ELSE SecondPrice(ranked[1], ranked[2]))

\* The settlement's price for the i-th bidder, with the lot's current bid as
\* its floor.
SettlePrice(ranked, i, bid) ==
  Larger(bid, IF i = Len(ranked) THEN MinBid ELSE SecondPrice(ranked[i], ranked[i + 1]))

\* A settlement takes a bidder with an open slot who keeps its reserve.
CanSettle(m, price) ==
  m.won < Slots /\ m.spent + price + (Slots - m.won - 1) * MinBid <= Total

\* computeExtendedDeadline, in ticks from now; a lot of this age may stay
\* open for longest ticks from its creation.
Extended(left, age, reset, longest) == Larger(left, Smaller(reset, longest - age))
=============================================================================
