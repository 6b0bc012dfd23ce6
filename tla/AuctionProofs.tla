--------------------------- MODULE AuctionProofs ----------------------------
(***************************************************************************)
(* What the auction guarantees for every budget, roster size, number of    *)
(* lots and interleaving of bids and settlements: the arithmetic first,    *)
(* then what a roster has spent and what the winner of a fast auction      *)
(* pays.                                                                   *)
(***************************************************************************)
EXTENDS Auction, Integers, WellFoundedInduction, FiniteSetTheorems, SequenceTheorems, TLAPS

\* A row of auction_proxy_bids.
Proxy == [roster : Roster, max : Nat]

\* The second price is a number, and never above the first bid.
LEMMA SecondPriceBound ==
  ASSUME NEW first \in Proxy, NEW second \in Proxy
  PROVE  SecondPrice(first, second) \in Nat /\ SecondPrice(first, second) <= first.max
BY MoneyAssumption DEF SecondPrice, Smaller, Proxy

\* resolveSecondPrice charges the leader at most its maximum, as long as the
\* bid that stands and the minimum bid are within it: the first holds in a
\* fast auction, where nobody may go below the standing bid.
THEOREM PriceWithinMaximum ==
  ASSUME NEW ranked \in Seq(Proxy), Len(ranked) >= 1, NEW bid \in Nat,
         bid <= ranked[1].max, MinBid <= ranked[1].max
  PROVE  LeadingPrice(ranked, bid) <= ranked[1].max
<1>. DEFINE n == Len(ranked)
            best == ranked[1]
<1>0. n \in Nat /\ n >= 1 OBVIOUS
<1>1. best \in Proxy BY <1>0
<1>2. CASE n = 1
  BY <1>1, <1>2, MoneyAssumption DEF LeadingPrice, Larger, Proxy
<1>3. CASE n # 1
  <2>1. SecondPrice(ranked[1], ranked[2]) \in Nat /\ SecondPrice(ranked[1], ranked[2]) <= best.max
    <3>1. 2 \in 1 .. n
      <4>. HIDE DEF n
      <4>. QED BY <1>0, <1>3
    <3>2. ranked[2] \in Proxy BY <3>1
    <3>. QED BY <1>1, <3>2, SecondPriceBound
  <2>. QED BY <1>1, <1>3, <2>1 DEF LeadingPrice, Larger, Proxy
<1>. QED BY <1>2, <1>3

\* resolveSecondPrice and the settlement never charge less than the bid that
\* stands.
THEOREM PriceNeverFalls ==
  ASSUME NEW ranked \in Seq(Proxy), Len(ranked) >= 1, NEW bid \in Nat,
         NEW i \in 1 .. Len(ranked)
  PROVE  /\ LeadingPrice(ranked, bid) \in Nat /\ LeadingPrice(ranked, bid) >= bid
         /\ SettlePrice(ranked, i, bid) \in Nat /\ SettlePrice(ranked, i, bid) >= bid
<1>. DEFINE price(j) == IF j = Len(ranked) THEN MinBid ELSE SecondPrice(ranked[j], ranked[j + 1])
<1>1. Len(ranked) \in Nat OBVIOUS
<1>2. ASSUME NEW j \in 1 .. Len(ranked) PROVE price(j) \in Int
  <2>1. CASE j = Len(ranked) BY <2>1, MoneyAssumption DEF price
  <2>2. CASE j # Len(ranked)
    <3>1. j + 1 \in 1 .. Len(ranked) BY <1>1, <2>2
    <3>2. ranked[j] \in Proxy /\ ranked[j + 1] \in Proxy BY <3>1
    <3>3. SecondPrice(ranked[j], ranked[j + 1]) \in Nat
      BY <3>2, SecondPriceBound
    <3>. QED BY <2>2, <3>3 DEF price
  <2>. QED BY <2>1, <2>2
<1>3. LeadingPrice(ranked, bid) = Larger(bid, price(1))
  BY <1>1 DEF LeadingPrice, price
<1>4. SettlePrice(ranked, i, bid) = Larger(bid, price(i))
  BY <1>1 DEF SettlePrice, price
<1>5. 1 \in 1 .. Len(ranked) BY <1>1
<1>. HIDE DEF price
<1>. QED BY <1>2, <1>3, <1>4, <1>5 DEF Larger

\* A bid that setMaxBid accepts leaves, with all the lots the roster leads,
\* a minimum bid for every other open slot.
THEOREM AcceptedBidKeepsReserve ==
  ASSUME NEW m \in Money, NEW bid \in Nat, NEW max \in Nat, NEW leads \in BOOLEAN,
         max <= MaxAffordable(m, bid, leads)
  PROVE  m.spent + (m.leading - (IF leads THEN bid ELSE 0)) + max + Reserve(m) <= Total
<1>1. Reserve(m) \in Int
  <2>1. Larger(0, Slots - m.won - 1) \in Int BY MoneyAssumption DEF Larger, Money
  <2>. QED BY <2>1, MoneyAssumption DEF Reserve
<1>. QED BY <1>1, MoneyAssumption DEF MaxAffordable, Money

\* A settlement that CanSettle lets through keeps the roster within its
\* slots and leaves a minimum bid for each slot still open.
THEOREM SettlementKeepsReserve ==
  ASSUME NEW m \in Money, NEW price \in Nat, CanSettle(m, price)
  PROVE  /\ m.won + 1 <= Slots
         /\ (m.spent + price) + (Slots - (m.won + 1)) * MinBid <= Total
<1>1. Slots - (m.won + 1) = Slots - m.won - 1 BY MoneyAssumption DEF Money
<1>. QED BY <1>1, MoneyAssumption DEF CanSettle, Money

\* The budget members are shown is what they could bid on a lot they do not
\* lead, although the two are computed by different functions.
THEOREM ShownIsAffordable ==
  ASSUME NEW m \in Money, NEW bid \in Nat
  PROVE  Available(m) = Larger(0, MaxAffordable(m, bid, FALSE))
<1>1. Reserve(m) \in Int
  <2>1. Larger(0, Slots - m.won - 1) \in Int BY MoneyAssumption DEF Larger, Money
  <2>. QED BY <2>1, MoneyAssumption DEF Reserve
<1>. QED BY <1>1, MoneyAssumption DEF Available, MaxAffordable, Larger, Money
\* A set of naturals with a member has a least one.
LEMMA LeastNatural ==
  ASSUME NEW T \in SUBSET Nat, T # {}
  PROVE  \E x \in T : \A y \in T : x <= y
<1>. DEFINE R == {p \in Nat \X Nat : p[1] < p[2]}
<1>1. IsWellFoundedOn(R, Nat)
  BY NatLessThanWellFounded DEF OpToRel
<1>2. PICK x \in T : \A y \in T : ~(<<y, x>> \in R)
  <2>. HIDE DEF R
  <2>. QED BY <1>1, WFMin
<1>3. ASSUME NEW y \in T PROVE x <= y
  <2>1. x \in Nat /\ y \in Nat
    OBVIOUS
  <2>2. ~(y < x)
    BY <1>2, <2>1
  <2>. HIDE DEF R
  <2>. QED BY <2>1, <2>2
<1>. QED BY <1>3

\* s holds the sums of the beginnings of w.
SumsOf(s, w) ==
  /\ s \in [0 .. Len(w) -> Nat] /\ s[0] = 0
  /\ \A k \in 1 .. Len(w) : s[k] = s[k - 1] + w[k]

\* The recursion of SumOf is well defined.
LEMMA SumsExist ==
  ASSUME NEW w \in Seq(Nat)
  PROVE  \E s : SumsOf(s, w) /\ SumOf(w) = s[Len(w)]
<1>. DEFINE N == Len(w)
            Up(s, k) == /\ s \in [0 .. k -> Nat] /\ s[0] = 0
                        /\ \A n \in 1 .. k : s[n] = s[n - 1] + w[n]
            Bad == {k \in 0 .. N : ~ \E s : Up(s, k)}
<1>0. N \in Nat /\ \A k \in 1 .. N : w[k] \in Nat
  OBVIOUS
<1>1. Bad = {}
  <2>. SUFFICES ASSUME Bad # {} PROVE FALSE
    OBVIOUS
  <2>1. PICK k \in Bad : \A j \in Bad : k <= j
    <3>1. Bad \in SUBSET Nat BY <1>0
    <3>. HIDE DEF Bad
    <3>. QED BY <3>1, LeastNatural
  <2>2. k \in 0 .. N /\ ~ \E s : Up(s, k)
    OBVIOUS
  <2>3. k # 0
    <3>. SUFFICES ASSUME k = 0 PROVE Up([n \in 0 .. 0 |-> 0], k)
      BY <2>2
    <3>. QED OBVIOUS
  <2>4. k - 1 \in 0 .. N /\ k - 1 \notin Bad
    <3>1. k - 1 \in 0 .. N /\ ~(k <= k - 1)
      BY <1>0, <2>2, <2>3
    <3>. HIDE DEF Bad
    <3>. QED BY <2>1, <3>1
  <2>5. PICK s : Up(s, k - 1)
    BY <2>4
  <2>6. Up([n \in 0 .. k |-> IF n = k THEN s[k - 1] + w[k] ELSE s[n]], k)
    <3>1. k \in 1 .. N /\ k - 1 \in 0 .. k - 1
      BY <1>0, <2>2, <2>3
    <3>2. s[k - 1] + w[k] \in Nat
      BY <1>0, <2>5, <3>1
    <3>. QED BY <2>5, <3>1, <3>2
  <2>. QED BY <2>2, <2>6
<1>2. PICK s : Up(s, N)
  <2>1. N \in 0 .. N /\ N \notin Bad
    <3>. HIDE DEF Bad, N
    <3>. QED BY <1>0, <1>1
  <2>. QED BY <2>1
<1>3. s = [n \in 0 .. N |-> IF n = 0 THEN 0 ELSE s[n - 1] + w[n]]
  <2>1. \A n \in 0 .. N : s[n] = IF n = 0 THEN 0 ELSE s[n - 1] + w[n]
    BY <1>0, <1>2
  <2>2. s = [n \in 0 .. N |-> s[n]]
    BY <1>2
  <2>. QED BY <2>1, <2>2
<1>. DEFINE t == CHOOSE f : f = [n \in 0 .. N |-> IF n = 0 THEN 0 ELSE f[n - 1] + w[n]]
<1>4. t = [n \in 0 .. N |-> IF n = 0 THEN 0 ELSE t[n - 1] + w[n]]
  BY <1>3
<1>5. SumOf(w) = t[N]
  BY DEF SumOf
<1>. HIDE DEF t, N
<1>6. t[0] = 0 /\ \A n \in 1 .. N : t[n] = t[n - 1] + w[n]
  BY <1>0, <1>4
<1>. DEFINE Off == {k \in 0 .. N : t[k] # s[k]}
<1>7. Off = {}
  <2>. SUFFICES ASSUME Off # {} PROVE FALSE
    OBVIOUS
  <2>1. PICK k \in Off : \A j \in Off : k <= j
    <3>1. Off \in SUBSET Nat BY <1>0
    <3>. HIDE DEF Off
    <3>. QED BY <3>1, LeastNatural
  <2>2. k \in 0 .. N /\ t[k] # s[k]
    OBVIOUS
  <2>3. k # 0
    BY <1>2, <1>6, <2>2
  <2>4. k - 1 \in 0 .. N /\ k - 1 \notin Off
    <3>1. k - 1 \in 0 .. N /\ ~(k <= k - 1)
      BY <1>0, <2>2, <2>3
    <3>. HIDE DEF Off
    <3>. QED BY <2>1, <3>1
  <2>5. k \in 1 .. N /\ t[k - 1] = s[k - 1]
    BY <1>0, <2>2, <2>3, <2>4
  <2>6. s[k] = s[k - 1] + w[k]
    BY <1>2, <2>5
  <2>7. t[k] = t[k - 1] + w[k]
    BY <1>6, <2>5
  <2>. QED BY <2>2, <2>5, <2>6, <2>7
<1>8. SumOf(w) = s[N]
  BY <1>0, <1>5, <1>7
<1>. QED BY <1>2, <1>8 DEF SumsOf, N

\* Adding up v, with its l-th number raised by d and zeros behind it.
LEMMA SumChange ==
  ASSUME NEW v \in Seq(Nat), NEW w \in Seq(Nat), NEW l \in Nat, NEW d \in Int,
         Len(v) <= Len(w), l \in 1 .. Len(v) \/ (l = 0 /\ d = 0),
         \A k \in 1 .. Len(w) :
           w[k] = (IF k <= Len(v) THEN v[k] ELSE 0) + (IF k = l THEN d ELSE 0)
  PROVE  SumOf(w) = SumOf(v) + d /\ SumOf(v) \in Nat
<1>. DEFINE m == Len(v)
            n == Len(w)
<1>0. m \in Nat /\ n \in Nat /\ m <= n
  OBVIOUS
<1>1. PICK s : SumsOf(s, v) /\ SumOf(v) = s[m]
  BY SumsExist
<1>2. PICK t : SumsOf(t, w) /\ SumOf(w) = t[n]
  BY SumsExist
<1>. DEFINE base(k) == IF k <= m THEN s[k] ELSE s[m]
            more(k) == IF l # 0 /\ l <= k THEN d ELSE 0
            Off == {k \in 0 .. n : t[k] # base(k) + more(k)}
<1>3. Off = {}
  <2>. SUFFICES ASSUME Off # {} PROVE FALSE
    OBVIOUS
  <2>1. PICK k \in Off : \A j \in Off : k <= j
    <3>1. Off \in SUBSET Nat BY <1>0
    <3>. HIDE DEF Off
    <3>. QED BY <3>1, LeastNatural
  <2>2. k \in 0 .. n /\ t[k] # base(k) + more(k)
    OBVIOUS
  <2>3. k # 0
    <3>. SUFFICES ASSUME k = 0 PROVE t[k] = base(k) + more(k)
      BY <2>2
    <3>1. t[0] = 0 /\ s[0] = 0
      BY <1>1, <1>2 DEF SumsOf
    <3>. QED BY <1>0, <3>1
  <2>4. k - 1 \in 0 .. n /\ k - 1 \notin Off
    <3>1. k - 1 \in 0 .. n /\ ~(k <= k - 1)
      BY <1>0, <2>2, <2>3
    <3>. HIDE DEF Off
    <3>. QED BY <2>1, <3>1
  <2>5. t[k - 1] = base(k - 1) + more(k - 1)
    BY <2>4
  <2>6. k \in 1 .. n /\ t[k] = t[k - 1] + w[k]
    BY <1>0, <1>2, <2>2, <2>3 DEF SumsOf
  <2>7. w[k] = (IF k <= m THEN v[k] ELSE 0) + (IF k = l THEN d ELSE 0)
    BY <2>6
  <2>8. base(k) = base(k - 1) + (IF k <= m THEN v[k] ELSE 0)
    <3>1. CASE k <= m
      <4>1. k \in 1 .. m /\ s[k] = s[k - 1] + v[k]
        BY <1>0, <1>1, <2>6, <3>1 DEF SumsOf
      <4>. QED BY <1>0, <3>1, <4>1
    <3>2. CASE ~(k <= m)
      <4>1. s[m] \in Nat
        BY <1>0, <1>1 DEF SumsOf
      <4>2. base(k) = s[m] /\ base(k - 1) = s[m]
        BY <1>0, <2>6, <3>2
      <4>. QED BY <3>2, <4>1, <4>2
    <3>. QED BY <3>1, <3>2
  <2>9. more(k) = more(k - 1) + (IF k = l THEN d ELSE 0)
    BY <2>6
  <2>10. base(k - 1) \in Nat
    <3>1. s \in [0 .. m -> Nat]
      BY <1>1 DEF SumsOf
    <3>. DEFINE j == IF k - 1 <= m THEN k - 1 ELSE m
    <3>2. j \in 0 .. m /\ base(k - 1) = s[j]
      <4>. HIDE DEF m, n
      <4>. QED BY <1>0, <2>6
    <3>. HIDE DEF j, m, base
    <3>. QED BY <3>1, <3>2
  <2>11. (IF k <= m THEN v[k] ELSE 0) \in Nat
    BY <1>0, <2>6
  <2>12. more(k - 1) \in Int /\ (IF k = l THEN d ELSE 0) \in Int
    OBVIOUS
  <2>. HIDE DEF base, more, Off, n, m
  <2>. QED BY <2>2, <2>5, <2>6, <2>7, <2>8, <2>9, <2>10, <2>11, <2>12
<1>4. t[n] = base(n) + more(n)
  BY <1>0, <1>3
<1>5. base(n) = s[m] /\ more(n) = d
  BY <1>0
<1>6. s[m] \in Nat
  BY <1>0, <1>1 DEF SumsOf
<1>. QED BY <1>1, <1>2, <1>4, <1>5, <1>6
-----------------------------------------------------------------------------
(* The ranking of the bids                                                 *)

\* Bids by maximum, then by age, can be put in order.
LEMMA RankingExists ==
  ASSUME NEW ps \in Seq(Proxy)
  PROVE  /\ Ranking(ps) \in [DOMAIN ps -> DOMAIN ps]
         /\ \A i, j \in DOMAIN ps : i < j => Beats(ps, Ranking(ps)[i], Ranking(ps)[j])
<1>. DEFINE n == Len(ps)
            D == 1 .. n
            Ahead(x) == {y \in D : Beats(ps, y, x)}
            rank == [x \in D |-> Cardinality(Ahead(x)) + 1]
<1>0. n \in Nat /\ DOMAIN ps = D /\ \A x \in D : ps[x].max \in Nat
  <2>1. n \in Nat /\ DOMAIN ps = D /\ \A x \in D : ps[x] \in Proxy
    BY LenProperties, ElementOfSeq
  <2>. QED BY <2>1 DEF Proxy
<1>1. /\ \A x \in D : ~Beats(ps, x, x)
      /\ \A x, y \in D : x # y => Beats(ps, x, y) \/ Beats(ps, y, x)
      /\ \A x, y, z \in D : Beats(ps, x, y) /\ Beats(ps, y, z) => Beats(ps, x, z)
  BY <1>0 DEF Beats
<1>2. IsFiniteSet(D) /\ Cardinality(D) = n
  <2>1. IsFiniteSet(1 .. n) /\ (Cardinality(1 .. n) = IF 1 > n THEN 0 ELSE n - 1 + 1)
    BY <1>0, FS_Interval
  <2>. HIDE DEF n
  <2>. QED BY <1>0, <2>1
<1>3. ASSUME NEW x \in D PROVE IsFiniteSet(Ahead(x)) /\ Cardinality(Ahead(x)) \in 0 .. n - 1
  <2>1. IsFiniteSet(D \ {x}) /\ Cardinality(D \ {x}) = n - 1
    BY <1>2, FS_RemoveElement
  <2>2. Ahead(x) \in SUBSET (D \ {x})
    BY <1>1
  <2>3. IsFiniteSet(Ahead(x)) /\ Cardinality(Ahead(x)) <= n - 1
    <3>. HIDE DEF Ahead, D, n
    <3>. QED BY <2>1, <2>2, FS_Subset
  <2>4. Cardinality(Ahead(x)) \in Nat
    <3>. HIDE DEF Ahead
    <3>. QED BY <2>3, FS_CardinalityType
  <2>. HIDE DEF Ahead, n
  <2>. QED BY <1>0, <2>3, <2>4
<1>4. ASSUME NEW x \in D, NEW y \in D, Beats(ps, x, y)
      PROVE  rank[x] < rank[y]
  <2>1. Cardinality(Ahead(x) \cup {x}) = Cardinality(Ahead(x)) + 1
    <3>1. x \notin Ahead(x)
      BY <1>1
    <3>. HIDE DEF Ahead, D
    <3>. QED BY <1>3, <3>1, FS_AddElement
  <2>2. Ahead(x) \cup {x} \in SUBSET Ahead(y)
    BY <1>1, <1>4
  <2>3. Cardinality(Ahead(x) \cup {x}) <= Cardinality(Ahead(y))
    <3>. HIDE DEF Ahead, D
    <3>. QED BY <1>3, <2>2, FS_Subset
  <2>4. rank[x] = Cardinality(Ahead(x)) + 1 /\ rank[y] = Cardinality(Ahead(y)) + 1
    OBVIOUS
  <2>5. Cardinality(Ahead(x)) \in Int /\ Cardinality(Ahead(y)) \in Int
    <3>. HIDE DEF Ahead, D, n
    <3>. QED BY <1>0, <1>3
  <2>. HIDE DEF Ahead, rank, D
  <2>. QED BY <2>1, <2>3, <2>4, <2>5
<1>5. rank \in [D -> D]
  <2>1. ASSUME NEW x \in D PROVE Cardinality(Ahead(x)) + 1 \in D
    <3>. HIDE DEF Ahead, n
    <3>. QED BY <1>0, <1>3
  <2>. QED BY <2>1
<1>6. rank \in Surjection(D, D)
  <2>1. \A x, y \in D : rank[x] = rank[y] => x = y
    <3>. SUFFICES ASSUME NEW x \in D, NEW y \in D, rank[x] = rank[y], x # y PROVE FALSE
      OBVIOUS
    <3>1. rank[x] < rank[y] \/ rank[y] < rank[x]
      BY <1>1, <1>4
    <3>2. rank[x] \in Int /\ rank[y] \in Int
      <4>. HIDE DEF rank, n
      <4>. QED BY <1>0, <1>5
    <3>. HIDE DEF rank
    <3>. QED BY <3>1, <3>2
  <2>2. rank \in Injection(D, D)
    <3>. HIDE DEF rank, D
    <3>. QED BY <1>5, <2>1 DEF Injection, IsInjective
  <2>. HIDE DEF rank, D
  <2>. QED BY <1>2, <2>2, FS_Injection
<1>. DEFINE f == [i \in D |-> CHOOSE x \in D : rank[x] = i]
<1>7. \A i \in D : f[i] \in D /\ rank[f[i]] = i
  <2>1. \A i \in D : \E x \in D : rank[x] = i
    <3>. HIDE DEF rank, D
    <3>. QED BY <1>6 DEF Surjection
  <2>. HIDE DEF rank, D
  <2>. QED BY <2>1
<1>8. ASSUME NEW i \in D, NEW j \in D, i < j PROVE Beats(ps, f[i], f[j])
  <2>1. ~(rank[f[j]] < rank[f[i]]) /\ f[i] # f[j]
    <3>1. i \in Int /\ j \in Int
      OBVIOUS
    <3>. HIDE DEF rank, f, D
    <3>. QED BY <1>7, <1>8, <3>1
  <2>. HIDE DEF rank, f, D
  <2>. QED BY <1>1, <1>4, <1>7, <2>1
<1>9. f \in [D -> D]
  <2>. HIDE DEF rank, D
  <2>. QED BY <1>7
<1>10. \E g \in [DOMAIN ps -> DOMAIN ps] :
         \A i, j \in DOMAIN ps : i < j => Beats(ps, g[i], g[j])
  <2>. HIDE DEF f, D
  <2>. QED BY <1>0, <1>8, <1>9
<1>. QED BY <1>10 DEF Ranking

\* The ranking names every bid, and the first of it is the highest.
LEMMA RankedBids ==
  ASSUME NEW ps \in Seq(Proxy)
  PROVE  /\ Ranked(ps) \in Seq(Proxy) /\ Len(Ranked(ps)) = Len(ps)
         /\ DOMAIN ps = 1 .. Len(ps) /\ Len(ps) \in Nat
         /\ \A i \in DOMAIN ps : \E k \in DOMAIN ps : Ranked(ps)[i] = ps[k]
         /\ \A k \in DOMAIN ps : ps[k].max <= Ranked(ps)[1].max
<1>. DEFINE n == Len(ps)
            f == Ranking(ps)
<1>0. n \in Nat /\ DOMAIN ps = 1 .. n /\ \A x \in 1 .. n : ps[x] \in Proxy /\ ps[x].max \in Nat
  <2>1. n \in Nat /\ DOMAIN ps = 1 .. n /\ \A x \in 1 .. n : ps[x] \in Proxy
    BY LenProperties, ElementOfSeq
  <2>. QED BY <2>1 DEF Proxy
<1>1. f \in [1 .. n -> 1 .. n] /\ \A i, j \in 1 .. n : i < j => Beats(ps, f[i], f[j])
  <2>. HIDE DEF n
  <2>. QED BY <1>0, RankingExists
<1>. HIDE DEF f
<1>2. Ranked(ps) = [i \in 1 .. n |-> ps[f[i]]]
  BY <1>0 DEF Ranked, f
<1>3. Ranked(ps) \in [1 .. n -> Proxy]
  BY <1>0, <1>1, <1>2
<1>4. Ranked(ps) \in Seq(Proxy) /\ Len(Ranked(ps)) = n
  <2>1. Ranked(ps) \in Seq(Proxy)
    <3>. HIDE DEF n
    <3>. QED BY <1>0, <1>3, SeqDef
  <2>2. Len(Ranked(ps)) \in Nat /\ 1 .. Len(Ranked(ps)) = 1 .. n
    <3>1. DOMAIN Ranked(ps) = 1 .. n
      BY <1>3
    <3>. HIDE DEF n
    <3>. QED BY <2>1, <3>1, LenProperties
  <2>. HIDE DEF n
  <2>. QED BY <1>0, <2>1, <2>2
<1>5. \A i \in 1 .. n : \E k \in 1 .. n : Ranked(ps)[i] = ps[k]
  BY <1>1, <1>2
<1>6. ASSUME NEW k \in 1 .. n PROVE ps[k].max <= Ranked(ps)[1].max
  <2>1. \A i, j \in 1 .. n : f[i] = f[j] => i = j
    <3>. SUFFICES ASSUME NEW i \in 1 .. n, NEW j \in 1 .. n, f[i] = f[j], i < j PROVE FALSE
      <4>1. \A i, j \in 1 .. n : i < j \/ j < i \/ i = j
        OBVIOUS
      <4>. QED BY <4>1
    <3>1. Beats(ps, f[i], f[i])
      BY <1>1
    <3>2. f[i] \in 1 .. n
      BY <1>1
    <3>. QED BY <1>0, <3>1, <3>2 DEF Beats
  <2>2. IsFiniteSet(1 .. n)
    <3>. HIDE DEF n
    <3>. QED BY <1>0, FS_Interval
  <2>3. f \in Surjection(1 .. n, 1 .. n)
    <3>1. f \in Injection(1 .. n, 1 .. n)
      <4>. HIDE DEF n
      <4>. QED BY <1>1, <2>1 DEF Injection, IsInjective
    <3>. HIDE DEF n
    <3>. QED BY <2>2, <3>1, FS_Injection
  <2>4. PICK i \in 1 .. n : f[i] = k
    <3>. HIDE DEF n
    <3>. QED BY <2>3 DEF Surjection
  <2>5. 1 \in 1 .. n /\ (i = 1 \/ 1 < i)
    <3>. HIDE DEF n
    <3>. QED BY <1>0, <2>4
  <2>6. f[1] \in 1 .. n /\ Ranked(ps)[1] = ps[f[1]]
    BY <1>1, <1>2, <2>5
  <2>7. f[1] = k \/ Beats(ps, f[1], k)
    BY <1>1, <2>4, <2>5
  <2>. HIDE DEF n
  <2>. QED BY <1>0, <2>6, <2>7 DEF Beats
<1>. QED BY <1>0, <1>4, <1>5, <1>6

-----------------------------------------------------------------------------
(* The invariant                                                           *)

\* What the proof needs to know of a row of auction_lots, and of the table.
LotRowInv(x) ==
  /\ {"status", "leader", "bid", "proxies"} \subseteq DOMAIN x
  /\ x.status \in {"active", "won", "passed"}
  /\ x.bid \in Nat /\ x.proxies \in Seq(Proxy)

Table(ls) ==
  /\ ls \in Seq({ls[l] : l \in DOMAIN ls})
  /\ \A l \in DOMAIN ls : LotRowInv(ls[l])

\* Budget(r), field by field.
WonBy(ls, r) == {l \in DOMAIN ls : ls[l].status = "won" /\ ls[l].leader = r}
LedBy(ls, r) == {l \in DOMAIN ls : ls[l].status = "active" /\ ls[l].leader = r}
BidsOn(ls, S) == [l \in DOMAIN ls |-> IF l \in S THEN ls[l].bid ELSE 0]
Fields(ls, r) ==
  [spent |-> SumOf(BidsOn(ls, WonBy(ls, r))), won |-> Cardinality(WonBy(ls, r)),
   leading |-> SumOf(BidsOn(ls, LedBy(ls, r)))]

\* r can pay max and keeps a minimum bid for every other open slot.
CanPay(ls, r, max) ==
  Fields(ls, r).won < Slots /\ max + Fields(ls, r).spent + Reserve(Fields(ls, r)) <= Total

\* An open lot of a fast auction: whoever bids can pay it, and the bid that
\* stands is within somebody's maximum.
FastLotInv(ls, x) ==
  /\ MinBid <= x.bid
  /\ \A i \in DOMAIN x.proxies : CanPay(ls, x.proxies[i].roster, x.proxies[i].max)
  /\ x.proxies # <<>> => \E i \in DOMAIN x.proxies : x.bid <= x.proxies[i].max

\* It is the only one, so that no budget changes before it is settled.
FastInv ==
  mode = "fast" => \A l \in Active : FastLotInv(lots, lots[l]) /\ \A k \in Active : k = l

AInv ==
  /\ Table(lots) /\ FastInv /\ SpentWithinBudget
  /\ turn \in Turn /\ mode \in {"fast", "slow"}

LEMMA BudgetFields ==
  ASSUME NEW r
  PROVE  Budget(r) = Fields(lots, r) /\ Budget(r)' = Fields(lots', r)
BY DEF Budget, Fields, WonBy, LedBy, BidsOn

LEMMA TableDomain ==
  ASSUME NEW ls, Table(ls)
  PROVE  Len(ls) \in Nat /\ DOMAIN ls = 1 .. Len(ls)
BY LenProperties DEF Table

\* A function on 1 .. n is a sequence of length n.
LEMMA FunctionIsSeq ==
  ASSUME NEW n \in Nat, NEW S, NEW f \in [1 .. n -> S]
  PROVE  f \in Seq(S) /\ Len(f) = n
<1>1. f \in Seq(S)
  BY SeqDef
<1>2. Len(f) \in Nat /\ 1 .. Len(f) = 1 .. n
  BY <1>1, LenProperties
<1>. QED BY <1>1, <1>2

LEMMA BidsAreNumbers ==
  ASSUME NEW ls, Table(ls), NEW S
  PROVE  BidsOn(ls, S) \in Seq(Nat) /\ Len(BidsOn(ls, S)) = Len(ls)
<1>. DEFINE n == Len(ls)
<1>1. n \in Nat /\ DOMAIN ls = 1 .. n
  BY TableDomain
<1>2. BidsOn(ls, S) \in [1 .. n -> Nat]
  BY <1>1 DEF BidsOn, Table, LotRowInv
<1>. HIDE DEF n
<1>3. BidsOn(ls, S) \in Seq(Nat) /\ Len(BidsOn(ls, S)) = n
  BY <1>1, <1>2, FunctionIsSeq
<1>. QED BY <1>3 DEF n

LEMMA WonFinite ==
  ASSUME NEW ls, Table(ls), NEW r
  PROVE  IsFiniteSet(WonBy(ls, r)) /\ Cardinality(WonBy(ls, r)) \in Nat
<1>1. IsFiniteSet(DOMAIN ls)
  BY TableDomain, FS_Interval
<1>2. WonBy(ls, r) \in SUBSET DOMAIN ls
  BY DEF WonBy
<1>. QED BY <1>1, <1>2, FS_Subset, FS_CardinalityType

LEMMA FieldsAreMoney ==
  ASSUME NEW ls, Table(ls), NEW r
  PROVE  /\ Fields(ls, r) \in Money
         /\ Fields(ls, r).spent \in Nat /\ Fields(ls, r).won \in Nat
         /\ Fields(ls, r).leading \in Nat
<1>1. ASSUME NEW S PROVE SumOf(BidsOn(ls, S)) \in Nat
  <2>1. PICK s : SumsOf(s, BidsOn(ls, S)) /\ SumOf(BidsOn(ls, S)) = s[Len(BidsOn(ls, S))]
    BY BidsAreNumbers, SumsExist
  <2>2. Len(BidsOn(ls, S)) \in Nat
    BY BidsAreNumbers, TableDomain
  <2>. QED BY <2>1, <2>2 DEF SumsOf
<1>. QED BY <1>1, WonFinite DEF Money, Fields

SameMoney(ls, ms, r) ==
  Fields(ms, r).won = Fields(ls, r).won /\ Fields(ms, r).spent = Fields(ls, r).spent

\* What a roster has won and spent stays as long as no lot is won.
LEMMA MoneyKept ==
  ASSUME Table(lots), Table(lots'), NEW r, DOMAIN lots \subseteq DOMAIN lots',
         \A l \in DOMAIN lots' : lots'[l].status = "won" =>
           l \in DOMAIN lots /\ lots[l].status = "won",
         \A l \in DOMAIN lots : lots[l].status = "won" =>
           /\ lots'[l].status = "won" /\ lots'[l].leader = lots[l].leader
           /\ lots'[l].bid = lots[l].bid
  PROVE  SameMoney(lots, lots', r)
<1>1. WonBy(lots', r) = WonBy(lots, r)
  BY DEF WonBy
<1>. DEFINE v == BidsOn(lots, WonBy(lots, r))
            w == BidsOn(lots', WonBy(lots', r))
<1>2. /\ v \in Seq(Nat) /\ w \in Seq(Nat) /\ Len(v) <= Len(w)
      /\ \A k \in 1 .. Len(w) : w[k] = IF k <= Len(v) THEN v[k] ELSE 0
  <2>1. /\ Len(lots) \in Nat /\ DOMAIN lots = 1 .. Len(lots)
        /\ Len(lots') \in Nat /\ DOMAIN lots' = 1 .. Len(lots')
    BY TableDomain
  <2>2. Len(lots) <= Len(lots')
    BY <2>1
  <2>3. /\ v \in Seq(Nat) /\ Len(v) = Len(lots)
        /\ w \in Seq(Nat) /\ Len(w) = Len(lots')
    BY BidsAreNumbers
  <2>4. ASSUME NEW k \in 1 .. Len(lots') PROVE w[k] = IF k <= Len(lots) THEN v[k] ELSE 0
    BY <1>1, <2>1 DEF BidsOn, WonBy
  <2>. HIDE DEF v, w
  <2>. QED BY <2>2, <2>3, <2>4
<1>3. SumOf(w) = SumOf(v)
  <2>. HIDE DEF v, w
  <2>1. \A k \in 1 .. Len(w) :
          w[k] = (IF k <= Len(v) THEN v[k] ELSE 0) + (IF k = 0 THEN 0 ELSE 0)
    <3>. SUFFICES ASSUME NEW k \in 1 .. Len(w)
                  PROVE  w[k] = (IF k <= Len(v) THEN v[k] ELSE 0) + 0
      OBVIOUS
    <3>1. w[k] = (IF k <= Len(v) THEN v[k] ELSE 0) /\ w[k] \in Nat
      BY <1>2
    <3>. QED BY <3>1
  <2>2. SumOf(w) = SumOf(v) + 0 /\ SumOf(v) \in Nat
    <3>1. 0 \in Nat /\ 0 \in Int /\ 0 = 0
      OBVIOUS
    <3>. QED BY <1>2, <2>1, <3>1, SumChange
  <2>. QED BY <2>2
<1>. QED BY <1>1, <1>3 DEF Fields, SameMoney

LEMMA SpentKept ==
  ASSUME SpentWithinBudget, \A r \in Roster : SameMoney(lots, lots', r)
  PROVE  SpentWithinBudget'
<1>. SUFFICES ASSUME NEW r \in Roster, Budget(r)'.won > 0
              PROVE  /\ Budget(r)'.won <= Slots
                     /\ Budget(r)'.spent + (Slots - Budget(r)'.won) * MinBid <= Total
  BY DEF SpentWithinBudget
<1>1. Budget(r)'.won = Budget(r).won /\ Budget(r)'.spent = Budget(r).spent
  BY BudgetFields DEF SameMoney
<1>. QED BY <1>1 DEF SpentWithinBudget

LEMMA CanPayKept ==
  ASSUME NEW ls, NEW ms, NEW r, NEW max, SameMoney(ls, ms, r), CanPay(ls, r, max)
  PROVE  CanPay(ms, r, max)
BY DEF CanPay, SameMoney, Reserve

-----------------------------------------------------------------------------
(* Steps that win no lot                                                   *)

\* No lot goes, and none is won.
NoWin ==
  /\ DOMAIN lots \subseteq DOMAIN lots'
  /\ \A l \in DOMAIN lots : lots[l].status = "active" => lots'[l].status # "won"

LEMMA FastLotKept ==
  ASSUME NEW ls, NEW ms, NEW x, NEW y, y.bid = x.bid, y.proxies = x.proxies,
         \A r : SameMoney(ls, ms, r), FastLotInv(ls, x)
  PROVE  FastLotInv(ms, y)
BY CanPayKept DEF FastLotInv

\* Steps that leave the money of every lot alone.
LEMMA QuietStep ==
  ASSUME AInv, mode' = mode, turn' \in Turn,
         lots' \in Seq({lots'[l] : l \in DOMAIN lots'}), DOMAIN lots' = DOMAIN lots,
         \A l \in DOMAIN lots :
           /\ {"status", "leader", "bid", "proxies"} \subseteq DOMAIN lots'[l]
           /\ lots'[l].status = lots[l].status /\ lots'[l].leader = lots[l].leader
           /\ lots'[l].bid = lots[l].bid /\ lots'[l].proxies = lots[l].proxies
  PROVE  AInv' /\ NoWin
<1>1. Table(lots) /\ Table(lots')
  BY DEF AInv, Table, LotRowInv
<1>2. \A r : SameMoney(lots, lots', r)
  BY <1>1, MoneyKept
<1>3. SpentWithinBudget'
  BY <1>2, SpentKept DEF AInv
<1>4. FastInv'
  <2>1. Active' = Active
    BY DEF Active
  <2>2. ASSUME mode = "fast", NEW l \in Active PROVE FastLotInv(lots', lots'[l])
    <3>1. FastLotInv(lots, lots[l]) /\ l \in DOMAIN lots
      BY <2>2 DEF AInv, FastInv, Active
    <3>. QED BY <1>2, <3>1, FastLotKept
  <2>. QED BY <2>1, <2>2 DEF AInv, FastInv
<1>5. NoWin
  BY DEF NoWin
<1>. QED BY <1>1, <1>3, <1>4, <1>5 DEF AInv

LEMMA StutterStep ==
  ASSUME AInv, mode' = mode, turn' \in Turn, lots' = lots
  PROVE  AInv' /\ NoWin
BY QuietStep DEF AInv, Table, LotRowInv

\* Steps that write nothing but deadlines and ages.
LEMMA RewriteStep ==
  ASSUME AInv, mode' = mode, turn' = turn,
         lots' = [l \in DOMAIN lots |-> lots'[l]],
         \A l \in DOMAIN lots :
           \/ lots'[l] = lots[l]
           \/ \E left : lots'[l] = [lots[l] EXCEPT !.left = left]
           \/ \E left, age : lots'[l] = [lots[l] EXCEPT !.left = left, !.age = age]
  PROVE  AInv' /\ NoWin
<1>. DEFINE n == Len(lots)
<1>1. n \in Nat /\ DOMAIN lots = 1 .. n
  BY TableDomain DEF AInv
<1>2. DOMAIN lots' = DOMAIN lots
  OBVIOUS
<1>3. lots' \in Seq({lots'[l] : l \in DOMAIN lots'})
  <2>1. lots' \in [1 .. n -> {lots'[l] : l \in DOMAIN lots'}]
    BY <1>1, <1>2
  <2>. HIDE DEF n
  <2>. QED BY <1>1, <2>1, FunctionIsSeq
<1>4. ASSUME NEW l \in DOMAIN lots
      PROVE  /\ {"status", "leader", "bid", "proxies"} \subseteq DOMAIN lots'[l]
             /\ lots'[l].status = lots[l].status /\ lots'[l].leader = lots[l].leader
             /\ lots'[l].bid = lots[l].bid /\ lots'[l].proxies = lots[l].proxies
  <2>1. {"status", "leader", "bid", "proxies"} \subseteq DOMAIN lots[l]
    BY DEF AInv, Table, LotRowInv
  <2>. QED BY <2>1
<1>. QED BY <1>2, <1>3, <1>4, QuietStep DEF AInv

\* A new lot.
LEMMA AppendStep ==
  ASSUME AInv, mode' = mode, turn' = turn, NEW x, LotRowInv(x), x.status = "active",
         lots' = Append(lots, x),
         mode = "fast" => Active = {} /\ FastLotInv(lots, x)
  PROVE  AInv' /\ NoWin
<1>. DEFINE n == Len(lots)
            S == {lots[l] : l \in DOMAIN lots} \cup {x}
<1>1. n \in Nat /\ DOMAIN lots = 1 .. n /\ Table(lots)
  BY TableDomain DEF AInv
<1>2. /\ lots' \in Seq(S) /\ Len(lots') = n + 1
      /\ \A l \in 1 .. n : lots'[l] = lots[l]
      /\ lots'[n + 1] = x
  <2>1. lots \in Seq(S) /\ x \in S
    BY <1>1 DEF Table
  <2>. HIDE DEF S
  <2>. QED BY <2>1, AppendProperties
<1>3. DOMAIN lots' = 1 .. n + 1
  BY <1>2, LenProperties
<1>4. Table(lots')
  <2>1. lots' \in [1 .. n + 1 -> {lots'[l] : l \in DOMAIN lots'}]
    <3>1. lots' \in [1 .. n + 1 -> S]
      <4>. HIDE DEF S
      <4>. QED BY <1>2, LenProperties
    <3>. QED BY <1>3, <3>1
  <2>2. lots' \in Seq({lots'[l] : l \in DOMAIN lots'})
    <3>1. n + 1 \in Nat
      BY <1>1
    <3>. HIDE DEF n
    <3>. QED BY <2>1, <3>1, FunctionIsSeq
  <2>3. \A l \in 1 .. n + 1 : l \in 1 .. n \/ l = n + 1
    BY <1>1
  <2>. HIDE DEF n, S
  <2>. QED BY <1>1, <1>2, <1>3, <2>2, <2>3 DEF Table
<1>5. n + 1 \notin 1 .. n /\ DOMAIN lots' = DOMAIN lots \cup {n + 1}
  BY <1>1, <1>3
<1>. HIDE DEF n, S
<1>6. \A r : SameMoney(lots, lots', r)
  BY <1>1, <1>2, <1>4, <1>5, MoneyKept
<1>7. SpentWithinBudget'
  BY <1>6, SpentKept DEF AInv
<1>8. FastInv'
  <2>. SUFFICES ASSUME mode = "fast"
                PROVE  \A l \in Active' : FastLotInv(lots', lots'[l]) /\ \A k \in Active' : k = l
    BY DEF FastInv
  <2>1. Active' = {n + 1}
    BY <1>1, <1>2, <1>5 DEF Active
  <2>2. FastLotInv(lots', x)
    BY <1>6, FastLotKept
  <2>. QED BY <1>2, <2>1, <2>2
<1>9. NoWin
  BY <1>1, <1>2, <1>5 DEF NoWin
<1>. QED BY <1>4, <1>7, <1>8, <1>9 DEF AInv

\* A lot that gets a bid or is passed.
LEMMA ReplaceStep ==
  ASSUME AInv, mode' = mode, turn' = turn, NEW l \in Active, NEW x, LotRowInv(x),
         x.status \in {"active", "passed"}, lots' = [lots EXCEPT ![l] = x],
         mode = "fast" /\ x.status = "active" => FastLotInv(lots, x)
  PROVE  AInv' /\ NoWin
<1>. DEFINE n == Len(lots)
<1>1. n \in Nat /\ DOMAIN lots = 1 .. n /\ Table(lots) /\ l \in DOMAIN lots
  BY TableDomain DEF AInv, Active
<1>2. /\ DOMAIN lots' = DOMAIN lots
      /\ \A k \in DOMAIN lots : lots'[k] = IF k = l THEN x ELSE lots[k]
  BY <1>1
<1>3. Table(lots')
  <2>1. lots' \in [1 .. n -> {lots'[k] : k \in DOMAIN lots'}]
    <3>1. lots' = [k \in 1 .. n |-> lots'[k]]
      BY <1>1, <1>2
    <3>. QED BY <1>1, <1>2, <3>1
  <2>2. lots' \in Seq({lots'[k] : k \in DOMAIN lots'})
    <3>. HIDE DEF n
    <3>. QED BY <1>1, <2>1, FunctionIsSeq
  <2>. QED BY <1>1, <1>2, <2>2 DEF Table
<1>4. \A r : SameMoney(lots, lots', r)
  BY <1>1, <1>2, <1>3, MoneyKept DEF Active
<1>5. SpentWithinBudget'
  BY <1>4, SpentKept DEF AInv
<1>6. FastInv'
  <2>. SUFFICES ASSUME mode = "fast"
                PROVE  \A k \in Active' : FastLotInv(lots', lots'[k]) /\ \A j \in Active' : j = k
    BY DEF FastInv
  <2>1. Active' \subseteq Active
    BY <1>1, <1>2 DEF Active
  <2>2. \A k \in Active : k = l
    BY DEF AInv, FastInv
  <2>3. ASSUME NEW k \in Active' PROVE k = l /\ FastLotInv(lots, x) /\ lots'[k] = x
    BY <1>1, <1>2, <2>1, <2>2, <2>3 DEF Active
  <2>4. ASSUME FastLotInv(lots, x) PROVE FastLotInv(lots', x)
    BY <1>4, <2>4, FastLotKept
  <2>. QED BY <2>3, <2>4
<1>7. NoWin
  BY <1>2 DEF NoWin
<1>. QED BY <1>3, <1>5, <1>6, <1>7 DEF AInv

-----------------------------------------------------------------------------
(* Nominations and bids                                                    *)

LEMMA BudgetIsMoney ==
  ASSUME AInv, NEW r
  PROVE  /\ Budget(r) = Fields(lots, r) /\ Budget(r) \in Money
         /\ Budget(r).spent \in Nat /\ Budget(r).won \in Nat /\ Budget(r).leading \in Nat
         /\ Reserve(Budget(r)) \in Nat
<1>1. /\ Budget(r) = Fields(lots, r) /\ Budget(r) \in Money
      /\ Budget(r).spent \in Nat /\ Budget(r).won \in Nat /\ Budget(r).leading \in Nat
  BY BudgetFields, FieldsAreMoney DEF AInv
<1>2. Larger(0, Slots - Budget(r).won - 1) \in Nat
  BY <1>1, MoneyAssumption DEF Larger
<1>3. Reserve(Budget(r)) \in Nat
  BY <1>2, MoneyAssumption DEF Reserve
<1>. QED BY <1>1, <1>3

\* A lot as it is created, without and with an opening bid.
LEMMA NewLotRow ==
  ASSUME NEW q, NEW p, NEW left
  PROVE  /\ LotRowInv(NewLot(q, p, left)) /\ NewLot(q, p, left).status = "active"
         /\ FastLotInv(lots, NewLot(q, p, left))
<1>1. <<>> \in Seq(Proxy) /\ DOMAIN <<>> = {}
  BY EmptySeq
<1>. QED BY <1>1, MoneyAssumption DEF NewLot, LotRowInv, FastLotInv

LEMMA OpenedRow ==
  ASSUME NEW q, NEW p, NEW left, NEW r \in Roster, NEW max \in Nat,
         MinBid <= max, CanPay(lots, r, max)
  PROVE  LET x == OpenedBy(NewLot(q, p, left), r, max)
         IN  LotRowInv(x) /\ x.status = "active" /\ FastLotInv(lots, x)
<1>. DEFINE x == OpenedBy(NewLot(q, p, left), r, max)
            ps == <<[roster |-> r, max |-> max]>>
<1>1. /\ x.status = "active" /\ x.bid = MinBid /\ x.proxies = ps
      /\ {"status", "leader", "bid", "proxies"} \subseteq DOMAIN x
  BY DEF OpenedBy, NewLot
<1>2. ps \in Seq(Proxy) /\ DOMAIN ps = {1} /\ ps[1].roster = r /\ ps[1].max = max
  BY DEF Proxy
<1>3. LotRowInv(x)
  <2>. HIDE DEF x, ps
  <2>. QED BY <1>1, <1>2, MoneyAssumption DEF LotRowInv
<1>4. FastLotInv(lots, x)
  <2>. HIDE DEF x, ps
  <2>. QED BY <1>1, <1>2, MoneyAssumption DEF FastLotInv
<1>. QED BY <1>1, <1>3, <1>4

\* calculateFallbackMaxBid is legal for whoever may nominate.
LEMMA FallbackFits ==
  ASSUME NEW m \in Money, m.spent \in Nat, m.leading \in Nat, Reserve(m) \in Nat,
         MayNominate(m)
  PROVE  /\ FallbackMax(m) \in Nat /\ MinBid <= FallbackMax(m)
         /\ FallbackMax(m) + m.spent + Reserve(m) <= Total
<1>. DEFINE left == Total - m.spent - m.leading
            open == Slots - m.won
<1>1. m.won \in Nat /\ m.won < Slots /\ left \in Int /\ open \in Nat /\ open >= 1
  BY MoneyAssumption DEF MayNominate, Money
<1>2. MinBid + m.spent + Reserve(m) + m.leading <= Total
  BY MoneyAssumption DEF MayNominate, CanAffordMinBid, MaxAffordable, Money
<1>3. Reserve(m) = Larger(0, open - 1) * MinBid
  BY <1>1, MoneyAssumption DEF Reserve
<1>4. left \div open \in Int
  BY <1>1
<1>5. CASE left <= 0
  BY <1>2, <1>5, MoneyAssumption DEF FallbackMax
<1>6. CASE ~(left <= 0)
  <2>. DEFINE b == Smaller(left - Reserve(m), (left \div open) * 2)
  <2>1. FallbackMax(m) = Larger(MinBid, b)
    BY <1>1, <1>3, <1>6 DEF FallbackMax
  <2>2. b \in Int /\ b <= left - Reserve(m)
    <3>. HIDE DEF left, open
    <3>. QED BY <1>1, <1>4 DEF Smaller
  <2>. HIDE DEF b
  <2>. QED BY <1>2, <2>1, <2>2, MoneyAssumption DEF Larger
<1>. QED BY <1>5, <1>6

LEMMA FastNominateStep ==
  ASSUME AInv, NEW r \in Roster, NEW p, FastNominate(r, p)
  PROVE  AInv' /\ NoWin
<1>. DEFINE x == OpenedBy(NewLot(r, p, Smaller(NominationTicks, LongestLot)), r, MinBid)
<1>1. CanPay(lots, r, MinBid)
  <2>1. MinBid <= Total - Budget(r).spent - Reserve(Budget(r)) - Budget(r).leading
    BY BudgetIsMoney, MoneyAssumption DEF FastNominate, CanAffordMinBid, MaxAffordable
  <2>2. Budget(r).won < Slots
    BY DEF FastNominate
  <2>. QED BY <2>1, <2>2, BudgetIsMoney, MoneyAssumption DEF CanPay
<1>2. LotRowInv(x) /\ x.status = "active" /\ FastLotInv(lots, x)
  BY <1>1, OpenedRow, MoneyAssumption
<1>3. lots' = Append(lots, x) /\ mode' = mode /\ turn' = turn /\ Active = {}
  BY DEF FastNominate, FastLot
<1>. HIDE DEF x
<1>. QED BY <1>2, <1>3, AppendStep

LEMMA SlowNominateStep ==
  ASSUME AInv, NEW r \in Roster, NEW p, SlowNominate(r, p)
  PROVE  AInv' /\ NoWin
<1>1. /\ lots' = Append(lots, NewLot(r, p, WindowTicks))
      /\ mode' = mode /\ turn' = turn /\ mode = "slow"
  BY DEF SlowNominate
<1>. QED BY <1>1, NewLotRow, AppendStep

LEMMA AutoNominateStep ==
  ASSUME AInv, AutoNominate
  PROVE  AInv' /\ NoWin
<1>. DEFINE left == Smaller(NominationTicks, LongestLot)
            r == Nominator
            max == FallbackMax(Budget(r))
<1>1. mode' = mode /\ turn' = turn
  BY DEF AutoNominate
<1>2. CASE UNCHANGED lots
  BY <1>1, <1>2, StutterStep DEF AInv
<1>3. ASSUME NEW p \in Eligible, ~Skips, lots' = Append(lots, AutoLot(p)) PROVE AInv' /\ NoWin
  <2>1. r \in Roster
    BY OrderAssumption DEF AInv, Nominator, Turn, Roster
  <2>2. MayNominate(Budget(r))
    BY <1>3 DEF Skips
  <2>3. max \in Nat /\ MinBid <= max /\ max + Budget(r).spent + Reserve(Budget(r)) <= Total
    <3>. HIDE DEF r
    <3>. QED BY <2>2, BudgetIsMoney, FallbackFits
  <2>4. CanPay(lots, r, max)
    <3>. HIDE DEF r, max
    <3>. QED BY <2>2, <2>3, BudgetIsMoney DEF CanPay, MayNominate
  <2>. DEFINE x == AutoLot(p)
  <2>5. x = NewLot(r, p, left) \/ x = OpenedBy(NewLot(r, p, left), r, max)
    BY DEF AutoLot, FastLot
  <2>6. LotRowInv(x) /\ x.status = "active" /\ FastLotInv(lots, x)
    <3>. HIDE DEF r, max, x, left
    <3>. QED BY <2>1, <2>3, <2>4, <2>5, NewLotRow, OpenedRow
  <2>7. Active = {} /\ lots' = Append(lots, x)
    BY <1>3 DEF AutoNominate, NominationTimedOut
  <2>. HIDE DEF x
  <2>. QED BY <1>1, <2>6, <2>7, AppendStep
<1>4. UNCHANGED lots \/ \E p \in Eligible : ~Skips /\ lots' = Append(lots, AutoLot(p))
  BY DEF AutoNominate, SkipNomination
<1>. QED BY <1>2, <1>3, <1>4

\* The bids on a lot after the upsert.
LEMMA UpsertedBids ==
  ASSUME NEW ps \in Seq(Proxy), NEW r \in Roster, NEW max \in Nat
  PROVE  LET q == WithProxy(ps, r, max)
         IN  /\ q \in Seq(Proxy) /\ q # <<>>
             /\ \A i \in DOMAIN q : q[i] = [roster |-> r, max |-> max]
                                     \/ \E k \in DOMAIN ps : q[i] = ps[k]
             /\ \E i \in DOMAIN q : q[i].max = max
<1>. DEFINE q == WithProxy(ps, r, max)
            n == Len(ps)
            mine == [roster |-> r, max |-> max]
<1>. SUFFICES /\ q \in Seq(Proxy) /\ q # <<>>
              /\ \A i \in DOMAIN q : q[i] = mine \/ \E k \in DOMAIN ps : q[i] = ps[k]
              /\ \E i \in DOMAIN q : q[i].max = max
  OBVIOUS
<1>0. n \in Nat /\ DOMAIN ps = 1 .. n /\ \A i \in 1 .. n : ps[i] \in Proxy
  BY LenProperties, ElementOfSeq
<1>1. mine \in Proxy
  BY DEF Proxy
<1>2. CASE \E i \in DOMAIN ps : ps[i].roster = r
  <2>1. q = [i \in 1 .. n |-> IF ps[i].roster = r THEN [ps[i] EXCEPT !.max = max] ELSE ps[i]]
    BY <1>0, <1>2 DEF WithProxy
  <2>2. ASSUME NEW i \in 1 .. n, ps[i].roster = r PROVE [ps[i] EXCEPT !.max = max] = mine
    BY <1>0, <2>2 DEF Proxy
  <2>3. \A i \in 1 .. n : q[i] = IF ps[i].roster = r THEN mine ELSE ps[i]
    BY <2>1, <2>2
  <2>4. q \in [1 .. n -> Proxy]
    <3>. HIDE DEF mine
    <3>1. DOMAIN q = 1 .. n /\ q = [i \in 1 .. n |-> q[i]]
      BY <2>1
    <3>. HIDE DEF q
    <3>. QED BY <1>0, <1>1, <2>3, <3>1
  <2>5. q \in Seq(Proxy) /\ Len(q) = n /\ DOMAIN q = 1 .. n
    <3>. HIDE DEF n, q
    <3>. QED BY <1>0, <2>4, FunctionIsSeq
  <2>6. PICK i \in 1 .. n : ps[i].roster = r
    BY <1>0, <1>2
  <2>7. q[i].max = max
    BY <2>3, <2>6
  <2>8. q # <<>>
    <3>1. n # 0
      BY <1>0, <2>6
    <3>. HIDE DEF q, n
    <3>. QED BY <2>5, <3>1, EmptySeq
  <2>. HIDE DEF q, n
  <2>. QED BY <1>0, <2>3, <2>5, <2>6, <2>7, <2>8
<1>3. CASE ~ \E i \in DOMAIN ps : ps[i].roster = r
  <2>1. q = Append(ps, mine)
    BY <1>3 DEF WithProxy
  <2>2. /\ q \in Seq(Proxy) /\ q # <<>> /\ Len(q) = n + 1
        /\ \A i \in 1 .. n : q[i] = ps[i]
        /\ q[n + 1] = mine
    <3>. HIDE DEF mine
    <3>. QED BY <1>1, <2>1, AppendProperties
  <2>3. DOMAIN q = 1 .. n + 1 /\ n + 1 \in DOMAIN q
    <3>. HIDE DEF q, n, mine
    <3>. QED BY <1>0, <2>2, LenProperties
  <2>4. \A i \in DOMAIN q : i \in 1 .. n \/ i = n + 1
    <3>. HIDE DEF q, n
    <3>. QED BY <1>0, <2>3
  <2>5. q[n + 1].max = max
    <3>. HIDE DEF q
    <3>. QED BY <2>2
  <2>. HIDE DEF q, n
  <2>. QED BY <1>0, <2>2, <2>3, <2>4, <2>5
<1>. QED BY <1>2, <1>3

\* resolvePriceWithClient.
LEMMA ResolvedRow ==
  ASSUME NEW lot, LotRowInv(lot), NEW q \in Seq(Proxy), q # <<>>
  PROVE  LET x == Resolved([lot EXCEPT !.proxies = q])
         IN  /\ LotRowInv(x) /\ x.status = lot.status /\ x.proxies = q /\ x.bid >= lot.bid
             /\ MinBid <= lot.bid /\ (\E i \in DOMAIN q : lot.bid <= q[i].max) =>
                  \E i \in DOMAIN q : x.bid <= q[i].max
<1>. DEFINE y == [lot EXCEPT !.proxies = q]
            ranked == Ranked(q)
            price == LeadingPrice(ranked, lot.bid)
            x == Resolved(y)
<1>1. /\ y.proxies = q /\ y.bid = lot.bid /\ y.status = lot.status
      /\ {"status", "leader", "bid", "proxies"} \subseteq DOMAIN y
  BY DEF LotRowInv
<1>2. x = [y EXCEPT !.leader = ranked[1].roster, !.bid = price]
  <2>. HIDE DEF y
  <2>. QED BY <1>1 DEF Resolved
<1>3. /\ x.proxies = q /\ x.bid = price /\ x.status = lot.status
      /\ {"status", "leader", "bid", "proxies"} \subseteq DOMAIN x
  <2>. HIDE DEF y, x, price
  <2>. QED BY <1>1, <1>2
<1>4. /\ ranked \in Seq(Proxy) /\ Len(ranked) = Len(q) /\ Len(q) \in Nat /\ Len(q) >= 1
      /\ DOMAIN q = 1 .. Len(q)
      /\ \A i \in DOMAIN q : \E k \in DOMAIN q : ranked[i] = q[k]
      /\ \A k \in DOMAIN q : q[k].max <= ranked[1].max
  BY RankedBids
<1>5. lot.bid \in Nat /\ lot.status \in {"active", "won", "passed"}
  BY DEF LotRowInv
<1>6. price \in Nat /\ price >= lot.bid
  <2>1. 1 \in 1 .. Len(ranked)
    BY <1>4
  <2>. HIDE DEF ranked
  <2>. QED BY <1>4, <1>5, <2>1, PriceNeverFalls
<1>7. LotRowInv(x)
  <2>. HIDE DEF x, price, y
  <2>. QED BY <1>3, <1>5, <1>6 DEF LotRowInv
<1>8. ASSUME MinBid <= lot.bid, NEW i \in DOMAIN q, lot.bid <= q[i].max
      PROVE  \E k \in DOMAIN q : price <= q[k].max
  <2>1. PICK k \in DOMAIN q : ranked[1] = q[k]
    BY <1>4
  <2>2. q[i].max \in Nat /\ q[k].max \in Nat
    <3>1. q[i] \in Proxy /\ q[k] \in Proxy
      BY <1>4, ElementOfSeq
    <3>. QED BY <3>1 DEF Proxy
  <2>3. lot.bid <= ranked[1].max /\ MinBid <= ranked[1].max
    <3>. HIDE DEF ranked
    <3>1. q[i].max <= q[k].max
      BY <1>4, <2>1
    <3>. QED BY <1>5, <1>8, <2>1, <2>2, <3>1, MoneyAssumption
  <2>4. price <= ranked[1].max
    <3>. HIDE DEF ranked
    <3>. QED BY <1>4, <1>5, <2>3, PriceWithinMaximum
  <2>. HIDE DEF price, ranked
  <2>. QED BY <2>1, <2>4
<1>. HIDE DEF x, price
<1>9. /\ LotRowInv(x) /\ x.status = lot.status /\ x.proxies = q /\ x.bid >= lot.bid
      /\ MinBid <= lot.bid /\ (\E i \in DOMAIN q : lot.bid <= q[i].max) =>
           \E i \in DOMAIN q : x.bid <= q[i].max
  BY <1>3, <1>6, <1>7, <1>8
<1>. QED BY <1>9 DEF x

\* setMaxBid, with or without an extension of the deadline.
LEMMA BidStep ==
  ASSUME AInv, mode' = mode, turn' = turn, NEW l \in Active, NEW r \in Roster,
         NEW max \in Nat, BidFits(r, lots[l], max),
         mode = "fast" => FastBidAllowed(r, lots[l], max),
         NEW x, lots' = [lots EXCEPT ![l] = x],
         LET y == Resolved([lots[l] EXCEPT !.proxies = WithProxy(@, r, max)])
         IN  x = y \/ \E left : x = [y EXCEPT !.left = left]
  PROVE  AInv' /\ NoWin
<1>. DEFINE lot == lots[l]
            q == WithProxy(lot.proxies, r, max)
            y == Resolved([lot EXCEPT !.proxies = q])
<1>1. LotRowInv(lot) /\ lot.status = "active" /\ lot.bid \in Nat
  BY DEF AInv, Table, Active, LotRowInv
<1>2. /\ q \in Seq(Proxy) /\ q # <<>>
      /\ \A i \in DOMAIN q : q[i] = [roster |-> r, max |-> max]
                              \/ \E k \in DOMAIN lot.proxies : q[i] = lot.proxies[k]
      /\ \E i \in DOMAIN q : q[i].max = max
  <2>1. lot.proxies \in Seq(Proxy)
    BY <1>1 DEF LotRowInv
  <2>. HIDE DEF lot
  <2>. QED BY <2>1, UpsertedBids
<1>3. /\ LotRowInv(y) /\ y.status = "active" /\ y.proxies = q /\ y.bid >= lot.bid
      /\ MinBid <= lot.bid /\ (\E i \in DOMAIN q : lot.bid <= q[i].max) =>
           \E i \in DOMAIN q : y.bid <= q[i].max
  <2>. HIDE DEF lot, q
  <2>. QED BY <1>1, <1>2, ResolvedRow
<1>4. x = y \/ \E left : x = [y EXCEPT !.left = left]
  OBVIOUS
<1>. HIDE DEF y
<1>5. LotRowInv(x) /\ x.status = y.status /\ x.proxies = y.proxies /\ x.bid = y.bid
  BY <1>3, <1>4 DEF LotRowInv
<1>6. ASSUME mode = "fast" PROVE FastLotInv(lots, x)
  <2>1. FastLotInv(lots, lot) /\ MinBid <= lot.bid
    BY <1>6 DEF AInv, FastInv, FastLotInv
  <2>2. lot.bid <= max
    <3>1. FastBidAllowed(r, lot, max)
      BY <1>6
    <3>. HIDE DEF lot
    <3>. QED BY <1>1, <3>1, MoneyAssumption DEF FastBidAllowed
  <2>3. CanPay(lots, r, max)
    BY BudgetIsMoney, MoneyAssumption DEF BidFits, CanPay
  <2>4. \A i \in DOMAIN q : CanPay(lots, q[i].roster, q[i].max)
    <3>. HIDE DEF q
    <3>. QED BY <1>2, <2>1, <2>3 DEF FastLotInv
  <2>5. \E i \in DOMAIN q : y.bid <= q[i].max
    <3>. HIDE DEF q, lot
    <3>. QED BY <1>2, <1>3, <2>1, <2>2
  <2>6. MinBid <= y.bid
    <3>1. y.bid \in Nat
      BY <1>3 DEF LotRowInv
    <3>. HIDE DEF lot
    <3>. QED BY <1>1, <1>3, <2>1, <3>1, MoneyAssumption
  <2>. HIDE DEF q
  <2>. QED BY <1>3, <1>5, <2>4, <2>5, <2>6 DEF FastLotInv
<1>. QED BY <1>3, <1>5, <1>6, ReplaceStep

-----------------------------------------------------------------------------
(* Settlement                                                              *)

\* What FastWinnerPaysWithinBid asks of a step.
WinnerPays ==
  mode = "fast" =>
    \A l \in DOMAIN lots : lots[l].status = "active" /\ lots'[l].status = "won" =>
      \E i \in DOMAIN lots[l].proxies :
        /\ lots[l].proxies[i].roster = lots'[l].leader
        /\ lots[l].proxies[i].max >= lots'[l].bid

\* The update of a lot to 'won'.
WonAt(l, w, price) ==
  lots' = [lots EXCEPT ![l].status = "won", ![l].leader = w, ![l].bid = price,
                       ![l].proxies = <<>>]

\* The lot is won by w at this price.
LEMMA WonStep ==
  ASSUME AInv, mode' = mode, turn' = turn, NEW l \in Active, NEW w \in Roster,
         NEW price \in Nat, CanSettle(Budget(w), price), WonAt(l, w, price)
  PROVE  /\ AInv' /\ DOMAIN lots' = DOMAIN lots
         /\ \A k \in DOMAIN lots \ {l} : lots'[k] = lots[k]
         /\ lots'[l].leader = w /\ lots'[l].bid = price
<1>. DEFINE n == Len(lots)
            lot == lots[l]
            x == lots'[l]
<1>1. n \in Nat /\ DOMAIN lots = 1 .. n /\ Table(lots) /\ l \in DOMAIN lots
  BY TableDomain DEF AInv, Active
<1>2. DOMAIN lots' = DOMAIN lots /\ \A k \in DOMAIN lots \ {l} : lots'[k] = lots[k]
  BY <1>1 DEF WonAt
<1>3. /\ x.status = "won" /\ x.leader = w /\ x.bid = price /\ x.proxies = <<>>
      /\ {"status", "leader", "bid", "proxies"} \subseteq DOMAIN x
  BY <1>1 DEF Table, LotRowInv, WonAt
<1>4. Table(lots')
  <2>1. lots' \in [1 .. n -> {lots'[k] : k \in DOMAIN lots'}]
    <3>1. lots' = [k \in 1 .. n |-> lots'[k]]
      BY <1>1, <1>2 DEF WonAt
    <3>. QED BY <1>1, <1>2, <3>1
  <2>2. lots' \in Seq({lots'[k] : k \in DOMAIN lots'})
    <3>. HIDE DEF n
    <3>. QED BY <1>1, <2>1, FunctionIsSeq
  <2>3. LotRowInv(x)
    <3>. HIDE DEF x
    <3>. QED BY <1>3, EmptySeq DEF LotRowInv
  <2>. QED BY <1>1, <1>2, <2>2, <2>3 DEF Table
<1>5. lot.status = "active"
  BY DEF Active
<1>6. \A r : WonBy(lots', r) = IF r = w THEN WonBy(lots, r) \cup {l} ELSE WonBy(lots, r)
  <2>. HIDE DEF x, lot
  <2>. QED BY <1>1, <1>2, <1>3, <1>5 DEF WonBy, x, lot
<1>7. l \notin WonBy(lots, w)
  BY <1>5 DEF WonBy
<1>8. Fields(lots', w).won = Fields(lots, w).won + 1
  <2>1. WonBy(lots', w) = WonBy(lots, w) \cup {l}
    BY <1>6
  <2>2. Cardinality(WonBy(lots, w) \cup {l}) = Cardinality(WonBy(lots, w)) + 1
    BY <1>1, <1>7, WonFinite, FS_AddElement
  <2>. QED BY <2>1, <2>2 DEF Fields
<1>9. Fields(lots', w).spent = Fields(lots, w).spent + price
  <2>. DEFINE u == BidsOn(lots, WonBy(lots, w))
              v == BidsOn(lots', WonBy(lots', w))
  <2>1. Len(lots') = n
    <3>1. DOMAIN lots' = 1 .. Len(lots') /\ Len(lots') \in Nat
      BY <1>4, TableDomain
    <3>. HIDE DEF n
    <3>. QED BY <1>1, <1>2, <3>1
  <2>2. u \in Seq(Nat) /\ Len(u) = n /\ v \in Seq(Nat) /\ Len(v) = n
    <3>1. u \in Seq(Nat) /\ Len(u) = n
      BY <1>1, BidsAreNumbers
    <3>2. v \in Seq(Nat) /\ Len(v) = Len(lots')
      BY <1>4, BidsAreNumbers
    <3>. QED BY <2>1, <3>1, <3>2
  <2>3. ASSUME NEW k \in 1 .. n
        PROVE  v[k] = (IF k <= n THEN u[k] ELSE 0) + (IF k = l THEN price ELSE 0)
    <3>1. v[k] = IF k = l THEN price ELSE u[k]
      <4>1. WonBy(lots', w) = WonBy(lots, w) \cup {l}
        BY <1>6
      <4>2. k \in DOMAIN lots /\ k \in DOMAIN lots'
        BY <1>1, <1>2
      <4>3. CASE k = l
        BY <1>3, <4>1, <4>2, <4>3 DEF BidsOn
      <4>4. CASE k # l
        BY <1>2, <4>1, <4>2, <4>4 DEF BidsOn
      <4>. QED BY <4>3, <4>4
    <3>2. k = l => u[k] = 0
      BY <1>1, <1>7 DEF BidsOn
    <3>3. u[k] \in Nat /\ k <= n
      BY <1>1, <2>2
    <3>. HIDE DEF u, v, n
    <3>. QED BY <3>1, <3>2, <3>3
  <2>4. SumOf(v) = SumOf(u) + price
    <3>1. l \in Nat /\ l \in 1 .. Len(u) /\ price \in Int /\ Len(u) <= Len(v)
      <4>. HIDE DEF u, v, n
      <4>. QED BY <1>1, <2>2
    <3>2. \A k \in 1 .. Len(v) :
            v[k] = (IF k <= Len(u) THEN u[k] ELSE 0) + (IF k = l THEN price ELSE 0)
      <4>. HIDE DEF u, v, n
      <4>. QED BY <2>2, <2>3
    <3>. HIDE DEF u, v, n
    <3>. QED BY <2>2, <3>1, <3>2, SumChange
  <2>. QED BY <2>4 DEF Fields
<1>10. \A r : r # w => SameMoney(lots, lots', r)
  <2>. SUFFICES ASSUME NEW r, r # w PROVE SameMoney(lots, lots', r)
    OBVIOUS
  <2>1. WonBy(lots', r) = WonBy(lots, r)
    BY <1>6
  <2>2. l \notin WonBy(lots, r)
    BY <1>5 DEF WonBy
  <2>3. BidsOn(lots', WonBy(lots', r)) = BidsOn(lots, WonBy(lots, r))
    BY <1>2, <2>1, <2>2 DEF BidsOn
  <2>. QED BY <2>1, <2>3 DEF Fields, SameMoney
<1>11. SpentWithinBudget'
  <2>. SUFFICES ASSUME NEW r \in Roster, Budget(r)'.won > 0
                PROVE  /\ Budget(r)'.won <= Slots
                       /\ Budget(r)'.spent + (Slots - Budget(r)'.won) * MinBid <= Total
    BY DEF SpentWithinBudget
  <2>1. Budget(r) = Fields(lots, r) /\ Budget(r)' = Fields(lots', r)
    BY BudgetFields
  <2>2. CASE r = w
    <3>1. Budget(w) \in Money
      BY BudgetIsMoney
    <3>2. /\ Budget(w).won + 1 <= Slots
          /\ (Budget(w).spent + price) + (Slots - (Budget(w).won + 1)) * MinBid <= Total
      BY <3>1, SettlementKeepsReserve
    <3>. QED BY <1>8, <1>9, <2>1, <2>2, <3>2
  <2>3. CASE r # w
    <3>1. Budget(r)'.won = Budget(r).won /\ Budget(r)'.spent = Budget(r).spent
      BY <1>10, <2>1, <2>3 DEF SameMoney
    <3>. QED BY <3>1 DEF AInv, SpentWithinBudget
  <2>. QED BY <2>2, <2>3
<1>12. FastInv'
  <2>. SUFFICES ASSUME mode = "fast" PROVE Active' = {}
    BY DEF FastInv
  <2>1. Active = {l}
    BY DEF AInv, FastInv
  <2>. QED BY <1>2, <1>3, <2>1 DEF Active
<1>. QED BY <1>2, <1>3, <1>4, <1>11, <1>12 DEF AInv

\* In a fast auction whoever bid the most can pay it, and the price is
\* within its maximum.
LEMMA BestCanSettle ==
  ASSUME AInv, mode = "fast", NEW l \in Active, lots[l].proxies # <<>>
  PROVE  LET ranked == Ranked(lots[l].proxies)
         IN  /\ CanSettleAt(l, 1) /\ SettlePrice(ranked, 1, lots[l].bid) <= ranked[1].max
             /\ \E k \in DOMAIN lots[l].proxies : ranked[1] = lots[l].proxies[k]
<1>. DEFINE ps == lots[l].proxies
            ranked == Ranked(ps)
            bid == lots[l].bid
            price == SettlePrice(ranked, 1, bid)
            m == Budget(ranked[1].roster)
<1>1. ps \in Seq(Proxy) /\ bid \in Nat /\ FastLotInv(lots, lots[l])
  BY DEF AInv, Table, LotRowInv, Active, FastInv
<1>2. /\ ranked \in Seq(Proxy) /\ Len(ranked) = Len(ps) /\ Len(ps) \in Nat
      /\ DOMAIN ps = 1 .. Len(ps)
      /\ \A i \in DOMAIN ps : \E k \in DOMAIN ps : ranked[i] = ps[k]
      /\ \A k \in DOMAIN ps : ps[k].max <= ranked[1].max
  <2>. HIDE DEF ps
  <2>. QED BY <1>1, RankedBids
<1>3. Len(ps) >= 1 /\ 1 \in DOMAIN ps
  <2>. HIDE DEF ps
  <2>1. ps # <<>>
    BY DEF ps
  <2>. QED BY <1>1, <1>2, <2>1
<1>4. PICK k \in DOMAIN ps : ranked[1] = ps[k]
  BY <1>2, <1>3
<1>5. PICK i \in DOMAIN ps : bid <= ps[i].max
  BY <1>1 DEF FastLotInv
<1>. HIDE DEF ps
<1>6. ps[i].max \in Nat /\ ps[k].max \in Nat
  <2>1. ps[i] \in Proxy /\ ps[k] \in Proxy
    BY <1>1, <1>2, ElementOfSeq
  <2>. QED BY <2>1 DEF Proxy
<1>. HIDE DEF ranked, bid
<1>7. bid <= ranked[1].max /\ MinBid <= ranked[1].max
  <2>1. ps[i].max <= ps[k].max
    BY <1>2, <1>4
  <2>2. MinBid <= bid
    BY <1>1 DEF FastLotInv, bid
  <2>. QED BY <1>1, <1>4, <1>5, <1>6, <2>1, <2>2, MoneyAssumption
<1>8. price = LeadingPrice(ranked, bid)
  BY <1>2, <1>3 DEF SettlePrice, LeadingPrice
<1>9. price <= ranked[1].max
  BY <1>1, <1>2, <1>3, <1>7, <1>8, PriceWithinMaximum
<1>10. price \in Nat
  BY <1>1, <1>2, <1>3, <1>8, PriceNeverFalls
<1>11. CanPay(lots, ranked[1].roster, ranked[1].max)
  BY <1>1, <1>4 DEF FastLotInv, ps
<1>12. CanSettle(m, price)
  <2>1. m \in Money /\ m.spent \in Nat /\ m.won \in Nat /\ Reserve(m) \in Nat
        /\ m = Fields(lots, ranked[1].roster)
    BY BudgetIsMoney
  <2>2. m.won < Slots /\ ranked[1].max + m.spent + Reserve(m) <= Total
    BY <1>11, <2>1 DEF CanPay
  <2>. HIDE DEF m, price
  <2>3. Reserve(m) = (Slots - m.won - 1) * MinBid
    BY <2>1, <2>2, MoneyAssumption DEF Reserve, Larger
  <2>4. ranked[1].max \in Nat
    BY <1>4, <1>6
  <2>5. m.spent + price + Reserve(m) <= Total
    BY <1>9, <1>10, <2>1, <2>2, <2>4, MoneyAssumption
  <2>6. m.spent + price + (Slots - m.won - 1) * MinBid <= Total
    BY <2>3, <2>5
  <2>. QED BY <2>2, <2>6 DEF CanSettle
<1>13. CanSettleAt(l, 1)
  BY <1>12 DEF CanSettleAt, ranked, ps, bid
<1>. QED BY <1>4, <1>9, <1>13 DEF ranked, ps, bid

\* settleLot: the winner of a fast auction is the first of the ranking.
LEMMA SettleStep ==
  ASSUME AInv, mode' = mode, turn' = turn, NEW l \in DOMAIN lots, SettleLot(l)
  PROVE  AInv' /\ WinnerPays /\ DOMAIN lots \subseteq DOMAIN lots'
<1>0. l \in Active
  BY DEF SettleLot, Active
<1>1. LotRowInv(lots[l])
  BY DEF AInv, Table
<1>2. ASSUME NEW i \in DOMAIN lots[l].proxies, CanSettleAt(l, i),
             \A j \in 1 .. i - 1 : ~CanSettleAt(l, j), Award(l, i)
      PROVE  AInv' /\ WinnerPays /\ DOMAIN lots \subseteq DOMAIN lots'
  <2>. DEFINE ps == lots[l].proxies
              ranked == Ranked(ps)
              price == SettlePrice(ranked, i, lots[l].bid)
  <2>1. ps \in Seq(Proxy) /\ lots[l].bid \in Nat
    BY <1>1 DEF LotRowInv
  <2>2. /\ ranked \in Seq(Proxy) /\ Len(ranked) = Len(ps) /\ Len(ps) \in Nat
        /\ DOMAIN ps = 1 .. Len(ps)
    <3>. HIDE DEF ps
    <3>. QED BY <2>1, RankedBids
  <2>3. i \in 1 .. Len(ranked) /\ Len(ranked) >= 1
    <3>1. i \in 1 .. Len(ps)
      BY <2>2
    <3>. HIDE DEF ranked, ps
    <3>. QED BY <2>2, <3>1
  <2>4. price \in Nat
    <3>. HIDE DEF ranked, ps
    <3>. QED BY <2>1, <2>2, <2>3, PriceNeverFalls
  <2>5. ranked[i] \in Proxy
    <3>. HIDE DEF ranked, ps
    <3>. QED BY <2>2, <2>3, ElementOfSeq
  <2>6. ranked[i].roster \in Roster
    <3>. HIDE DEF ranked
    <3>. QED BY <2>5 DEF Proxy
  <2>7. CanSettle(Budget(ranked[i].roster), price)
    BY <1>2 DEF CanSettleAt
  <2>8. lots' = [lots EXCEPT ![l].status = "won", ![l].leader = ranked[i].roster,
                             ![l].bid = price, ![l].proxies = <<>>]
    BY <1>2 DEF Award
  <2>9. /\ AInv' /\ DOMAIN lots' = DOMAIN lots
        /\ \A k \in DOMAIN lots \ {l} : lots'[k] = lots[k]
        /\ lots'[l].leader = ranked[i].roster /\ lots'[l].bid = price
    <3>. HIDE DEF ranked, price, ps
    <3>1. PICK w \in Roster : w = ranked[i].roster
      BY <2>6
    <3>2. PICK q \in Nat : q = price
      BY <2>4
    <3>3. CanSettle(Budget(w), q)
      BY <2>7, <3>1, <3>2
    <3>4. WonAt(l, w, q)
      BY <2>8, <3>1, <3>2 DEF WonAt
    <3>5. /\ AInv' /\ DOMAIN lots' = DOMAIN lots
          /\ \A k \in DOMAIN lots \ {l} : lots'[k] = lots[k]
          /\ lots'[l].leader = w /\ lots'[l].bid = q
      BY <1>0, <3>3, <3>4, WonStep
    <3>. QED BY <3>1, <3>2, <3>5
  <2>10. ASSUME mode = "fast"
         PROVE  \E k \in DOMAIN ps : ps[k].roster = lots'[l].leader /\ ps[k].max >= lots'[l].bid
    <3>1. ps # <<>>
      <4>. HIDE DEF ps
      <4>. QED BY <2>2, <2>3, EmptySeq
    <3>2. /\ CanSettleAt(l, 1) /\ SettlePrice(ranked, 1, lots[l].bid) <= ranked[1].max
          /\ \E k \in DOMAIN ps : ranked[1] = ps[k]
      BY <1>0, <2>10, <3>1, BestCanSettle
    <3>3. i = 1
      <4>. SUFFICES ASSUME i # 1 PROVE FALSE
        OBVIOUS
      <4>1. 1 \in 1 .. i - 1
        <5>. HIDE DEF ranked
        <5>. QED BY <2>2, <2>3
      <4>. QED BY <1>2, <3>2, <4>1
    <3>4. PICK k \in DOMAIN ps : ranked[1] = ps[k]
      BY <3>2
    <3>5. ranked[1].max \in Nat
      BY <2>5, <3>3 DEF Proxy
    <3>. HIDE DEF ranked, ps
    <3>. QED BY <2>4, <2>9, <3>2, <3>3, <3>4, <3>5
  <2>. QED BY <2>9, <2>10 DEF WinnerPays
<1>3. ASSUME Pass(l) PROVE AInv' /\ WinnerPays /\ DOMAIN lots \subseteq DOMAIN lots'
  <2>. DEFINE x == Passed(lots[l])
  <2>1. LotRowInv(x) /\ x.status = "passed"
    BY <1>1, EmptySeq DEF Passed, LotRowInv
  <2>2. lots' = [lots EXCEPT ![l] = x]
    BY <1>3 DEF Pass
  <2>. HIDE DEF x
  <2>3. AInv' /\ NoWin
    BY <1>0, <2>1, <2>2, ReplaceStep
  <2>. QED BY <2>3 DEF NoWin, WinnerPays
<1>. QED BY <1>2, <1>3 DEF SettleLot

\* The settlement job holds ids of lots that exist.
Found == found \in Seq(DOMAIN lots)

LEMMA FoundKept ==
  ASSUME Found, DOMAIN lots \subseteq DOMAIN lots',
         found' = found \/ found' = <<>> \/ (found # <<>> /\ found' = Tail(found))
  PROVE  Found'
<1>. DEFINE D == DOMAIN lots'
<1>1. found \in Seq(D)
  <2>1. found \in [1 .. Len(found) -> DOMAIN lots] /\ Len(found) \in Nat
    BY LenProperties DEF Found
  <2>2. found \in [1 .. Len(found) -> D]
    BY <2>1
  <2>. HIDE DEF D
  <2>. QED BY <2>1, <2>2, SeqDef
<1>2. found' \in Seq(D)
  <2>. HIDE DEF D
  <2>. QED BY <1>1, EmptySeq, HeadTailProperties
<1>. QED BY <1>2 DEF Found

LEMMA FindExpiredStep ==
  ASSUME AInv, FindExpired
  PROVE  Found'
<1>. DEFINE expired == {l \in Active : lots[l].left = 0}
            c == Cardinality(expired)
<1>1. found' \in SetToSeqs(expired) /\ lots' = lots
  BY DEF FindExpired
<1>2. IsFiniteSet(expired)
  <2>1. IsFiniteSet(DOMAIN lots)
    BY TableDomain, FS_Interval DEF AInv
  <2>2. expired \in SUBSET DOMAIN lots
    BY DEF Active
  <2>. HIDE DEF expired
  <2>. QED BY <2>1, <2>2, FS_Subset
<1>3. c \in Nat
  BY <1>2, FS_CardinalityType
<1>4. found' \in [1 .. c -> DOMAIN lots]
  <2>1. found' \in [1 .. c -> expired]
    BY <1>1 DEF SetToSeqs
  <2>. HIDE DEF c
  <2>. QED BY <2>1 DEF Active
<1>. HIDE DEF c
<1>. QED BY <1>1, <1>3, <1>4, SeqDef DEF Found

-----------------------------------------------------------------------------
(* The theorems                                                            *)

LEMMA InitAInv == Init => AInv /\ Found
<1>. SUFFICES ASSUME Init PROVE AInv /\ Found
  OBVIOUS
<1>1. lots = <<>> /\ found = <<>> /\ DOMAIN lots = {}
  BY EmptySeq DEF Init
<1>2. Table(lots) /\ Found
  BY <1>1, EmptySeq DEF Table, Found
<1>3. Active = {} /\ FastInv
  BY <1>1 DEF Active, FastInv
<1>4. SpentWithinBudget
  <2>. SUFFICES ASSUME NEW r \in Roster PROVE Budget(r).won = 0
    BY DEF SpentWithinBudget
  <2>1. WonBy(lots, r) = {}
    BY <1>1 DEF WonBy
  <2>. QED BY <2>1, BudgetFields, FS_EmptySet DEF Fields
<1>5. turn \in Turn
  BY OrderAssumption DEF Init, Turn
<1>6. mode \in {"fast", "slow"}
  BY SetupsAssumption DEF Init
<1>. QED BY <1>2, <1>3, <1>4, <1>5, <1>6 DEF AInv

LEMMA Preserved ==
  AInv /\ Found /\ [Next]_vars => AInv' /\ Found' /\ WinnerPays
<1>. SUFFICES ASSUME AInv, Found, [Next]_vars PROVE AInv' /\ Found' /\ WinnerPays
  OBVIOUS
<1>0. NoWin => WinnerPays /\ DOMAIN lots \subseteq DOMAIN lots'
  BY DEF NoWin, WinnerPays
<1>. DEFINE Goal == AInv' /\ Found' /\ WinnerPays
<1>1. ASSUME AInv', NoWin, found' = found \/ found' = <<>> PROVE Goal
  BY <1>0, <1>1, FoundKept
<1>2. ASSUME NEW r \in Roster, NEW p \in Player, FastNominate(r, p) \/ SlowNominate(r, p)
      PROVE  Goal
  <2>1. found' = found
    BY <1>2 DEF FastNominate, SlowNominate
  <2>. QED BY <1>1, <1>2, <2>1, FastNominateStep, SlowNominateStep
<1>3. ASSUME NEW r \in Roster, NEW l \in DOMAIN lots, NEW b \in Bids, FastBid(r, l, b)
      PROVE  Goal
  <2>. DEFINE x == FastPriced(lots[l], r, b)
  <2>1. /\ l \in Active /\ mode' = mode /\ turn' = turn /\ found' = found
        /\ BidFits(r, lots[l], b) /\ FastBidAllowed(r, lots[l], b)
        /\ lots' = [lots EXCEPT ![l] = x]
    BY <1>3 DEF FastBid, Active
  <2>2. LET y == Resolved([lots[l] EXCEPT !.proxies = WithProxy(@, r, b)])
        IN  x = y \/ \E left : x = [y EXCEPT !.left = left]
    BY DEF FastPriced
  <2>3. b \in Nat
    BY BidsAssumption
  <2>. HIDE DEF x
  <2>4. AInv' /\ NoWin
    BY <2>1, <2>2, <2>3, BidStep
  <2>. QED BY <1>1, <2>1, <2>4
<1>4. ASSUME NEW r \in Roster, NEW l \in DOMAIN lots, NEW b \in Bids, SlowBid(r, l, b)
      PROVE  Goal
  <2>. DEFINE x == SlowPriced(lots[l], r, b)
  <2>1. /\ l \in Active /\ mode' = mode /\ turn' = turn /\ found' = found /\ mode = "slow"
        /\ BidFits(r, lots[l], b)
        /\ lots' = [lots EXCEPT ![l] = x]
    BY <1>4 DEF SlowBid, Active
  <2>2. LET y == Resolved([lots[l] EXCEPT !.proxies = WithProxy(@, r, b)])
        IN  x = y \/ \E left : x = [y EXCEPT !.left = left]
    BY DEF SlowPriced
  <2>3. b \in Nat
    BY BidsAssumption
  <2>. HIDE DEF x
  <2>4. AInv' /\ NoWin
    BY <2>1, <2>2, <2>3, BidStep
  <2>. QED BY <1>1, <2>1, <2>4
<1>5. ASSUME AskPause \/ AskResume \/ SlowPauseOrResume \/ Crash \/ CompleteDraft
      PROVE  Goal
  <2>1. mode' = mode /\ turn' = turn /\ lots' = lots /\ (found' = found \/ found' = <<>>)
    BY <1>5 DEF AskPause, AskResume, SlowPauseOrResume, Crash, CompleteDraft
  <2>. QED BY <1>1, <2>1, StutterStep DEF AInv
<1>6. ASSUME NEW i \in DOMAIN asked, FastPause(i) PROVE Goal
  <2>1. mode' = mode /\ turn' = turn /\ found' = found
    BY <1>6 DEF FastPause
  <2>2. CASE UNCHANGED lots
    BY <1>1, <2>1, <2>2, StutterStep DEF AInv
  <2>3. ASSUME NEW l \in Active, lots' = [lots EXCEPT ![l].left = Frozen] PROVE Goal
    <3>1. /\ l \in DOMAIN lots /\ DOMAIN lots' = DOMAIN lots
          /\ lots' = [k \in DOMAIN lots |-> lots'[k]]
          /\ \A k \in DOMAIN lots :
               lots'[k] = IF k = l THEN [lots[k] EXCEPT !.left = Frozen] ELSE lots[k]
      BY <2>3 DEF Active
    <3>. QED BY <1>1, <2>1, <3>1, RewriteStep
  <2>. QED BY <1>6, <2>2, <2>3 DEF FastPause
<1>7. ASSUME NEW i \in DOMAIN asked, FastResume(i) PROVE Goal
  <2>1. mode' = mode /\ turn' = turn /\ found' = found
    BY <1>7 DEF FastResume
  <2>2. /\ lots' = [k \in DOMAIN lots |-> lots'[k]]
        /\ \A k \in DOMAIN lots :
             lots'[k] = lots[k] \/ lots'[k] = [lots[k] EXCEPT !.left = asked[i].saved.left]
    BY <1>7 DEF FastResume
  <2>. QED BY <1>1, <2>1, <2>2, RewriteStep
<1>8. ASSUME FindExpired PROVE Goal
  <2>1. mode' = mode /\ turn' = turn /\ lots' = lots
    BY <1>8 DEF FindExpired
  <2>2. AInv' /\ NoWin
    BY <2>1, StutterStep DEF AInv
  <2>. QED BY <1>0, <1>8, <2>2, FindExpiredStep
<1>9. ASSUME ProcessExpired PROVE Goal
  <2>1. /\ mode' = mode /\ turn' = turn /\ found # <<>> /\ found' = Tail(found)
        /\ SettleLot(Head(found)) \/ lots' = lots
    BY <1>9 DEF ProcessExpired
  <2>2. Head(found) \in DOMAIN lots
    BY <2>1, HeadTailProperties DEF Found
  <2>3. AInv' /\ WinnerPays /\ DOMAIN lots \subseteq DOMAIN lots'
    <3>1. CASE lots' = lots
      BY <1>0, <2>1, <3>1, StutterStep DEF AInv
    <3>2. CASE SettleLot(Head(found))
      BY <2>1, <2>2, <3>2, SettleStep
    <3>. QED BY <2>1, <3>1, <3>2
  <2>4. Found'
    BY <2>1, <2>3, FoundKept
  <2>. QED BY <2>3, <2>4
<1>10. ASSUME AutoNominate PROVE Goal
  <2>1. found' = found
    BY <1>10 DEF AutoNominate
  <2>. QED BY <1>1, <1>10, <2>1, AutoNominateStep
<1>11. ASSUME NEW j \in Job, AdvanceNominator(j) \/ AdvanceGivenUp(j) \/ CompleteAuctionDraft(j)
       PROVE  Goal
  <2>1. mode' = mode /\ lots' = lots /\ found' = found
    BY <1>11 DEF AdvanceNominator, AdvanceGivenUp, CompleteAuctionDraft
  <2>2. turn' = turn \/ \E k \in Turn : turn' = TurnAfter(k)
    BY <1>11 DEF AdvanceNominator, AdvanceGivenUp, CompleteAuctionDraft,
                 AdvanceNominatorInternal
  <2>3. turn' \in Turn
    <3>. DEFINE n == Len(Order)
    <3>1. n \in Nat /\ n > 0 /\ turn \in 1 .. n
      BY OrderAssumption DEF AInv, Turn
    <3>2. ASSUME NEW k \in Turn PROVE TurnAfter(k) \in Turn
      <4>1. k \in 1 .. n /\ turn + k - 1 \in Int
        BY <3>1 DEF Turn
      <4>2. (turn + k - 1) % n \in 0 .. n - 1
        <5>. HIDE DEF n
        <5>. QED BY <3>1, <4>1
      <4>3. ((turn + k - 1) % n) + 1 \in 1 .. n
        <5>. HIDE DEF n
        <5>. QED BY <3>1, <4>2
      <4>. QED BY <4>3 DEF TurnAfter, Turn
    <3>. QED BY <2>2, <3>2 DEF AInv
  <2>. QED BY <1>1, <2>1, <2>3, StutterStep
<1>12. ASSUME Clock PROVE Goal
  <2>1. mode' = mode /\ turn' = turn /\ found' = found
    BY <1>12 DEF Clock
  <2>2. lots' = [k \in DOMAIN lots |-> lots'[k]]
    BY <1>12 DEF Clock
  <2>3. ASSUME NEW k \in DOMAIN lots
        PROVE  lots'[k] = lots[k] \/ \E left, age : lots'[k] = [lots[k] EXCEPT !.left = left, !.age = age]
    BY <1>12 DEF Clock
  <2>. QED BY <1>1, <2>1, <2>2, <2>3, RewriteStep
<1>13. ASSUME UNCHANGED vars PROVE Goal
  <2>1. mode' = mode /\ turn' = turn /\ lots' = lots /\ found' = found
    BY <1>13 DEF vars
  <2>. QED BY <1>1, <2>1, StutterStep DEF AInv
<1>. HIDE DEF Goal
<1>14. Goal
  BY <1>2, <1>3, <1>4, <1>5, <1>6, <1>7, <1>8, <1>9, <1>10, <1>11, <1>12, <1>13 DEF Next
<1>. QED BY <1>14 DEF Goal

\* Whatever is bid, paused, settled, skipped or lost in a crash, a roster
\* that has won a lot has no more players than slots and keeps a minimum bid
\* for each slot still open, in fast and in slow auctions.
THEOREM BudgetsHold == Spec => []SpentWithinBudget
<1>1. AInv => SpentWithinBudget
  BY DEF AInv
<1>. QED BY InitAInv, Preserved, <1>1, PTL DEF Spec

\* In a fast auction whoever wins a lot pays at most the maximum it set.
THEOREM WinnersPayWithinBid == Spec => FastWinnerPaysWithinBid
<1>1. AInv /\ Found /\ [Next]_vars =>
        [mode = "fast" =>
           \A l \in DOMAIN lots : lots[l].status = "active" /\ lots'[l].status = "won" =>
             \E i \in DOMAIN lots[l].proxies :
               /\ lots[l].proxies[i].roster = lots'[l].leader
               /\ lots[l].proxies[i].max >= lots'[l].bid]_vars
  BY Preserved DEF WinnerPays
<1>. QED BY InitAInv, Preserved, <1>1, PTL DEF Spec, FastWinnerPaysWithinBid
=============================================================================
