-------------------------- MODULE WaiverRunProofs ---------------------------
(***************************************************************************)
(* Decisions about waiver claims, for every number of claims, rosters,     *)
(* players and windows: a decision is final, a run leaves no claim it has  *)
(* taken up undecided, who is outbid lost to a better claim, budgets and   *)
(* successful claims agree, and a claim that won has brought its player.   *)
(***************************************************************************)
EXTENDS WaiverRun, Integers, WellFoundedInduction, FiniteSetTheorems, SequenceTheorems, TLAPS

\* A row of waiver_claims; looser than Claim, in which the windows are bounded.
ClaimRow ==
  [roster : Roster, player : Player, drop : Player \cup {None}, bid : Nat,
   order : Nat, status : ClaimStatus, run : Nat]

\* What a claim is from its submission on, whatever is decided about it.
SameClaim(x, y) ==
  /\ x.roster = y.roster /\ x.player = y.player /\ x.drop = y.drop
  /\ x.bid = y.bid /\ x.order = y.order

\* OutbidByBetter of any version of the table.
LostToBetter(cs) ==
  \A c \in DOMAIN cs : cs[c].status = "outbid" =>
    \E w \in DOMAIN cs :
      /\ cs[w].status = "successful" /\ cs[w].run = cs[c].run
      /\ cs[w].player = cs[c].player /\ cs[w].roster # cs[c].roster
      /\ mode = "faab" => cs[w].bid >= cs[c].bid

OrdersDistinct ==
  \A c, d \in Pending(claims) :
    claims[c].roster = claims[d].roster /\ claims[c].order = claims[d].order => c = d

\* The committed table.
TableInv ==
  /\ claims \in Seq(ClaimRow)
  /\ \A c \in DOMAIN claims : claims[c].order <= Len(claims)
  /\ OrdersDistinct
  /\ \A c \in Pending(claims) : claims[c].run = 0
  /\ LostToBetter(claims)

AskedInv == asked \subseteq [claim : DOMAIN claims, bid : Bids \cup {None}]

\* The run's version of the table differs from the committed one only in what
\* it has decided about the claims that are pending there.
PictureInv ==
  /\ tab.claims \in [DOMAIN claims -> ClaimRow]
  /\ \A c \in DOMAIN claims : SameClaim(tab.claims[c], claims[c])
  /\ \A c \in DOMAIN claims \ Pending(claims) : tab.claims[c] = claims[c]
  /\ \A c \in Pending(claims) : tab.claims[c].run = window
  /\ LostToBetter(tab.claims)

\* The round and the conflict group hold claims that are still to be decided.
RoundInv ==
  /\ round \subseteq Pending(tab.claims)
  /\ \A c, d \in round : tab.claims[c].roster = tab.claims[d].roster => c = d

GroupInv ==
  /\ queue \in Seq(Pending(tab.claims))
  /\ \A i \in DOMAIN queue : queue[i] \notin round
  /\ \A i, j \in DOMAIN queue : i < j =>
       /\ tab.claims[queue[i]].player = tab.claims[queue[j]].player
       /\ tab.claims[queue[i]].roster # tab.claims[queue[j]].roster
       /\ mode = "faab" => tab.claims[queue[i]].bid >= tab.claims[queue[j]].bid
  /\ step # "choose" => queue # <<>>

RunInv == step # "idle" => PictureInv /\ RoundInv /\ GroupInv

Shape ==
  /\ step \in {"idle", "choose", "drop", "add", "charge", "caught"}
  /\ hour \in Nat /\ hour # 0 /\ window \in Nat
  /\ "claims" \in DOMAIN tab
  /\ mode \in {"faab", "standard"}

DInv == Shape /\ TableInv /\ AskedInv /\ RunInv

\* The budgets b are what the claims won in cs have left.
Balanced(m, b, cs) ==
  /\ b \in [Roster -> Nat]
  /\ m = "faab" => \A r \in Roster : b[r] = InitBudget - Spent(cs, r)

\* The run has dropped d's player: d is decided, or about to be.
DropDone(d) ==
  \/ tab.claims[d].status \in {"successful", "invalid", "failed"}
  \/ step \in {"add", "charge", "caught"} /\ d = Head(queue)

\* The player of a claim that has won is on the roster, or has been dropped by
\* another claim of it.
Kept(c) ==
  \/ <<claims[c].roster, claims[c].player>> \in tab.came
  \/ \E d \in Pending(claims) :
       DropDone(d) /\ claims[d].roster = claims[c].roster /\ claims[d].drop = claims[c].player

WinsInv ==
  /\ \A c \in Pending(claims) : tab.claims[c].status = "successful" => Kept(c)
  /\ step = "charge" =>
       <<claims[Head(queue)].roster, claims[Head(queue)].player>> \in tab.came

EInv ==
  /\ DOMAIN tab = {"claims", "gone", "came", "budget", "prio"}
  /\ Balanced(mode, budget, claims)
  /\ step # "idle" => Balanced(mode, tab.budget, tab.claims) /\ WinsInv

-----------------------------------------------------------------------------
LEMMA ClaimsDomain ==
  ASSUME claims \in Seq(ClaimRow)
  PROVE  /\ Len(claims) \in Nat /\ DOMAIN claims = 1 .. Len(claims)
         /\ \A c \in DOMAIN claims : claims[c] \in ClaimRow
         /\ IsFiniteSet(DOMAIN claims)
<1>1. Len(claims) \in Nat /\ DOMAIN claims = 1 .. Len(claims)
      /\ \A c \in DOMAIN claims : claims[c] \in ClaimRow
  BY LenProperties, ElementOfSeq
<1>. QED BY <1>1, FS_Interval

\* A nonempty set of naturals with an upper bound has a greatest element.
LEMMA GreatestNatural ==
  ASSUME NEW b \in Nat, NEW T \in SUBSET Nat, T # {}, \A x \in T : x <= b
  PROVE  \E x \in T : \A y \in T : y <= x
<1>. DEFINE D == {b - x : x \in T}
            R == {p \in Nat \X Nat : p[1] < p[2]}
<1>1. D \subseteq Nat /\ D # {}
  <2>. SUFFICES ASSUME NEW x \in T PROVE b - x \in Nat
    OBVIOUS
  <2>1. x \in Nat /\ x <= b
    OBVIOUS
  <2>. QED BY <2>1
<1>2. IsWellFoundedOn(R, Nat)
  BY NatLessThanWellFounded DEF OpToRel
<1>3. PICK e \in D : \A y \in D : ~(<<y, e>> \in R)
  <2>. HIDE DEF D, R
  <2>. QED BY <1>1, <1>2, WFMin
<1>4. PICK x \in T : e = b - x
  OBVIOUS
<1>5. ASSUME NEW y \in T PROVE y <= x
  <2>1. b - y \in D /\ ~(b - y < e)
    BY <1>1, <1>3
  <2>2. x \in Int /\ y \in Int /\ b \in Int
    OBVIOUS
  <2>. HIDE DEF D, R
  <2>. QED BY <1>4, <2>1, <2>2
<1>. QED BY <1>5

\* A nonempty set of numbers up to a bound has a greatest one.
LEMMA MaxExists ==
  ASSUME NEW n \in Nat, NEW S \in SUBSET (0 .. n), S # {}
  PROVE  Max(S) \in S /\ \A x \in S : x <= Max(S)
<1>1. PICK m \in S : \A x \in S : x <= m
  <2>1. S \in SUBSET Nat /\ \A x \in S : x <= n
    OBVIOUS
  <2>. QED BY <2>1, GreatestNatural
<1>2. \A x \in S : m >= x
  BY <1>1
<1>. QED BY <1>2 DEF Max

\* The orders in which a finite set can be visited name each element once.
LEMMA OrdersVisitAll ==
  ASSUME NEW S, IsFiniteSet(S), NEW f \in RowOrders(S)
  PROVE  /\ Cardinality(S) \in Nat
         /\ f \in [1 .. Cardinality(S) -> S]
         /\ f \in Seq(S) /\ DOMAIN f = 1 .. Cardinality(S)
         /\ \A i, j \in DOMAIN f : f[i] = f[j] => i = j
         /\ \A x \in S : \E i \in DOMAIN f : f[i] = x
<1>. DEFINE n == Cardinality(S)
<1>1. n \in Nat
  BY FS_CardinalityType
<1>2. f \in [1 .. n -> S] /\ \A i, j \in DOMAIN f : f[i] = f[j] => i = j
  BY DEF RowOrders
<1>3. f \in Seq(S)
  BY <1>1, <1>2, SeqDef
<1>4. IsFiniteSet(1 .. n) /\ Cardinality(1 .. n) = n
  <2>. HIDE DEF n
  <2>1. IsFiniteSet(1 .. n) /\ (Cardinality(1 .. n) = IF 1 > n THEN 0 ELSE n - 1 + 1)
    BY <1>1, FS_Interval
  <2>. QED BY <1>1, <2>1
<1>5. f \in Injection(1 .. n, S)
  BY <1>2 DEF Injection, IsInjective
<1>6. f \in Surjection(1 .. n, S)
  BY <1>4, <1>5, FS_Injection
<1>. QED BY <1>1, <1>2, <1>3, <1>6 DEF Surjection

-----------------------------------------------------------------------------
LEMMA InitD == Init => DInv
<1>. SUFFICES ASSUME Init PROVE DInv
  OBVIOUS
<1>1. Shape
  BY DEF Init, Shape, NoTables
<1>2. TableInv /\ AskedInv
  <2>1. claims = <<>> /\ asked = {} /\ DOMAIN claims = {}
    BY DEF Init
  <2>. QED BY <2>1 DEF TableInv, AskedInv, OrdersDistinct, Pending, LostToBetter
<1>. QED BY <1>1, <1>2 DEF DInv, RunInv, Init

\* Steps that leave the table, the requests and the run alone.
LEMMA OtherSteps ==
  ASSUME DInv, mode' = mode, hour' \in Nat, hour' # 0,
         UNCHANGED <<asked, claims, step, window, round, queue, tab>>
  PROVE  DInv'
BY DEF DInv, Shape, TableInv, AskedInv, RunInv, PictureInv, RoundInv, GroupInv,
       OrdersDistinct, Pending, LostToBetter, SameClaim

\* What managers do to the table happens while no run has the lock.
LEMMA BetweenRuns ==
  ASSUME DInv, step = "idle", TableInv', AskedInv', UNCHANGED <<mode, hour, run>>
  PROVE  DInv'
BY DEF DInv, Shape, RunInv, run

LEMMA SubmitStep ==
  ASSUME DInv, NEW o \in Offers, Submit(o)
  PROVE  DInv'
<1>. USE DEF DInv, TableInv
<1>. DEFINE n == Len(claims)
            S == {claims[c].order : c \in PendingOf(o.roster)} \cup {0}
<1>0. n \in Nat /\ DOMAIN claims = 1 .. n /\ \A c \in DOMAIN claims : claims[c] \in ClaimRow
  BY ClaimsDomain
<1>1. Max(S) \in 0 .. n /\ \A x \in S : x <= Max(S)
  <2>1. S \in SUBSET (0 .. n)
    BY <1>0 DEF PendingOf, Pending, ClaimRow
  <2>. QED BY <1>0, <2>1, MaxExists
<1>2. NewClaim(o) \in ClaimRow /\ NewClaim(o).order = Max(S) + 1
  <2>1. o \in Offer
    BY OffersAssumption
  <2>. QED BY <1>0, <1>1, <2>1 DEF NewClaim, NextOrder, ClaimRow, Offer, ClaimStatus
<1>3. /\ claims' \in Seq(ClaimRow) /\ Len(claims') = n + 1 /\ DOMAIN claims' = 1 .. (n + 1)
      /\ claims'[n + 1] = NewClaim(o) /\ \A c \in DOMAIN claims : claims'[c] = claims[c]
  BY <1>0, <1>2 DEF Submit
<1>4. TableInv'
  <2>1. \A c \in DOMAIN claims' : claims'[c].order <= Len(claims')
    <3>1. Max(S) + 1 <= n + 1
      <4>. HIDE DEF S
      <4>. QED BY <1>0, <1>1
    <3>2. \A c \in DOMAIN claims : claims[c].order \in Nat /\ claims[c].order <= n
      BY <1>0 DEF ClaimRow
    <3>. HIDE DEF S, n
    <3>. QED BY <1>0, <1>2, <1>3, <3>1, <3>2
  <2>2. Pending(claims') = Pending(claims) \cup {n + 1}
    BY <1>0, <1>3 DEF Pending, NewClaim
  <2>3. OrdersDistinct'
    <3>. SUFFICES ASSUME NEW c \in Pending(claims), claims[c].roster = o.roster
                  PROVE  claims[c].order # NewClaim(o).order
      BY <1>3, <2>2 DEF OrdersDistinct, Pending, NewClaim
    <3>1. claims[c].order <= Max(S)
      <4>1. claims[c].order \in S
        BY DEF PendingOf
      <4>. HIDE DEF S
      <4>. QED BY <1>1, <4>1
    <3>2. claims[c].order \in Nat
      BY <1>0 DEF ClaimRow, Pending
    <3>. HIDE DEF S, n
    <3>. QED BY <1>0, <1>1, <1>2, <3>1, <3>2
  <2>4. \A c \in Pending(claims') : claims'[c].run = 0
    BY <1>0, <1>3, <2>2 DEF NewClaim, Pending
  <2>5. LostToBetter(claims)' 
    <3>1. mode' = mode
      BY DEF Submit, user
    <3>. QED BY <1>0, <1>3, <3>1 DEF LostToBetter, NewClaim
  <2>. QED BY <1>3, <2>1, <2>3, <2>4, <2>5
<1>5. AskedInv'
  BY <1>0, <1>3 DEF AskedInv, Submit, user
<1>. QED BY <1>4, <1>5, BetweenRuns DEF Submit, LockFree, user

\* A request changes the bid or cancels a claim that is pending.
LEMMA EditedTable ==
  ASSUME TableInv, NEW c \in Pending(claims), NEW x \in ClaimRow,
         x.roster = claims[c].roster, x.order = claims[c].order, x.run = claims[c].run,
         x.status \in {"pending", "cancelled"},
         claims' = [claims EXCEPT ![c] = x], mode' = mode
  PROVE  TableInv' /\ DOMAIN claims' = DOMAIN claims
<1>. USE DEF TableInv
<1>1. Len(claims) \in Nat /\ DOMAIN claims = 1 .. Len(claims)
  BY ClaimsDomain
<1>2. c \in 1 .. Len(claims)
  BY <1>1 DEF Pending
<1>3. /\ claims' \in Seq(ClaimRow) /\ Len(claims') = Len(claims) /\ DOMAIN claims' = DOMAIN claims
      /\ \A d \in DOMAIN claims : claims'[d] = IF d = c THEN x ELSE claims[d]
  BY <1>1, <1>2, ExceptSeq
<1>4. \A d \in DOMAIN claims' : claims'[d].order <= Len(claims')
  BY <1>3 DEF Pending
<1>5. OrdersDistinct' /\ \A d \in Pending(claims') : claims'[d].run = 0
  BY <1>3 DEF OrdersDistinct, Pending
<1>6. LostToBetter(claims)'
  <2>. SUFFICES ASSUME NEW d \in DOMAIN claims, claims'[d].status = "outbid"
                PROVE  \E w \in DOMAIN claims' :
                         /\ claims'[w].status = "successful" /\ claims'[w].run = claims'[d].run
                         /\ claims'[w].player = claims'[d].player
                         /\ claims'[w].roster # claims'[d].roster
                         /\ mode' = "faab" => claims'[w].bid >= claims'[d].bid
    BY <1>3 DEF LostToBetter
  <2>1. d # c /\ claims'[d] = claims[d]
    BY <1>3
  <2>2. PICK w \in DOMAIN claims :
          /\ claims[w].status = "successful" /\ claims[w].run = claims[d].run
          /\ claims[w].player = claims[d].player /\ claims[w].roster # claims[d].roster
          /\ mode = "faab" => claims[w].bid >= claims[d].bid
    BY <2>1 DEF LostToBetter
  <2>3. w # c /\ claims'[w] = claims[w]
    BY <1>3, <2>2 DEF Pending
  <2>. QED BY <1>3, <2>1, <2>2, <2>3
<1>. QED BY <1>3, <1>4, <1>5, <1>6

\* Cancelling and editing touch a claim that is pending when the lock is held.
LEMMA EditsPending ==
  ASSUME DInv, NEW a \in asked, Cancel(a) \/ EditBid(a)
  PROVE  \/ claims' = claims
         \/ \E c \in Pending(claims), s \in {"pending", "cancelled"}, b \in Nat :
              claims' = [claims EXCEPT ![c] = [claims[c] EXCEPT !.status = s, !.bid = b]]
<1>. USE DEF DInv
<1>1. ASSUME NEW c \in Pending(claims)
      PROVE  claims[c] \in ClaimRow /\ claims[c].status = "pending"
  BY ClaimsDomain DEF TableInv, Pending
<1>2. CASE Cancel(a)
  <2>1. CASE a.claim \in Pending(claims)
    <3>1. claims' = [claims EXCEPT ![a.claim] =
                       [claims[a.claim] EXCEPT !.status = "cancelled", !.bid = claims[a.claim].bid]]
      BY <1>1, <1>2, <2>1 DEF Cancel, CancelIfPending, ClaimRow
    <3>. QED BY <1>1, <2>1, <3>1 DEF ClaimRow
  <2>2. CASE a.claim \notin Pending(claims)
    BY <1>2, <2>2 DEF Cancel, CancelIfPending
  <2>. QED BY <2>1, <2>2
<1>3. CASE EditBid(a)
  <2>1. a.claim \in DOMAIN claims /\ a.bid \in Nat
    BY <1>3, OffersAssumption DEF EditBid, AskedInv
  <2>2. CASE claims' # claims
    <3>1. a.claim \in Pending(claims)
      BY <1>3, <2>1, <2>2 DEF EditBid, Pending
    <3>2. claims' = [claims EXCEPT ![a.claim] =
                       [claims[a.claim] EXCEPT !.status = "pending", !.bid = a.bid]]
      BY <1>1, <1>3, <2>2, <3>1 DEF EditBid, UpdateBid, ClaimRow
    <3>. QED BY <2>1, <3>1, <3>2
  <2>. QED BY <2>2
<1>. QED BY <1>2, <1>3

\* The other requests of managers.
LEMMA RequestStep ==
  ASSUME DInv,
         \/ \E c \in DOMAIN claims, b \in Bids \cup {None} : Ask(c, b)
         \/ \E a \in asked : Cancel(a) \/ EditBid(a)
  PROVE  DInv'
<1>. USE DEF DInv
<1>1. ASSUME NEW c \in DOMAIN claims, NEW b \in Bids \cup {None}, Ask(c, b) PROVE DInv'
  <2>1. AskedInv'
    BY <1>1 DEF Ask, AskedInv, tables
  <2>. QED BY <1>1, <2>1 DEF Ask, tables, run, Shape, TableInv, RunInv, PictureInv, RoundInv,
       GroupInv, OrdersDistinct, Pending, LostToBetter, SameClaim
<1>2. ASSUME NEW a \in asked, Cancel(a) \/ EditBid(a) PROVE DInv'
  <2>1. step = "idle" /\ asked' \subseteq asked /\ UNCHANGED <<mode, hour, run>>
    BY <1>2 DEF Cancel, EditBid, LockFree
  <2>2. \/ claims' = claims
        \/ \E c \in Pending(claims), s \in {"pending", "cancelled"}, b \in Nat :
             claims' = [claims EXCEPT ![c] = [claims[c] EXCEPT !.status = s, !.bid = b]]
    BY <1>2, EditsPending
  <2>3. TableInv' /\ DOMAIN claims' = DOMAIN claims
    <3>1. CASE claims' = claims
      BY <2>1, <3>1 DEF TableInv, OrdersDistinct, Pending, LostToBetter
    <3>2. ASSUME NEW c \in Pending(claims), NEW s \in {"pending", "cancelled"}, NEW b \in Nat,
                 claims' = [claims EXCEPT ![c] = [claims[c] EXCEPT !.status = s, !.bid = b]]
          PROVE  TableInv' /\ DOMAIN claims' = DOMAIN claims
      <4>. DEFINE x == [claims[c] EXCEPT !.status = s, !.bid = b]
      <4>1. claims[c] \in ClaimRow
        BY ClaimsDomain DEF TableInv, Pending
      <4>2. /\ x \in ClaimRow /\ x.roster = claims[c].roster /\ x.order = claims[c].order
            /\ x.run = claims[c].run /\ x.status \in {"pending", "cancelled"}
        BY <4>1 DEF ClaimRow, ClaimStatus
      <4>. HIDE DEF x
      <4>. QED BY <2>1, <3>2, <4>2, EditedTable DEF x
    <3>. QED BY <2>2, <3>1, <3>2
  <2>4. AskedInv'
    BY <2>1, <2>3 DEF AskedInv
  <2>. QED BY <2>1, <2>3, <2>4, BetweenRuns
<1>. QED BY <1>1, <1>2

\* reorderClaims gives the pending claims of a roster distinct numbers.
LEMMA ReorderStep ==
  ASSUME DInv, NEW r \in Roster, Reorder(r)
  PROVE  DInv'
<1>. USE DEF DInv, TableInv
<1>. DEFINE P == PendingOf(r)
            n == Len(claims)
<1>0. n \in Nat /\ DOMAIN claims = 1 .. n /\ \A c \in DOMAIN claims : claims[c] \in ClaimRow
  BY ClaimsDomain
<1>1. IsFiniteSet(P) /\ Cardinality(P) \in Nat /\ Cardinality(P) <= n /\ P \subseteq DOMAIN claims
  <2>1. P \in SUBSET DOMAIN claims /\ IsFiniteSet(DOMAIN claims)
    BY ClaimsDomain DEF PendingOf, Pending
  <2>2. Cardinality(DOMAIN claims) = n
    <3>1. Cardinality(1 .. n) = IF 1 > n THEN 0 ELSE n - 1 + 1
      <4>. HIDE DEF n
      <4>. QED BY <1>0, FS_Interval
    <3>. QED BY <1>0, <3>1
  <2>. HIDE DEF P, n
  <2>3. IsFiniteSet(P) /\ Cardinality(P) <= Cardinality(DOMAIN claims)
    BY <2>1, FS_Subset
  <2>4. Cardinality(P) \in Nat
    BY <2>3, FS_CardinalityType
  <2>. QED BY <2>1, <2>2, <2>3, <2>4
<1>2. PICK order \in RowOrders(P) : Renumber(P, order)
  BY DEF Reorder
<1>. DEFINE new == [c \in P |-> CHOOSE i \in DOMAIN order : order[i] = c]
<1>3. \A c \in P : new[c] \in 1 .. Cardinality(P) /\ order[new[c]] = c
  <2>. HIDE DEF P
  <2>1. DOMAIN order = 1 .. Cardinality(P) /\ \A c \in P : \E i \in DOMAIN order : order[i] = c
    BY <1>1, OrdersVisitAll
  <2>. QED BY <2>1
<1>4. claims' = [c \in DOMAIN claims |->
                   IF c \in P THEN [claims[c] EXCEPT !.order = new[c]] ELSE claims[c]]
  BY <1>2 DEF Renumber
<1>5. /\ DOMAIN claims' = 1 .. n
      /\ \A c \in DOMAIN claims : claims'[c] \in ClaimRow
      /\ \A c \in P : claims'[c] = [claims[c] EXCEPT !.order = new[c]]
      /\ \A c \in DOMAIN claims \ P : claims'[c] = claims[c]
  <2>1. \A c \in P : new[c] \in Nat
    <3>. HIDE DEF new, P
    <3>. QED BY <1>1, <1>3
  <2>. HIDE DEF P, n, new
  <2>. QED BY <1>0, <1>1, <1>4, <2>1 DEF ClaimRow
<1>. HIDE DEF new
<1>6. claims' \in Seq(ClaimRow) /\ Len(claims') = n
  <2>1. claims' \in [1 .. n -> ClaimRow]
    BY <1>0, <1>4, <1>5
  <2>. QED BY <1>0, <2>1, SeqDef
<1>7. \A c \in DOMAIN claims : /\ claims'[c].roster = claims[c].roster
                               /\ claims'[c].player = claims[c].player
                               /\ claims'[c].bid = claims[c].bid
                               /\ claims'[c].run = claims[c].run
                               /\ claims'[c].status = claims[c].status
  <2>. SUFFICES ASSUME NEW c \in DOMAIN claims
                PROVE  /\ claims'[c].roster = claims[c].roster
                       /\ claims'[c].player = claims[c].player
                       /\ claims'[c].bid = claims[c].bid
                       /\ claims'[c].run = claims[c].run
                       /\ claims'[c].status = claims[c].status
    OBVIOUS
  <2>. HIDE DEF P
  <2>1. claims[c] \in ClaimRow
    BY <1>0
  <2>2. CASE c \in P
    BY <1>5, <2>1, <2>2 DEF ClaimRow
  <2>3. CASE c \notin P
    BY <1>5, <2>3
  <2>. QED BY <2>2, <2>3
<1>8. \A c \in P : claims'[c].order = new[c]
  <2>. HIDE DEF P
  <2>. QED BY <1>0, <1>1, <1>5 DEF ClaimRow
<1>9. \A c \in DOMAIN claims' : claims'[c].order <= Len(claims')
  <2>. HIDE DEF P, n
  <2>. QED BY <1>0, <1>1, <1>3, <1>5, <1>6, <1>8
<1>10. OrdersDistinct'
  <2>. SUFFICES ASSUME NEW c \in Pending(claims'), NEW d \in Pending(claims'),
                       claims'[c].roster = claims'[d].roster, claims'[c].order = claims'[d].order
                PROVE  c = d
    BY DEF OrdersDistinct
  <2>1. c \in Pending(claims) /\ d \in Pending(claims) /\ claims[c].roster = claims[d].roster
    BY <1>0, <1>5, <1>7 DEF Pending
  <2>2. c \in P <=> d \in P
    BY <2>1 DEF PendingOf
  <2>3. CASE c \in P
    BY <1>3, <1>8, <2>2, <2>3
  <2>4. CASE c \notin P
    BY <1>5, <2>1, <2>2, <2>4 DEF OrdersDistinct, Pending
  <2>. QED BY <2>3, <2>4
<1>11. \A c \in Pending(claims') : claims'[c].run = 0
  BY <1>0, <1>5, <1>7 DEF Pending
<1>12. LostToBetter(claims)'
  <2>1. mode' = mode
    BY DEF Reorder, user
  <2>. QED BY <1>0, <1>5, <1>7, <2>1 DEF LostToBetter
<1>13. AskedInv'
  BY <1>0, <1>5 DEF AskedInv, Reorder, user
<1>. QED BY <1>6, <1>9, <1>10, <1>11, <1>12, <1>13, BetweenRuns DEF Reorder, LockFree, user

-----------------------------------------------------------------------------
(* The run                                                                 *)

\* A claim that is pending in the picture is pending in the table.
LEMMA PictureAgrees ==
  ASSUME DInv, step # "idle"
  PROVE  /\ Pending(tab.claims) \subseteq Pending(claims)
         /\ \A c \in Pending(tab.claims) : /\ tab.claims[c] \in ClaimRow
                                           /\ tab.claims[c].run = window
                                           /\ tab.claims[c].status = "pending"
         /\ IsFiniteSet(Pending(tab.claims))
<1>. USE DEF DInv, RunInv, PictureInv, Pending
<1>1. Pending(tab.claims) \subseteq Pending(claims)
  OBVIOUS
<1>2. IsFiniteSet(DOMAIN claims)
  BY ClaimsDomain DEF TableInv
<1>3. IsFiniteSet(Pending(tab.claims))
  BY <1>2, FS_Subset
<1>. QED BY <1>1, <1>3

LEMMA StartRunStep ==
  ASSUME DInv, StartRun
  PROVE  DInv'
<1>. USE DEF DInv
<1>0. DOMAIN claims = 1 .. Len(claims) /\ \A c \in DOMAIN claims : claims[c] \in ClaimRow
  BY ClaimsDomain DEF TableInv
<1>1. /\ step' = "choose" /\ round' = {} /\ queue' = <<>> /\ window' = hour
      /\ tab'.claims = Snapshot /\ "claims" \in DOMAIN tab'
      /\ UNCHANGED <<mode, hour, asked, claims>>
  BY DEF StartRun, user, tables
<1>2. Untaken = Pending(claims)
  BY DEF Untaken, TableInv, Pending
<1>3. /\ DOMAIN Snapshot = DOMAIN claims
      /\ \A c \in Pending(claims) : Snapshot[c] = [claims[c] EXCEPT !.run = hour]
      /\ \A c \in DOMAIN claims \ Pending(claims) : Snapshot[c] = claims[c]
  BY <1>2 DEF Snapshot, Pending
<1>4. \A c \in Pending(claims) : /\ Snapshot[c] \in ClaimRow /\ SameClaim(Snapshot[c], claims[c])
                                 /\ Snapshot[c].run = hour /\ Snapshot[c].status = "pending"
  BY <1>0, <1>3 DEF ClaimRow, SameClaim, Shape, Pending
<1>5. LostToBetter(Snapshot)
  <2>. SUFFICES ASSUME NEW c \in DOMAIN claims, Snapshot[c].status = "outbid"
                PROVE  \E w \in DOMAIN Snapshot :
                         /\ Snapshot[w].status = "successful" /\ Snapshot[w].run = Snapshot[c].run
                         /\ Snapshot[w].player = Snapshot[c].player
                         /\ Snapshot[w].roster # Snapshot[c].roster
                         /\ mode = "faab" => Snapshot[w].bid >= Snapshot[c].bid
    BY <1>3 DEF LostToBetter
  <2>1. Snapshot[c] = claims[c]
    BY <1>3, <1>4
  <2>2. PICK w \in DOMAIN claims :
          /\ claims[w].status = "successful" /\ claims[w].run = claims[c].run
          /\ claims[w].player = claims[c].player /\ claims[w].roster # claims[c].roster
          /\ mode = "faab" => claims[w].bid >= claims[c].bid
    BY <2>1 DEF TableInv, LostToBetter
  <2>3. Snapshot[w] = claims[w]
    BY <1>3, <2>2 DEF Pending
  <2>. QED BY <1>3, <2>1, <2>2, <2>3
<1>6. PictureInv'
  <2>1. Snapshot \in [DOMAIN claims -> ClaimRow]
    <3>1. \A c \in DOMAIN claims : Snapshot[c] \in ClaimRow
      BY <1>0, <1>3, <1>4
    <3>2. Snapshot = [c \in DOMAIN claims |-> Snapshot[c]]
      BY DEF Snapshot
    <3>. QED BY <3>1, <3>2
  <2>2. \A c \in DOMAIN claims : SameClaim(Snapshot[c], claims[c])
    BY <1>3, <1>4 DEF SameClaim
  <2>3. LostToBetter(tab.claims)'
    BY <1>1, <1>5 DEF LostToBetter
  <2>4. Pending(claims') = Pending(claims)
    BY <1>1
  <2>. QED BY <1>1, <1>3, <1>4, <2>1, <2>2, <2>3, <2>4 DEF PictureInv
<1>7. RoundInv' /\ GroupInv'
  BY <1>1 DEF RoundInv, GroupInv
<1>8. Shape' /\ TableInv' /\ AskedInv'
  BY <1>1 DEF Shape, TableInv, AskedInv, OrdersDistinct, Pending, LostToBetter
<1>. QED BY <1>6, <1>7, <1>8 DEF RunInv

\* What a step of the run leaves as it is.
LEMMA RunOnly ==
  ASSUME DInv, UNCHANGED <<user, claims>>
  PROVE  TableInv' /\ AskedInv' /\ mode' = mode /\ hour' = hour
BY DEF DInv, user, TableInv, AskedInv, OrdersDistinct, Pending, LostToBetter

\* Steps of the run that decide nothing.
LEMMA SamePicture ==
  ASSUME DInv, step # "idle", UNCHANGED <<user, claims, window>>, tab'.claims = tab.claims
  PROVE  PictureInv'
BY DEF DInv, RunInv, PictureInv, user, Pending, LostToBetter

LEMMA NextRoundStep ==
  ASSUME DInv, NextRound
  PROVE  DInv'
<1>. USE DEF DInv
<1>1. /\ step = "choose" /\ queue = <<>> /\ round' \subseteq Open
      /\ UNCHANGED <<user, claims, step, window, queue, tab>>
      /\ \A c \in round', d \in Open : tab.claims[d].roster = tab.claims[c].roster
           => tab.claims[c].order <= tab.claims[d].order
  BY DEF NextRound, tables
<1>2. \A c, d \in round' : tab.claims[c].roster = tab.claims[d].roster => c = d
  <2>. SUFFICES ASSUME NEW c \in round', NEW d \in round',
                       tab.claims[c].roster = tab.claims[d].roster
                PROVE  c = d
    OBVIOUS
  <2>1. c \in Pending(tab.claims) /\ d \in Pending(tab.claims)
    BY <1>1 DEF Open
  <2>2. c \in Pending(claims) /\ d \in Pending(claims)
        /\ tab.claims[c].order \in Nat /\ tab.claims[d].order \in Nat
    BY <1>1, <2>1, PictureAgrees DEF ClaimRow
  <2>3. tab.claims[c].order = tab.claims[d].order
    BY <1>1, <2>2
  <2>. QED BY <1>1, <2>2, <2>3 DEF RunInv, PictureInv, SameClaim, TableInv, OrdersDistinct, Pending
<1>3. RoundInv' /\ GroupInv'
  BY <1>1, <1>2 DEF RoundInv, GroupInv, Open, Pending
<1>4. PictureInv' /\ TableInv' /\ AskedInv' /\ Shape'
  BY <1>1, SamePicture, RunOnly DEF Shape
<1>. QED BY <1>3, <1>4 DEF RunInv

LEMMA NextGroupStep ==
  ASSUME DInv, NextGroup
  PROVE  DInv'
<1>. USE DEF DInv
<1>1. PICK group \in SUBSET round :
        /\ step = "choose" /\ queue' \in Ranked(group) /\ round' = round \ group
        /\ UNCHANGED <<user, claims, step, window, tab>>
        /\ \A c, d \in group : tab.claims[c].player = tab.claims[d].player
  <2>. DEFINE first == CHOOSE c \in round : \A d \in round :
                         tab.claims[c].roster <= tab.claims[d].roster
              G == {c \in round : tab.claims[c].player = tab.claims[first].player}
  <2>1. /\ step = "choose" /\ queue' \in Ranked(G) /\ round' = round \ G
        /\ UNCHANGED <<user, tables, step, window, tab>>
    BY Zenon DEF NextGroup
  <2>2. \A c, d \in G : tab.claims[c].player = tab.claims[d].player
    OBVIOUS
  <2>3. G \in SUBSET round
    OBVIOUS
  <2>. HIDE DEF G
  <2>. QED BY <2>1, <2>2, <2>3 DEF tables
<1>2. RoundInv
  BY <1>1 DEF RunInv
<1>3. IsFiniteSet(group) /\ group \subseteq Pending(tab.claims)
  <2>1. group \subseteq Pending(tab.claims)
    BY <1>2 DEF RoundInv
  <2>. QED BY <1>1, <2>1, PictureAgrees, FS_Subset
<1>4. /\ queue' \in Seq(group)
      /\ \A i \in DOMAIN queue' : queue'[i] \in group
      /\ \A i, j \in DOMAIN queue' : queue'[i] = queue'[j] => i = j
      /\ DOMAIN queue' \subseteq Nat
  BY <1>1, <1>3, OrdersVisitAll DEF Ranked
<1>5. queue' \in Seq(Pending(tab.claims))
  BY <1>3, <1>4, SeqMonotonic
<1>6. \A i, j \in DOMAIN queue' : i < j =>
        /\ tab.claims[queue'[i]].roster # tab.claims[queue'[j]].roster
        /\ mode = "faab" => tab.claims[queue'[i]].bid >= tab.claims[queue'[j]].bid
  <2>. SUFFICES ASSUME NEW i \in DOMAIN queue', NEW j \in DOMAIN queue', i < j
                PROVE  /\ tab.claims[queue'[i]].roster # tab.claims[queue'[j]].roster
                       /\ mode = "faab" => tab.claims[queue'[i]].bid >= tab.claims[queue'[j]].bid
    OBVIOUS
  <2>1. queue'[i] # queue'[j] /\ queue'[i] \in group /\ queue'[j] \in group
    BY <1>4
  <2>2. tab.claims[queue'[i]].bid \in Nat /\ tab.claims[queue'[j]].bid \in Nat
    BY <1>1, <1>3, <2>1, PictureAgrees DEF ClaimRow
  <2>3. Beats(queue'[i], queue'[j])
    BY <1>1 DEF Ranked
  <2>. QED BY <1>2, <2>1, <2>2, <2>3 DEF RoundInv, Beats
<1>7. RoundInv'
  BY <1>1, <1>2 DEF RoundInv, Pending
<1>8. GroupInv'
  BY <1>1, <1>4, <1>5, <1>6 DEF GroupInv, user, Pending
<1>9. PictureInv' /\ TableInv' /\ AskedInv' /\ Shape'
  BY <1>1, SamePicture, RunOnly DEF Shape
<1>. QED BY <1>7, <1>8, <1>9 DEF RunInv

\* The run moves on to the next statement about the same candidate.
LEMMA AdvanceStep ==
  ASSUME DInv, step # "idle", step' \in {"drop", "add", "charge", "caught"}, queue # <<>>,
         UNCHANGED <<user, claims, window, round, queue>>, tab'.claims = tab.claims,
         "claims" \in DOMAIN tab'
  PROVE  DInv'
<1>1. PictureInv' /\ TableInv' /\ AskedInv' /\ mode' = mode /\ hour' = hour
  BY SamePicture, RunOnly
<1>2. RoundInv' /\ GroupInv'
  BY <1>1 DEF DInv, RunInv, RoundInv, GroupInv, Pending
<1>. QED BY <1>1, <1>2 DEF DInv, RunInv, Shape

\* Claims of the run's picture are decided, candidates of the group only.
LEMMA DecidedPicture ==
  ASSUME DInv, step # "idle", UNCHANGED <<user, claims, window, round>>,
         tab'.claims = [c \in DOMAIN tab.claims |-> tab'.claims[c]],
         LostToBetter(tab.claims)',
         \A c \in DOMAIN claims :
           \/ tab'.claims[c] = tab.claims[c]
           \/ /\ \E i \in DOMAIN queue : c = queue[i]
              /\ \E s \in ClaimStatus : tab'.claims[c] = [tab.claims[c] EXCEPT !.status = s]
  PROVE  PictureInv' /\ RoundInv'
<1>. USE DEF DInv, RunInv
<1>1. \A i \in DOMAIN queue : queue[i] \in Pending(tab.claims) /\ queue[i] \notin round
  BY ElementOfSeq, LenProperties DEF GroupInv
<1>2. ASSUME NEW c \in DOMAIN claims, tab'.claims[c] # tab.claims[c]
      PROVE  /\ c \in Pending(claims) /\ c \notin round
             /\ tab'.claims[c] \in ClaimRow /\ SameClaim(tab'.claims[c], claims[c])
             /\ tab'.claims[c].run = window
  <2>1. c \in Pending(tab.claims) /\ c \notin round
    BY <1>1, <1>2
  <2>2. c \in Pending(claims) /\ tab.claims[c] \in ClaimRow /\ tab.claims[c].run = window
        /\ SameClaim(tab.claims[c], claims[c])
    BY <2>1, PictureAgrees DEF PictureInv
  <2>3. PICK s \in ClaimStatus : tab'.claims[c] = [tab.claims[c] EXCEPT !.status = s]
    BY <1>2
  <2>. QED BY <2>1, <2>2, <2>3 DEF ClaimRow, SameClaim
<1>3. PictureInv'
  BY <1>2 DEF PictureInv, Pending, user
<1>4. RoundInv'
  BY <1>2 DEF PictureInv, RoundInv, Pending
<1>. QED BY <1>3, <1>4

LEMMA TurnDownStep ==
  ASSUME DInv, step # "idle", queue # <<>>, NEW s \in {"invalid", "failed"}, TurnDown(s)
  PROVE  DInv'
<1>. USE DEF DInv, RunInv
<1>0. /\ UNCHANGED <<user, claims, window, round>> /\ step' = "choose" /\ queue' = Tail(queue)
      /\ tab' = [tab EXCEPT !.claims = Decided(tab.claims, {Head(queue)}, s)]
  BY DEF TurnDown, tables
<1>. DEFINE h == Head(queue)
<1>1. /\ queue \in Seq(Pending(tab.claims)) /\ h \in Pending(tab.claims) /\ h = queue[1]
      /\ 1 \in DOMAIN queue
      /\ Tail(queue) \in Seq(Pending(tab.claims)) /\ Len(Tail(queue)) = Len(queue) - 1
      /\ Len(queue) \in Nat /\ DOMAIN queue = 1 .. Len(queue)
      /\ DOMAIN Tail(queue) = 1 .. Len(Tail(queue))
      /\ \A i \in DOMAIN Tail(queue) : Tail(queue)[i] = queue[i + 1]
  BY HeadTailProperties, LenProperties, EmptySeq DEF GroupInv
<1>2. /\ tab'.claims = Decided(tab.claims, {h}, s) /\ "claims" \in DOMAIN tab'
      /\ tab'.claims = [c \in DOMAIN tab.claims |-> tab'.claims[c]]
      /\ \A c \in DOMAIN tab.claims : tab'.claims[c] =
           IF c = h THEN [tab.claims[c] EXCEPT !.status = s] ELSE tab.claims[c]
  BY <1>0 DEF Shape, Decided
<1>3. tab.claims[h] \in ClaimRow /\ tab'.claims[h].status = s /\ h \in DOMAIN tab.claims
      /\ tab.claims[h].status = "pending"
  BY <1>1, <1>2, PictureAgrees DEF Pending, ClaimRow
<1>. HIDE DEF h
<1>4. LostToBetter(tab.claims)'
  <2>. SUFFICES ASSUME NEW c \in DOMAIN tab.claims, tab'.claims[c].status = "outbid"
                PROVE  \E w \in DOMAIN tab'.claims :
                         /\ tab'.claims[w].status = "successful"
                         /\ tab'.claims[w].run = tab'.claims[c].run
                         /\ tab'.claims[w].player = tab'.claims[c].player
                         /\ tab'.claims[w].roster # tab'.claims[c].roster
                         /\ mode' = "faab" => tab'.claims[w].bid >= tab'.claims[c].bid
    BY <1>2 DEF LostToBetter
  <2>1. tab'.claims[c] = tab.claims[c]
    BY <1>2, <1>3
  <2>2. PICK w \in DOMAIN tab.claims :
          /\ tab.claims[w].status = "successful" /\ tab.claims[w].run = tab.claims[c].run
          /\ tab.claims[w].player = tab.claims[c].player
          /\ tab.claims[w].roster # tab.claims[c].roster
          /\ mode = "faab" => tab.claims[w].bid >= tab.claims[c].bid
    BY <2>1 DEF PictureInv, LostToBetter
  <2>3. tab'.claims[w] = tab.claims[w]
    BY <1>2, <1>3, <2>2
  <2>. QED BY <1>0, <1>2, <2>1, <2>2, <2>3 DEF user
<1>5. PictureInv' /\ RoundInv'
  <2>1. s \in ClaimStatus
    BY DEF ClaimStatus
  <2>2. DOMAIN tab.claims = DOMAIN claims
    BY DEF PictureInv
  <2>. QED BY <1>0, <1>1, <1>2, <1>4, <2>1, <2>2, DecidedPicture
<1>6. GroupInv'
  <2>1. \A i \in DOMAIN Tail(queue) : /\ i + 1 \in DOMAIN queue /\ Tail(queue)[i] = queue[i + 1]
                                     /\ i \in Nat /\ queue[i + 1] # h
                                     /\ queue[i + 1] \in Pending(tab.claims)
    <3>. SUFFICES ASSUME NEW i \in DOMAIN Tail(queue)
                  PROVE  /\ i + 1 \in DOMAIN queue /\ Tail(queue)[i] = queue[i + 1]
                         /\ i \in Nat /\ queue[i + 1] # h
                         /\ queue[i + 1] \in Pending(tab.claims)
      OBVIOUS
    <3>1. i \in Nat /\ i + 1 \in DOMAIN queue /\ 1 < i + 1
      BY <1>1
    <3>2. tab.claims[queue[1]].roster # tab.claims[queue[i + 1]].roster
      BY <1>1, <3>1 DEF GroupInv
    <3>3. queue[i + 1] \in Pending(tab.claims)
      BY <1>1, <3>1, ElementOfSeq
    <3>. QED BY <1>1, <3>1, <3>2, <3>3
  <2>2. \A i \in DOMAIN queue' : /\ queue'[i] = queue[i + 1]
                                /\ tab'.claims[queue'[i]] = tab.claims[queue[i + 1]]
                                /\ queue'[i] \in Pending(tab'.claims)
    <3>. SUFFICES ASSUME NEW i \in DOMAIN Tail(queue)
                  PROVE  /\ tab'.claims[queue[i + 1]] = tab.claims[queue[i + 1]]
                         /\ queue[i + 1] \in Pending(tab'.claims)
      BY <1>0, <2>1
    <3>1. queue[i + 1] \in DOMAIN tab.claims /\ tab.claims[queue[i + 1]].status = "pending"
      BY <2>1 DEF Pending
    <3>2. queue[i + 1] # h
      BY <2>1
    <3>3. tab'.claims[queue[i + 1]] = tab.claims[queue[i + 1]]
      BY <1>2, <3>1, <3>2
    <3>. QED BY <1>2, <3>1, <3>3 DEF Pending
  <2>3. queue' \in Seq(Pending(tab'.claims))
    <3>1. queue' \in [1 .. Len(Tail(queue)) -> Pending(tab'.claims)]
      BY <1>0, <1>1, <2>2, LenProperties
    <3>. QED BY <1>1, <3>1, SeqDef
  <2>4. \A i \in DOMAIN queue' : queue'[i] \notin round'
    BY <1>0, <2>1, <2>2 DEF GroupInv
  <2>5. \A i, j \in DOMAIN queue' : i < j => i + 1 < j + 1
    BY <1>0, <2>1
  <2>6. \A i, j \in DOMAIN queue' : i < j =>
          /\ tab'.claims[queue'[i]].player = tab'.claims[queue'[j]].player
          /\ tab'.claims[queue'[i]].roster # tab'.claims[queue'[j]].roster
          /\ mode' = "faab" => tab'.claims[queue'[i]].bid >= tab'.claims[queue'[j]].bid
    <3>. SUFFICES ASSUME NEW i \in DOMAIN queue', NEW j \in DOMAIN queue', i < j
                  PROVE  /\ tab'.claims[queue'[i]].player = tab'.claims[queue'[j]].player
                         /\ tab'.claims[queue'[i]].roster # tab'.claims[queue'[j]].roster
                         /\ mode' = "faab" => tab'.claims[queue'[i]].bid >= tab'.claims[queue'[j]].bid
      OBVIOUS
    <3>1. /\ tab'.claims[queue'[i]] = tab.claims[queue[i + 1]]
          /\ tab'.claims[queue'[j]] = tab.claims[queue[j + 1]]
      BY <2>2
    <3>2. i + 1 \in DOMAIN queue /\ j + 1 \in DOMAIN queue /\ i + 1 < j + 1
      BY <1>0, <2>1, <2>5
    <3>3. mode' = mode
      BY <1>0 DEF user
    <3>. QED BY <3>1, <3>2, <3>3 DEF GroupInv
  <2>. QED BY <1>0, <2>3, <2>4, <2>6 DEF GroupInv
<1>7. TableInv' /\ AskedInv' /\ Shape'
  BY <1>0, <1>2, RunOnly DEF Shape
<1>. QED BY <1>5, <1>6, <1>7

\* The winner of a group is its first candidate, and the others lose to him.
LEMMA WinStep ==
  ASSUME DInv, step # "idle", queue # <<>>, NEW newBudget, NEW newPrio, Win(newBudget, newPrio)
  PROVE  DInv'
<1>. USE DEF DInv, RunInv
<1>. DEFINE h == Head(queue)
            rest == {Tail(queue)[i] : i \in DOMAIN Tail(queue)}
<1>0. /\ UNCHANGED <<user, claims, window, round>> /\ step' = "choose" /\ queue' = <<>>
      /\ "claims" \in DOMAIN tab'
      /\ tab'.claims = Decided(Decided(tab.claims, {h}, "successful"), rest, "outbid")
  BY DEF Win, tables, Shape
<1>1. /\ queue \in Seq(Pending(tab.claims)) /\ h \in Pending(tab.claims) /\ h = queue[1]
      /\ 1 \in DOMAIN queue
      /\ Tail(queue) \in Seq(Pending(tab.claims)) /\ Len(Tail(queue)) = Len(queue) - 1
      /\ Len(queue) \in Nat /\ DOMAIN queue = 1 .. Len(queue)
      /\ DOMAIN Tail(queue) = 1 .. Len(Tail(queue))
      /\ \A i \in DOMAIN Tail(queue) : Tail(queue)[i] = queue[i + 1]
  BY HeadTailProperties, LenProperties, EmptySeq DEF GroupInv
<1>2. ASSUME NEW c \in rest
      PROVE  /\ c \in Pending(tab.claims) /\ c # h /\ \E i \in DOMAIN queue : c = queue[i]
             /\ tab.claims[c].player = tab.claims[h].player
             /\ tab.claims[c].roster # tab.claims[h].roster
             /\ mode = "faab" => tab.claims[h].bid >= tab.claims[c].bid
  <2>1. PICK i \in DOMAIN Tail(queue) : c = Tail(queue)[i]
    OBVIOUS
  <2>. HIDE DEF rest
  <2>2. i \in Nat /\ i + 1 \in DOMAIN queue /\ 1 < i + 1 /\ c = queue[i + 1]
    BY <1>1, <2>1
  <2>3. c \in Pending(tab.claims)
    BY <1>1, <2>2, ElementOfSeq
  <2>. QED BY <1>1, <2>2, <2>3 DEF GroupInv
<1>3. /\ tab'.claims = [c \in DOMAIN tab.claims |-> tab'.claims[c]]
      /\ DOMAIN tab'.claims = DOMAIN tab.claims
      /\ \A c \in DOMAIN tab.claims : tab'.claims[c] =
           IF c \in rest THEN [tab.claims[c] EXCEPT !.status = "outbid"]
           ELSE IF c = h THEN [tab.claims[c] EXCEPT !.status = "successful"]
           ELSE tab.claims[c]
  <2>1. h \notin rest
    BY <1>2
  <2>. HIDE DEF h, rest
  <2>. QED BY <1>0, <2>1 DEF Decided
<1>4. ASSUME NEW c \in rest \cup {h}
      PROVE  /\ c \in DOMAIN tab.claims /\ tab.claims[c] \in ClaimRow
             /\ tab.claims[c].run = window /\ tab.claims[c].status = "pending"
             /\ tab'.claims[c].status = IF c = h THEN "successful" ELSE "outbid"
             /\ tab'.claims[c].run = tab.claims[c].run /\ tab'.claims[c].bid = tab.claims[c].bid
             /\ tab'.claims[c].player = tab.claims[c].player
             /\ tab'.claims[c].roster = tab.claims[c].roster
  <2>1. c \in Pending(tab.claims) /\ (c \in rest <=> c # h)
    BY <1>1, <1>2
  <2>. HIDE DEF h, rest
  <2>2. /\ c \in DOMAIN tab.claims /\ tab.claims[c] \in ClaimRow
        /\ tab.claims[c].run = window /\ tab.claims[c].status = "pending"
    BY <2>1, PictureAgrees DEF Pending
  <2>. QED BY <1>3, <2>1, <2>2 DEF ClaimRow
<1>5. h \in rest \cup {h}
  OBVIOUS
<1>. HIDE DEF h, rest
<1>6. LostToBetter(tab.claims)'
  <2>. SUFFICES ASSUME NEW c \in DOMAIN tab.claims, tab'.claims[c].status = "outbid"
                PROVE  \E w \in DOMAIN tab'.claims :
                         /\ tab'.claims[w].status = "successful"
                         /\ tab'.claims[w].run = tab'.claims[c].run
                         /\ tab'.claims[w].player = tab'.claims[c].player
                         /\ tab'.claims[w].roster # tab'.claims[c].roster
                         /\ mode' = "faab" => tab'.claims[w].bid >= tab'.claims[c].bid
    BY <1>3 DEF LostToBetter
  <2>0. mode' = mode
    BY <1>0 DEF user
  <2>1. CASE c \in rest
    <3>1. /\ tab'.claims[h].status = "successful" /\ tab'.claims[h].run = tab'.claims[c].run
          /\ tab'.claims[h].player = tab'.claims[c].player
          /\ tab'.claims[h].roster # tab'.claims[c].roster
          /\ mode = "faab" => tab'.claims[h].bid >= tab'.claims[c].bid
      BY <1>2, <1>4, <1>5, <2>1
    <3>2. h \in DOMAIN tab'.claims
      BY <1>3, <1>4, <1>5
    <3>. QED BY <2>0, <3>1, <3>2
  <2>2. CASE c \notin rest
    <3>1. c # h
      BY <1>4, <1>5
    <3>2. tab'.claims[c] = tab.claims[c]
      BY <1>3, <2>2, <3>1
    <3>3. PICK w \in DOMAIN tab.claims :
            /\ tab.claims[w].status = "successful" /\ tab.claims[w].run = tab.claims[c].run
            /\ tab.claims[w].player = tab.claims[c].player
            /\ tab.claims[w].roster # tab.claims[c].roster
            /\ mode = "faab" => tab.claims[w].bid >= tab.claims[c].bid
      BY <3>2 DEF PictureInv, LostToBetter
    <3>4. w \notin rest /\ w # h
      BY <1>4, <1>5, <3>3
    <3>5. tab'.claims[w] = tab.claims[w]
      BY <1>3, <3>4
    <3>. QED BY <1>3, <2>0, <3>2, <3>3, <3>5
  <2>. QED BY <2>1, <2>2
<1>7. PictureInv' /\ RoundInv'
  <2>1. {"successful", "outbid"} \subseteq ClaimStatus
    BY DEF ClaimStatus
  <2>2. DOMAIN tab.claims = DOMAIN claims
    BY DEF PictureInv
  <2>3. \A c \in DOMAIN claims :
          \/ tab'.claims[c] = tab.claims[c]
          \/ /\ \E i \in DOMAIN queue : c = queue[i]
             /\ \E s \in ClaimStatus : tab'.claims[c] = [tab.claims[c] EXCEPT !.status = s]
    BY <1>1, <1>2, <1>3, <2>1, <2>2
  <2>. QED BY <1>0, <1>3, <1>6, <2>3, DecidedPicture
<1>8. GroupInv'
  BY <1>0 DEF GroupInv
<1>9. TableInv' /\ AskedInv' /\ Shape'
  BY <1>0, RunOnly DEF Shape
<1>. QED BY <1>7, <1>8, <1>9

\* The commit of a run whose claims are all decided.
LEMMA CommitStep ==
  ASSUME DInv, CommitRun
  PROVE  DInv'
<1>. USE DEF DInv, RunInv
<1>0. /\ step = "choose" /\ Open = {} /\ claims' = tab.claims /\ step' = "idle"
      /\ window' = 1 /\ tab' = NoTables /\ UNCHANGED user
  BY DEF CommitRun, EndRun
<1>1. Pending(tab.claims) = {}
  BY <1>0, PictureAgrees DEF Open
<1>2. Len(claims) \in Nat /\ DOMAIN claims = 1 .. Len(claims)
      /\ \A c \in DOMAIN claims : claims[c].order <= Len(claims)
  BY ClaimsDomain DEF TableInv
<1>3. PictureInv
  BY <1>0
<1>4. claims' \in Seq(ClaimRow) /\ Len(claims') = Len(claims) /\ DOMAIN claims' = DOMAIN claims
  BY <1>0, <1>2, <1>3, SeqDef DEF PictureInv
<1>5. TableInv'
  BY <1>0, <1>1, <1>2, <1>3, <1>4
     DEF TableInv, PictureInv, OrdersDistinct, SameClaim, LostToBetter, user
<1>6. AskedInv'
  BY <1>0, <1>4 DEF AskedInv, user
<1>7. Shape'
  BY <1>0 DEF Shape, NoTables, user
<1>. QED BY <1>0, <1>5, <1>6, <1>7

\* A run that ends without a commit leaves the tables as they were.
LEMMA RollBackStep ==
  ASSUME DInv, RollBack
  PROVE  DInv'
<1>1. /\ step' = "idle" /\ window' = 1 /\ tab' = NoTables /\ UNCHANGED <<user, claims>>
  BY DEF RollBack, EndRun, tables
<1>2. TableInv' /\ AskedInv' /\ mode' = mode /\ hour' = hour
  BY <1>1, RunOnly
<1>. QED BY <1>1, <1>2 DEF DInv, RunInv, Shape, NoTables

LEMMA RunStep ==
  ASSUME DInv,
         StartRun \/ NextRound \/ NextGroup \/ Judge \/ Drop \/ Add \/ Deduct \/ Rotate \/ Catch
           \/ CommitRun \/ Abort
  PROVE  DInv'
<1>1. CASE Judge
  <2>1. step = "choose" /\ queue # <<>>
    BY <1>1 DEF Judge
  <2>2. CASE TurnDown("invalid")
    BY <2>1, <2>2, TurnDownStep
  <2>3. CASE Goto("add") \/ Goto("drop")
    BY <2>1, <2>3, AdvanceStep DEF Goto, tables, DInv, Shape
  <2>. QED BY <1>1, <2>2, <2>3 DEF Judge
<1>2. CASE step \in {"drop", "add", "charge", "caught"}
  <2>0. step # "idle" /\ queue # <<>> /\ "claims" \in DOMAIN tab
    BY <1>2 DEF DInv, RunInv, GroupInv, Shape
  <2>1. CASE Drop
    <3>1. /\ step' = "add" /\ UNCHANGED <<user, claims, window, round, queue>>
          /\ tab'.claims = tab.claims /\ "claims" \in DOMAIN tab'
      BY <2>0, <2>1 DEF Drop, tables
    <3>. QED BY <2>0, <3>1, AdvanceStep
  <2>2. CASE Add
    <3>1. CASE TurnDown("invalid")
      BY <2>0, <3>1, TurnDownStep
    <3>2. CASE Goto("caught")
      BY <2>0, <3>2, AdvanceStep DEF Goto, tables
    <3>3. CASE /\ \E S : tab' = [tab EXCEPT !.came = S]
               /\ step' = "charge" /\ UNCHANGED <<user, tables, window, round, queue, aborted, mem>>
      <4>1. tab'.claims = tab.claims /\ "claims" \in DOMAIN tab'
        BY <2>0, <3>3
      <4>. QED BY <2>0, <3>3, <4>1, AdvanceStep DEF tables
    <3>. QED BY <2>2, <3>1, <3>2, <3>3 DEF Add
  <2>3. CASE Break
    BY <2>0, <2>3, AdvanceStep DEF Break, tables
  <2>4. CASE \E b, p : Win(b, p)
    BY <2>0, <2>4, WinStep
  <2>5. Deduct \/ Rotate => Break \/ \E b, p : Win(b, p)
    BY DEF Deduct, Rotate
  <2>6. CASE Catch
    BY <2>0, <2>6, TurnDownStep, RollBackStep DEF Catch
  <2>7. CASE StartRun \/ NextRound \/ NextGroup \/ CommitRun
    BY <1>2, <2>7 DEF StartRun, LockFree, NextRound, NextGroup, CommitRun
  <2>8. CASE Abort
    BY <2>8, RollBackStep DEF Abort
  <2>. QED BY <1>1, <2>1, <2>2, <2>3, <2>4, <2>5, <2>6, <2>7, <2>8
<1>3. CASE step \in {"idle", "choose"} /\ ~Judge
  <2>1. StartRun \/ NextRound \/ NextGroup \/ CommitRun \/ Abort
    BY <1>3 DEF Drop, Add, Deduct, Rotate, Catch
  <2>. QED BY <2>1, StartRunStep, NextRoundStep, NextGroupStep, CommitStep, RollBackStep DEF Abort
<1>. QED BY <1>1, <1>2, <1>3 DEF DInv, Shape

LEMMA NextD == DInv /\ [Next]_vars => DInv'
<1>. SUFFICES ASSUME DInv, [Next]_vars PROVE DInv'
  OBVIOUS
<1>1. CASE \E o \in Offers : Submit(o)
  BY <1>1, SubmitStep
<1>2. CASE \/ \E c \in DOMAIN claims, b \in Bids \cup {None} : Ask(c, b)
           \/ \E a \in asked : Cancel(a) \/ EditBid(a)
  BY <1>2, RequestStep
<1>3. CASE \E r \in Roster : Reorder(r)
  BY <1>3, ReorderStep
<1>4. CASE NewHour \/ \E r \in Roster, p \in Player : AddFreeAgent(r, p) \/ DropPlayer(r, p)
  <2>1. hour' \in Nat /\ hour' # 0
    <3>1. CASE NewHour
      BY <3>1 DEF DInv, Shape, NewHour
    <3>2. CASE \E r \in Roster, p \in Player : AddFreeAgent(r, p) \/ DropPlayer(r, p)
      BY <3>2 DEF DInv, Shape, AddFreeAgent, DropPlayer, user
    <3>. QED BY <1>4, <3>1, <3>2
  <2>. QED BY <1>4, <2>1, OtherSteps DEF NewHour, AddFreeAgent, DropPlayer, user, tables, run
<1>5. CASE UNCHANGED vars
  <2>1. hour' \in Nat /\ hour' # 0
    BY <1>5 DEF DInv, Shape, vars, user
  <2>. QED BY <1>5, <2>1, OtherSteps DEF vars, user, tables, run
<1>. QED BY <1>1, <1>2, <1>3, <1>4, <1>5, RunStep DEF Next

-----------------------------------------------------------------------------
(* Sums                                                                    *)

\* A set of naturals with a member has a least one.
LEMMA LeastNatural ==
  ASSUME NEW T \in SUBSET Nat, T # {}
  PROVE  \E x \in T : \A y \in T : x <= y
<1>. DEFINE R == {p \in Nat \X Nat : p[1] < p[2]}
<1>1. IsWellFoundedOn(R, Nat)
  BY NatLessThanWellFounded DEF OpToRel
<1>2. PICK x \in T : \A y \in T : ~(<<y, x>> \in R)
  <2>. HIDE DEF R
  <2>. QED BY <1>1, WFMin
<1>3. ASSUME NEW y \in T PROVE x <= y
  <2>1. x \in Nat /\ y \in Nat
    OBVIOUS
  <2>2. ~(y < x)
    BY <1>2, <2>1
  <2>. HIDE DEF R
  <2>. QED BY <2>1, <2>2
<1>. QED BY <1>3

\* s holds the sums of the beginnings of w.
SumsOf(s, w) ==
  /\ s \in [0 .. Len(w) -> Nat] /\ s[0] = 0
  /\ \A k \in 1 .. Len(w) : s[k] = s[k - 1] + w[k]

\* The recursion of SumOf is well defined.
LEMMA SumsExist ==
  ASSUME NEW w \in Seq(Nat)
  PROVE  \E s : SumsOf(s, w) /\ SumOf(w) = s[Len(w)]
<1>. DEFINE N == Len(w)
            Up(s, k) == /\ s \in [0 .. k -> Nat] /\ s[0] = 0
                        /\ \A n \in 1 .. k : s[n] = s[n - 1] + w[n]
            Bad == {k \in 0 .. N : ~ \E s : Up(s, k)}
<1>0. N \in Nat /\ \A k \in 1 .. N : w[k] \in Nat
  OBVIOUS
<1>1. Bad = {}
  <2>. SUFFICES ASSUME Bad # {} PROVE FALSE
    OBVIOUS
  <2>1. PICK k \in Bad : \A j \in Bad : k <= j
    <3>1. Bad \in SUBSET Nat BY <1>0
    <3>. HIDE DEF Bad
    <3>. QED BY <3>1, LeastNatural
  <2>2. k \in 0 .. N /\ ~ \E s : Up(s, k)
    OBVIOUS
  <2>3. k # 0
    <3>. SUFFICES ASSUME k = 0 PROVE Up([n \in 0 .. 0 |-> 0], k)
      BY <2>2
    <3>. QED OBVIOUS
  <2>4. k - 1 \in 0 .. N /\ k - 1 \notin Bad
    <3>1. k - 1 \in 0 .. N /\ ~(k <= k - 1)
      BY <1>0, <2>2, <2>3
    <3>. HIDE DEF Bad
    <3>. QED BY <2>1, <3>1
  <2>5. PICK s : Up(s, k - 1)
    BY <2>4
  <2>6. Up([n \in 0 .. k |-> IF n = k THEN s[k - 1] + w[k] ELSE s[n]], k)
    <3>1. k \in 1 .. N /\ k - 1 \in 0 .. k - 1
      BY <1>0, <2>2, <2>3
    <3>2. s[k - 1] + w[k] \in Nat
      BY <1>0, <2>5, <3>1
    <3>. QED BY <2>5, <3>1, <3>2
  <2>. QED BY <2>2, <2>6
<1>2. PICK s : Up(s, N)
  <2>1. N \in 0 .. N /\ N \notin Bad
    <3>. HIDE DEF Bad, N
    <3>. QED BY <1>0, <1>1
  <2>. QED BY <2>1
<1>3. s = [n \in 0 .. N |-> IF n = 0 THEN 0 ELSE s[n - 1] + w[n]]
  <2>1. \A n \in 0 .. N : s[n] = IF n = 0 THEN 0 ELSE s[n - 1] + w[n]
    BY <1>0, <1>2
  <2>2. s = [n \in 0 .. N |-> s[n]]
    BY <1>2
  <2>. QED BY <2>1, <2>2
<1>. DEFINE t == CHOOSE f : f = [n \in 0 .. N |-> IF n = 0 THEN 0 ELSE f[n - 1] + w[n]]
<1>4. t = [n \in 0 .. N |-> IF n = 0 THEN 0 ELSE t[n - 1] + w[n]]
  BY <1>3
<1>5. SumOf(w) = t[N]
  BY DEF SumOf
<1>. HIDE DEF t, N
<1>6. t[0] = 0 /\ \A n \in 1 .. N : t[n] = t[n - 1] + w[n]
  BY <1>0, <1>4
<1>. DEFINE Off == {k \in 0 .. N : t[k] # s[k]}
<1>7. Off = {}
  <2>. SUFFICES ASSUME Off # {} PROVE FALSE
    OBVIOUS
  <2>1. PICK k \in Off : \A j \in Off : k <= j
    <3>1. Off \in SUBSET Nat BY <1>0
    <3>. HIDE DEF Off
    <3>. QED BY <3>1, LeastNatural
  <2>2. k \in 0 .. N /\ t[k] # s[k]
    OBVIOUS
  <2>3. k # 0
    BY <1>2, <1>6, <2>2
  <2>4. k - 1 \in 0 .. N /\ k - 1 \notin Off
    <3>1. k - 1 \in 0 .. N /\ ~(k <= k - 1)
      BY <1>0, <2>2, <2>3
    <3>. HIDE DEF Off
    <3>. QED BY <2>1, <3>1
  <2>5. k \in 1 .. N /\ t[k - 1] = s[k - 1]
    BY <1>0, <2>2, <2>3, <2>4
  <2>6. s[k] = s[k - 1] + w[k]
    BY <1>2, <2>5
  <2>7. t[k] = t[k - 1] + w[k]
    BY <1>6, <2>5
  <2>. QED BY <2>2, <2>5, <2>6, <2>7
<1>8. SumOf(w) = s[N]
  BY <1>0, <1>5, <1>7
<1>. QED BY <1>2, <1>8 DEF SumsOf, N

\* Adding up v, with its l-th number raised by d and zeros behind it.
LEMMA SumChange ==
  ASSUME NEW v \in Seq(Nat), NEW w \in Seq(Nat), NEW l \in Nat, NEW d \in Int,
         Len(v) <= Len(w), l \in 1 .. Len(v) \/ (l = 0 /\ d = 0),
         \A k \in 1 .. Len(w) :
           w[k] = (IF k <= Len(v) THEN v[k] ELSE 0) + (IF k = l THEN d ELSE 0)
  PROVE  SumOf(w) = SumOf(v) + d /\ SumOf(v) \in Nat
<1>. DEFINE m == Len(v)
            n == Len(w)
<1>0. m \in Nat /\ n \in Nat /\ m <= n
  OBVIOUS
<1>1. PICK s : SumsOf(s, v) /\ SumOf(v) = s[m]
  BY SumsExist
<1>2. PICK t : SumsOf(t, w) /\ SumOf(w) = t[n]
  BY SumsExist
<1>. DEFINE base(k) == IF k <= m THEN s[k] ELSE s[m]
            more(k) == IF l # 0 /\ l <= k THEN d ELSE 0
            Off == {k \in 0 .. n : t[k] # base(k) + more(k)}
<1>3. Off = {}
  <2>. SUFFICES ASSUME Off # {} PROVE FALSE
    OBVIOUS
  <2>1. PICK k \in Off : \A j \in Off : k <= j
    <3>1. Off \in SUBSET Nat BY <1>0
    <3>. HIDE DEF Off
    <3>. QED BY <3>1, LeastNatural
  <2>2. k \in 0 .. n /\ t[k] # base(k) + more(k)
    OBVIOUS
  <2>3. k # 0
    <3>. SUFFICES ASSUME k = 0 PROVE t[k] = base(k) + more(k)
      BY <2>2
    <3>1. t[0] = 0 /\ s[0] = 0
      BY <1>1, <1>2 DEF SumsOf
    <3>. QED BY <1>0, <3>1
  <2>4. k - 1 \in 0 .. n /\ k - 1 \notin Off
    <3>1. k - 1 \in 0 .. n /\ ~(k <= k - 1)
      BY <1>0, <2>2, <2>3
    <3>. HIDE DEF Off
    <3>. QED BY <2>1, <3>1
  <2>5. t[k - 1] = base(k - 1) + more(k - 1)
    BY <2>4
  <2>6. k \in 1 .. n /\ t[k] = t[k - 1] + w[k]
    BY <1>0, <1>2, <2>2, <2>3 DEF SumsOf
  <2>7. w[k] = (IF k <= m THEN v[k] ELSE 0) + (IF k = l THEN d ELSE 0)
    BY <2>6
  <2>8. base(k) = base(k - 1) + (IF k <= m THEN v[k] ELSE 0)
    <3>1. CASE k <= m
      <4>1. k \in 1 .. m /\ s[k] = s[k - 1] + v[k]
        BY <1>0, <1>1, <2>6, <3>1 DEF SumsOf
      <4>. QED BY <1>0, <3>1, <4>1
    <3>2. CASE ~(k <= m)
      <4>1. s[m] \in Nat
        BY <1>0, <1>1 DEF SumsOf
      <4>2. base(k) = s[m] /\ base(k - 1) = s[m]
        BY <1>0, <2>6, <3>2
      <4>. QED BY <3>2, <4>1, <4>2
    <3>. QED BY <3>1, <3>2
  <2>9. more(k) = more(k - 1) + (IF k = l THEN d ELSE 0)
    BY <2>6
  <2>10. base(k - 1) \in Nat
    <3>1. s \in [0 .. m -> Nat]
      BY <1>1 DEF SumsOf
    <3>. DEFINE j == IF k - 1 <= m THEN k - 1 ELSE m
    <3>2. j \in 0 .. m /\ base(k - 1) = s[j]
      <4>. HIDE DEF m, n
      <4>. QED BY <1>0, <2>6
    <3>. HIDE DEF j, m, base
    <3>. QED BY <3>1, <3>2
  <2>11. (IF k <= m THEN v[k] ELSE 0) \in Nat
    BY <1>0, <2>6
  <2>12. more(k - 1) \in Int /\ (IF k = l THEN d ELSE 0) \in Int
    OBVIOUS
  <2>. HIDE DEF base, more, Off, n, m
  <2>. QED BY <2>2, <2>5, <2>6, <2>7, <2>8, <2>9, <2>10, <2>11, <2>12
<1>4. t[n] = base(n) + more(n)
  BY <1>0, <1>3
<1>5. base(n) = s[m] /\ more(n) = d
  BY <1>0
<1>6. s[m] \in Nat
  BY <1>0, <1>1 DEF SumsOf
<1>. QED BY <1>1, <1>2, <1>4, <1>5, <1>6

\* The bids that count for a roster.
WonBids(cs, r) ==
  [c \in DOMAIN cs |-> IF cs[c].roster = r /\ cs[c].status = "successful" THEN cs[c].bid ELSE 0]

\* The row counts in both tables, or in neither.
CountsSame(x, y) ==
  /\ x.status = "successful" <=> y.status = "successful"
  /\ x.status = "successful" => x.roster = y.roster /\ x.bid = y.bid

LEMMA WonBidsSeq ==
  ASSUME NEW n \in Nat, NEW cs, DOMAIN cs = 1 .. n, \A c \in DOMAIN cs : cs[c].bid \in Nat, NEW r
  PROVE  /\ WonBids(cs, r) \in Seq(Nat) /\ Len(WonBids(cs, r)) = n
         /\ \A c \in 1 .. n : WonBids(cs, r)[c] =
              IF cs[c].roster = r /\ cs[c].status = "successful" THEN cs[c].bid ELSE 0
         /\ Spent(cs, r) = SumOf(WonBids(cs, r))
<1>1. WonBids(cs, r) \in [1 .. n -> Nat]
  BY DEF WonBids
<1>2. Spent(cs, r) = SumOf(WonBids(cs, r))
  BY DEF Spent, WonBids
<1>. QED BY <1>1, <1>2, SeqDef, LenProperties DEF WonBids

LEMMA SpentSame ==
  ASSUME NEW cs, NEW ds, DOMAIN ds = DOMAIN cs, \A c \in DOMAIN cs : CountsSame(cs[c], ds[c]), NEW r
  PROVE  Spent(ds, r) = Spent(cs, r)
<1>1. [c \in DOMAIN ds |-> IF ds[c].roster = r /\ ds[c].status = "successful" THEN ds[c].bid ELSE 0]
      = [c \in DOMAIN cs |-> IF cs[c].roster = r /\ cs[c].status = "successful" THEN cs[c].bid ELSE 0]
  BY DEF CountsSame
<1>. QED BY <1>1 DEF Spent

\* Of n claims, the claim h is won as well.
OneMore(n, cs, ds, h) ==
  /\ DOMAIN cs = 1 .. n /\ DOMAIN ds = 1 .. n /\ h \in 1 .. n
  /\ \A c \in 1 .. n : cs[c].bid \in Nat /\ ds[c].bid \in Nat
  /\ \A c \in 1 .. n \ {h} : CountsSame(cs[c], ds[c])
  /\ cs[h].status # "successful" /\ ds[h].status = "successful" /\ ds[h].bid = cs[h].bid

LEMMA SpentOneMore ==
  ASSUME NEW n \in Nat, NEW cs, NEW ds, NEW h, OneMore(n, cs, ds, h), NEW r
  PROVE  /\ Spent(cs, r) \in Nat
         /\ Spent(ds, r) = Spent(cs, r) + (IF ds[h].roster = r THEN cs[h].bid ELSE 0)
<1>. USE DEF OneMore
<1>. DEFINE v == WonBids(cs, r)
            w == WonBids(ds, r)
            d == IF ds[h].roster = r THEN cs[h].bid ELSE 0
<1>1. /\ v \in Seq(Nat) /\ Len(v) = n /\ Spent(cs, r) = SumOf(v)
      /\ \A c \in 1 .. n : v[c] =
           IF cs[c].roster = r /\ cs[c].status = "successful" THEN cs[c].bid ELSE 0
  BY WonBidsSeq
<1>2. /\ w \in Seq(Nat) /\ Len(w) = n /\ Spent(ds, r) = SumOf(w)
      /\ \A c \in 1 .. n : w[c] =
           IF ds[c].roster = r /\ ds[c].status = "successful" THEN ds[c].bid ELSE 0
  BY WonBidsSeq
<1>3. d \in Nat
  OBVIOUS
<1>4. ASSUME NEW c \in 1 .. n
      PROVE  w[c] = (IF c <= Len(v) THEN v[c] ELSE 0) + (IF c = h THEN d ELSE 0)
  <2>0. v[c] \in Nat /\ c <= Len(v)
    <3>. HIDE DEF v, w
    <3>. QED BY <1>1
  <2>1. CASE c = h
    <3>1. v[c] = 0 /\ w[c] = d
      <4>1. v[h] = 0
        BY <1>1
      <4>2. w[h] = d
        BY <1>2
      <4>. HIDE DEF v, w, d
      <4>. QED BY <2>1, <4>1, <4>2
    <3>. HIDE DEF v, w, d
    <3>. QED BY <2>0, <2>1, <3>1, <1>3
  <2>2. CASE c # h
    <3>1. w[c] = v[c]
      <4>1. CountsSame(cs[c], ds[c])
        BY <2>2
      <4>. HIDE DEF v, w, d
      <4>. QED BY <1>1, <1>2, <4>1 DEF CountsSame
    <3>. HIDE DEF v, w, d
    <3>. QED BY <2>0, <2>2, <3>1
  <2>. QED BY <2>1, <2>2
<1>. HIDE DEF v, w, d
<1>5. SumOf(w) = SumOf(v) + d /\ SumOf(v) \in Nat
  <2>1. \A c \in 1 .. Len(w) : w[c] = (IF c <= Len(v) THEN v[c] ELSE 0) + (IF c = h THEN d ELSE 0)
    BY <1>2, <1>4
  <2>2. h \in Nat /\ d \in Int /\ Len(v) <= Len(w) /\ h \in 1 .. Len(v)
    BY <1>1, <1>2, <1>3
  <2>. QED BY <1>1, <1>2, <2>1, <2>2, SumChange
<1>. QED BY <1>1, <1>2, <1>5 DEF d

LEMMA SpentAppended ==
  ASSUME NEW n \in Nat, NEW cs, DOMAIN cs = 1 .. n, \A c \in DOMAIN cs : cs[c].bid \in Nat,
         NEW ds, DOMAIN ds = 1 .. (n + 1), \A c \in DOMAIN cs : ds[c] = cs[c],
         ds[n + 1].status # "successful", ds[n + 1].bid \in Nat, NEW r
  PROVE  Spent(ds, r) = Spent(cs, r)
<1>. DEFINE v == WonBids(cs, r)
            w == WonBids(ds, r)
<1>1. /\ v \in Seq(Nat) /\ Len(v) = n /\ Spent(cs, r) = SumOf(v)
      /\ \A c \in 1 .. n : v[c] =
           IF cs[c].roster = r /\ cs[c].status = "successful" THEN cs[c].bid ELSE 0
  BY WonBidsSeq
<1>2. /\ w \in Seq(Nat) /\ Len(w) = n + 1 /\ Spent(ds, r) = SumOf(w)
      /\ \A c \in 1 .. (n + 1) : w[c] =
           IF ds[c].roster = r /\ ds[c].status = "successful" THEN ds[c].bid ELSE 0
  <2>1. \A c \in DOMAIN ds : ds[c].bid \in Nat
    <3>. SUFFICES ASSUME NEW c \in 1 .. (n + 1) PROVE ds[c].bid \in Nat
      OBVIOUS
    <3>1. c = n + 1 \/ c \in 1 .. n
      OBVIOUS
    <3>. QED BY <3>1
  <2>2. n + 1 \in Nat
    OBVIOUS
  <2>. QED BY <2>1, <2>2, WonBidsSeq
<1>3. ASSUME NEW c \in 1 .. (n + 1)
      PROVE  w[c] = (IF c <= n THEN v[c] ELSE 0) + (IF c = 0 THEN 0 ELSE 0)
  <2>1. CASE c = n + 1
    <3>1. w[c] = 0 /\ ~(c <= n)
      <4>. HIDE DEF v, w
      <4>. QED BY <1>2, <2>1
    <3>. HIDE DEF v, w
    <3>. QED BY <3>1
  <2>2. CASE c \in 1 .. n
    <3>1. w[c] = v[c] /\ v[c] \in Nat
      <4>1. ds[c] = cs[c] /\ cs[c].bid \in Nat
        BY <2>2
      <4>. HIDE DEF v, w
      <4>2. v[c] \in Nat
        BY <1>1, <2>2, ElementOfSeq
      <4>3. w[c] = v[c]
        BY <1>1, <1>2, <2>2, <4>1
      <4>. QED BY <4>2, <4>3
    <3>. HIDE DEF v, w
    <3>. QED BY <2>2, <3>1
  <2>. QED BY <2>1, <2>2
<1>. HIDE DEF v, w
<1>4. SumOf(w) = SumOf(v) + 0 /\ SumOf(v) \in Nat
  <2>1. \A c \in 1 .. Len(w) : w[c] = (IF c <= Len(v) THEN v[c] ELSE 0) + (IF c = 0 THEN 0 ELSE 0)
    BY <1>1, <1>2, <1>3
  <2>2. 0 \in Nat /\ 0 \in Int /\ Len(v) <= Len(w)
    BY <1>1, <1>2
  <2>. QED BY <1>1, <1>2, <2>1, <2>2, SumChange
<1>. QED BY <1>1, <1>2, <1>4

-----------------------------------------------------------------------------
(* Budgets, and players who were won                                       *)

LEMMA InitE == Init => EInv
<1>. SUFFICES ASSUME Init PROVE EInv
  OBVIOUS
<1>1. DOMAIN tab = {"claims", "gone", "came", "budget", "prio"}
  BY DEF Init, NoTables
<1>2. claims = <<>> /\ DOMAIN claims = {} /\ budget = FullBudgets /\ step = "idle"
  BY DEF Init
<1>3. ASSUME NEW r \in Roster PROVE Spent(claims, r) = 0
  <2>1. DOMAIN claims = 1 .. 0 /\ \A c \in DOMAIN claims : claims[c].bid \in Nat
    BY <1>2
  <2>2. /\ WonBids(claims, r) \in Seq(Nat) /\ Len(WonBids(claims, r)) = 0
        /\ Spent(claims, r) = SumOf(WonBids(claims, r))
    BY <2>1, WonBidsSeq
  <2>3. PICK s : SumsOf(s, WonBids(claims, r)) /\ SumOf(WonBids(claims, r)) = s[0]
    BY <2>2, SumsExist
  <2>. QED BY <2>2, <2>3 DEF SumsOf
<1>4. Balanced(mode, budget, claims)
  BY <1>2, <1>3, NumbersAssumption DEF Balanced, FullBudgets
<1>. QED BY <1>1, <1>2, <1>4 DEF EInv

LEMMA BalancedSame ==
  ASSUME NEW m, NEW b, NEW cs, NEW ds, Balanced(m, b, cs),
         \A r \in Roster : Spent(ds, r) = Spent(cs, r)
  PROVE  Balanced(m, b, ds)
BY DEF Balanced

\* Claims are handed in, changed and reordered while no run has the lock.
LEMMA BudgetsKept ==
  ASSUME EInv, step = "idle", UNCHANGED <<mode, budget, run>>,
         \A r \in Roster : Spent(claims', r) = Spent(claims, r)
  PROVE  EInv'
<1>1. Balanced(mode, budget, claims')
  BY BalancedSame DEF EInv
<1>. QED BY <1>1 DEF EInv, run, Balanced

LEMMA SubmitE ==
  ASSUME DInv, EInv, NEW o \in Offers, Submit(o)
  PROVE  EInv'
<1>1. /\ step = "idle" /\ UNCHANGED <<mode, budget, run>> /\ claims' = Append(claims, NewClaim(o))
  BY DEF Submit, LockFree, user
<1>2. /\ claims \in Seq(ClaimRow) /\ Len(claims) \in Nat /\ DOMAIN claims = 1 .. Len(claims)
      /\ \A c \in DOMAIN claims : claims[c] \in ClaimRow
  BY ClaimsDomain DEF DInv, TableInv
<1>3. \A c \in DOMAIN claims : claims[c].bid \in Nat
  BY <1>2 DEF ClaimRow
<1>4. NewClaim(o).status # "successful" /\ NewClaim(o).bid \in Nat
  BY OffersAssumption DEF NewClaim, Offer
<1>5. /\ DOMAIN claims' = 1 .. (Len(claims) + 1) /\ claims'[Len(claims) + 1] = NewClaim(o)
      /\ \A c \in DOMAIN claims : claims'[c] = claims[c]
  <2>. DEFINE x == NewClaim(o)
              n == Len(claims)
  <2>. HIDE DEF x
  <2>1. n + 1 \in 1 .. (n + 1) /\ DOMAIN claims = 1 .. n
    <3>. HIDE DEF n
    <3>. QED BY <1>2 DEF n
  <2>2. claims' = Append(claims, x)
    BY <1>1 DEF x
  <2>3. claims \in Seq(ClaimRow \cup {x}) /\ x \in ClaimRow \cup {x}
    BY <1>2, SeqMonotonic
  <2>. QED BY <2>1, <2>2, <2>3, AppendProperties DEF x
<1>6. \A r \in Roster : Spent(claims', r) = Spent(claims, r)
  BY <1>2, <1>3, <1>4, <1>5, SpentAppended
<1>. QED BY <1>1, <1>6, BudgetsKept

LEMMA EditE ==
  ASSUME DInv, EInv, NEW a \in asked, Cancel(a) \/ EditBid(a)
  PROVE  EInv'
<1>1. step = "idle" /\ UNCHANGED <<mode, budget, run>>
  BY DEF Cancel, EditBid, LockFree
<1>2. ASSUME NEW c \in Pending(claims), NEW s \in {"pending", "cancelled"}, NEW b \in Nat,
             claims' = [claims EXCEPT ![c] = [claims[c] EXCEPT !.status = s, !.bid = b]]
      PROVE  DOMAIN claims' = DOMAIN claims /\ \A d \in DOMAIN claims : CountsSame(claims[d], claims'[d])
  <2>1. claims[c] \in ClaimRow /\ claims[c].status = "pending" /\ c \in DOMAIN claims
    BY ClaimsDomain DEF DInv, TableInv, Pending
  <2>2. claims'[c].status = s
    BY <1>2, <2>1 DEF ClaimRow
  <2>3. \A d \in DOMAIN claims \ {c} : claims'[d] = claims[d]
    BY <1>2
  <2>. QED BY <1>2, <2>1, <2>2, <2>3 DEF CountsSame
<1>3. DOMAIN claims' = DOMAIN claims /\ \A d \in DOMAIN claims : CountsSame(claims[d], claims'[d])
  <2>1. CASE claims' = claims
    BY <2>1 DEF CountsSame
  <2>. QED BY <1>2, <2>1, EditsPending
<1>4. \A r \in Roster : Spent(claims', r) = Spent(claims, r)
  BY <1>3, SpentSame
<1>. QED BY <1>1, <1>4, BudgetsKept

LEMMA ReorderE ==
  ASSUME DInv, EInv, NEW r \in Roster, Reorder(r)
  PROVE  EInv'
<1>1. step = "idle" /\ UNCHANGED <<mode, budget, run>>
  BY DEF Reorder, LockFree, user
<1>2. DOMAIN claims' = DOMAIN claims /\ \A d \in DOMAIN claims : CountsSame(claims[d], claims'[d])
  <2>1. \A d \in DOMAIN claims : claims[d] \in ClaimRow
    BY ClaimsDomain DEF DInv, TableInv
  <2>2. PICK order : Renumber(PendingOf(r), order)
    BY DEF Reorder
  <2>. DEFINE new == [c \in PendingOf(r) |-> CHOOSE i \in DOMAIN order : order[i] = c]
  <2>3. claims' = [c \in DOMAIN claims |-> IF c \in PendingOf(r)
                                           THEN [claims[c] EXCEPT !.order = new[c]] ELSE claims[c]]
    BY <2>2 DEF Renumber
  <2>. HIDE DEF new
  <2>4. ASSUME NEW d \in DOMAIN claims PROVE CountsSame(claims[d], claims'[d])
    <3>1. claims[d] \in ClaimRow
      BY <2>1
    <3>2. CASE d \in PendingOf(r)
      <4>1. claims'[d] = [claims[d] EXCEPT !.order = new[d]]
        BY <2>3, <3>2
      <4>. QED BY <3>1, <4>1 DEF CountsSame, ClaimRow
    <3>3. CASE d \notin PendingOf(r)
      BY <2>3, <3>3 DEF CountsSame
    <3>. QED BY <3>2, <3>3
  <2>. QED BY <2>3, <2>4
<1>3. \A x \in Roster : Spent(claims', x) = Spent(claims, x)
  BY <1>2, SpentSame
<1>. QED BY <1>1, <1>3, BudgetsKept

LEMMA StartRunE ==
  ASSUME DInv, EInv, StartRun
  PROVE  EInv'
<1>1. /\ step' = "choose" /\ UNCHANGED <<mode, budget, claims>>
      /\ tab' = [claims |-> Snapshot, gone |-> {}, came |-> {}, budget |-> budget, prio |-> prio]
  BY DEF StartRun, user, tables
<1>2. /\ DOMAIN Snapshot = DOMAIN claims
      /\ \A c \in DOMAIN claims : /\ CountsSame(claims[c], Snapshot[c])
                                  /\ Snapshot[c].status = claims[c].status
  <2>1. DOMAIN Snapshot = DOMAIN claims
    BY DEF Snapshot
  <2>. SUFFICES ASSUME NEW c \in DOMAIN claims
                PROVE  CountsSame(claims[c], Snapshot[c]) /\ Snapshot[c].status = claims[c].status
    BY <2>1
  <2>2. claims[c] \in ClaimRow
    BY ClaimsDomain DEF DInv, TableInv
  <2>3. Snapshot[c] = claims[c] \/ Snapshot[c] = [claims[c] EXCEPT !.run = hour]
    BY DEF Snapshot
  <2>. QED BY <2>2, <2>3 DEF CountsSame, ClaimRow
<1>3. \A r \in Roster : Spent(Snapshot, r) = Spent(claims, r)
  BY <1>2, SpentSame
<1>4. Balanced(mode, budget, Snapshot)
  BY <1>3, BalancedSame DEF EInv
<1>5. Balanced(mode, tab.budget, tab.claims)' /\ Balanced(mode, budget, claims)'
  BY <1>1, <1>4 DEF EInv, Balanced
<1>6. \A c \in Pending(claims) : tab'.claims[c].status # "successful"
  BY <1>1, <1>2 DEF Pending
<1>7. WinsInv'
  BY <1>1, <1>6 DEF WinsInv, Pending
<1>. QED BY <1>1, <1>5, <1>7 DEF EInv

\* The run has chosen nothing yet, or has only chosen.
LEMMA ChooseE ==
  ASSUME EInv, step = "choose", step' \in {"choose", "drop", "add"},
         UNCHANGED <<mode, budget, claims, tab>>
  PROVE  EInv'
<1>1. /\ WinsInv /\ Balanced(mode, budget, claims) /\ Balanced(mode, tab.budget, tab.claims)
      /\ DOMAIN tab = {"claims", "gone", "came", "budget", "prio"}
  BY DEF EInv
<1>2. ASSUME NEW c \in Pending(claims), tab.claims[c].status = "successful" PROVE Kept(c)'
  BY <1>1, <1>2 DEF WinsInv, Kept, DropDone, Pending
<1>3. WinsInv'
  BY <1>2 DEF WinsInv, Pending
<1>. QED BY <1>1, <1>3 DEF EInv, Balanced

\* Nothing that matters changes.
LEMMA OtherE ==
  ASSUME EInv, UNCHANGED <<mode, budget, claims, tab, step, queue>>
  PROVE  EInv'
BY DEF EInv, Balanced, WinsInv, Kept, DropDone, Pending

\* The candidate, in the run's table and in the committed one.
LEMMA Candidate ==
  ASSUME DInv, step # "idle", queue # <<>>
  PROVE  LET h == Head(queue)
         IN /\ h \in Pending(tab.claims) /\ h \in Pending(claims) /\ h \in DOMAIN claims
            /\ tab.claims[h] \in ClaimRow /\ tab.claims[h].status = "pending"
            /\ SameClaim(tab.claims[h], claims[h])
            /\ DOMAIN tab.claims = DOMAIN claims
            /\ \A c \in DOMAIN claims : tab.claims[c] \in ClaimRow
            /\ Len(claims) \in Nat /\ DOMAIN claims = 1 .. Len(claims)
<1>1. Head(queue) \in Pending(tab.claims)
  BY HeadTailProperties DEF DInv, RunInv, GroupInv
<1>2. Len(claims) \in Nat /\ DOMAIN claims = 1 .. Len(claims)
  BY ClaimsDomain DEF DInv, TableInv
<1>. QED BY <1>1, <1>2, PictureAgrees DEF DInv, RunInv, PictureInv, Pending

LEMMA DropE ==
  ASSUME DInv, EInv, Drop
  PROVE  EInv'
<1>. DEFINE h == Head(queue)
            row == <<tab.claims[h].roster, tab.claims[h].drop>>
<1>1. /\ step = "drop" /\ step' = "add" /\ UNCHANGED <<mode, budget, claims, queue>>
      /\ tab' = IF row \in Seen
                THEN [tab EXCEPT !.gone = @ \cup ({row} \cap rows), !.came = @ \ {row}]
                ELSE tab
  BY DEF Drop, user, tables
<1>2. queue # <<>> /\ step # "idle"
  BY <1>1 DEF DInv, RunInv, GroupInv
<1>3. /\ h \in Pending(claims) /\ row = <<claims[h].roster, claims[h].drop>>
  BY <1>2, Candidate DEF SameClaim
<1>4. /\ WinsInv /\ Balanced(mode, budget, claims) /\ Balanced(mode, tab.budget, tab.claims)
      /\ DOMAIN tab = {"claims", "gone", "came", "budget", "prio"}
  BY <1>2 DEF EInv
<1>. HIDE DEF row
<1>5. /\ DOMAIN tab' = DOMAIN tab /\ tab'.claims = tab.claims /\ tab'.budget = tab.budget
      /\ tab.came \ {row} \subseteq tab'.came
  <2>1. CASE row \in Seen
    BY <1>1, <1>4, <2>1
  <2>2. CASE row \notin Seen
    BY <1>1, <2>2
  <2>. QED BY <2>1, <2>2
<1>6. ASSUME NEW c \in Pending(claims), tab.claims[c].status = "successful" PROVE Kept(c)'
  <2>1. CASE <<claims[c].roster, claims[c].player>> = row
    <3>1. claims[h].roster = claims[c].roster /\ claims[h].drop = claims[c].player
      BY <1>3, <2>1
    <3>2. h \in Pending(claims)' /\ DropDone(h)'
      BY <1>1, <1>3 DEF DropDone, Pending
    <3>. QED BY <1>1, <3>1, <3>2 DEF Kept
  <2>2. CASE <<claims[c].roster, claims[c].player>> # row
    <3>1. CASE <<claims[c].roster, claims[c].player>> \in tab.came
      BY <1>1, <1>5, <2>2, <3>1 DEF Kept
    <3>2. CASE \E d \in Pending(claims) : DropDone(d) /\ claims[d].roster = claims[c].roster
                                          /\ claims[d].drop = claims[c].player
      <4>1. PICK d \in Pending(claims) : DropDone(d) /\ claims[d].roster = claims[c].roster
                                          /\ claims[d].drop = claims[c].player
        BY <3>2
      <4>2. DropDone(d)' /\ d \in Pending(claims)'
        BY <1>1, <1>5, <4>1 DEF DropDone, Pending
      <4>. QED BY <1>1, <4>1, <4>2 DEF Kept
    <3>. QED BY <1>4, <1>6, <3>1, <3>2 DEF WinsInv, Kept
  <2>. QED BY <2>1, <2>2
<1>7. WinsInv'
  BY <1>1, <1>5, <1>6 DEF WinsInv, Pending
<1>. QED BY <1>1, <1>4, <1>5, <1>7 DEF EInv, Balanced

\* The candidate's drop is done, and stays done while the add goes on.
LEMMA ChargeE ==
  ASSUME DInv, EInv, step \in {"add", "charge"}, step' \in {"charge", "caught"},
         UNCHANGED <<mode, budget, claims, queue>>,
         DOMAIN tab' = DOMAIN tab, tab'.claims = tab.claims, tab'.budget = tab.budget,
         tab.came \subseteq tab'.came,
         step' = "charge" => <<claims[Head(queue)].roster, claims[Head(queue)].player>> \in tab'.came
  PROVE  EInv'
<1>1. /\ WinsInv /\ Balanced(mode, budget, claims) /\ Balanced(mode, tab.budget, tab.claims)
      /\ DOMAIN tab = {"claims", "gone", "came", "budget", "prio"}
  BY DEF EInv
<1>2. ASSUME NEW d, DropDone(d) PROVE DropDone(d)'
  BY <1>2 DEF DropDone
<1>3. ASSUME NEW c \in Pending(claims), tab.claims[c].status = "successful" PROVE Kept(c)'
  BY <1>1, <1>2, <1>3 DEF WinsInv, Kept, Pending
<1>4. WinsInv'
  BY <1>3 DEF WinsInv, Pending
<1>. QED BY <1>1, <1>4 DEF EInv, Balanced

\* The candidate is decided, and with a win those behind it.
LEMMA DecidedE ==
  ASSUME DInv, EInv, step # "idle", queue # <<>>, step' = "choose",
         UNCHANGED <<mode, budget, claims>>, DOMAIN tab' = DOMAIN tab, tab'.came = tab.came,
         Balanced(mode, tab'.budget, tab'.claims),
         tab'.claims[Head(queue)].status \in {"successful", "invalid", "failed"},
         tab'.claims[Head(queue)].status = "successful" => step = "charge",
         \A c \in Pending(claims) \ {Head(queue)} :
           \/ tab'.claims[c] = tab.claims[c]
           \/ tab.claims[c].status = "pending" /\ tab'.claims[c].status = "outbid"
  PROVE  EInv'
<1>. DEFINE h == Head(queue)
<1>1. /\ WinsInv /\ Balanced(mode, budget, claims)
      /\ DOMAIN tab = {"claims", "gone", "came", "budget", "prio"}
  BY DEF EInv
<1>2. h \in Pending(claims)
  BY Candidate
<1>3. ASSUME NEW d \in Pending(claims), DropDone(d) PROVE DropDone(d)'
  <2>1. CASE d = h
    BY <2>1 DEF DropDone
  <2>2. CASE d # h
    <3>1. tab.claims[d].status \in {"successful", "invalid", "failed"}
      BY <1>3, <2>2 DEF DropDone
    <3>. QED BY <2>2, <3>1 DEF DropDone
  <2>. QED BY <2>1, <2>2
<1>4. ASSUME NEW c \in Pending(claims), tab'.claims[c].status = "successful" PROVE Kept(c)'
  <2>1. Kept(c)
    <3>1. CASE c = h
      BY <1>1, <1>4, <3>1 DEF WinsInv, Kept
    <3>2. CASE c # h
      BY <1>1, <1>4, <3>2 DEF WinsInv
    <3>. QED BY <3>1, <3>2
  <2>. QED BY <1>3, <2>1 DEF Kept, Pending
<1>5. WinsInv'
  BY <1>4 DEF WinsInv, Pending
<1>. QED BY <1>1, <1>5 DEF EInv, Balanced

LEMMA TurnDownE ==
  ASSUME DInv, EInv, step # "idle", queue # <<>>, NEW s \in {"invalid", "failed"}, TurnDown(s)
  PROVE  EInv'
<1>. DEFINE h == Head(queue)
<1>1. /\ UNCHANGED <<mode, budget, claims>> /\ step' = "choose"
      /\ tab' = [tab EXCEPT !.claims = Decided(tab.claims, {h}, s)]
  BY DEF TurnDown, user, tables
<1>2. /\ h \in Pending(claims) /\ h \in DOMAIN claims /\ tab.claims[h] \in ClaimRow
      /\ tab.claims[h].status = "pending" /\ DOMAIN tab.claims = DOMAIN claims
  BY Candidate
<1>3. DOMAIN tab = {"claims", "gone", "came", "budget", "prio"} /\ Balanced(mode, tab.budget, tab.claims)
  BY DEF EInv
<1>. HIDE DEF h
<1>4. /\ DOMAIN tab' = DOMAIN tab /\ tab'.came = tab.came /\ tab'.budget = tab.budget
      /\ tab'.claims = Decided(tab.claims, {h}, s)
  BY <1>1, <1>3
<1>5. /\ DOMAIN tab'.claims = DOMAIN tab.claims
      /\ \A c \in DOMAIN claims \ {h} : tab'.claims[c] = tab.claims[c]
      /\ tab'.claims[h].status = s
  BY <1>2, <1>4 DEF Decided, ClaimRow
<1>6. \A c \in DOMAIN tab.claims : CountsSame(tab.claims[c], tab'.claims[c])
  BY <1>2, <1>5 DEF CountsSame
<1>7. Balanced(mode, tab'.budget, tab'.claims)
  <2>1. \A r \in Roster : Spent(tab'.claims, r) = Spent(tab.claims, r)
    BY <1>5, <1>6, SpentSame
  <2>. QED BY <1>3, <1>4, <2>1, BalancedSame
<1>. QED BY <1>1, <1>4, <1>5, <1>7, DecidedE DEF h, Pending

LEMMA WinE ==
  ASSUME DInv, EInv, step = "charge", NEW newBudget, NEW newPrio, Win(newBudget, newPrio),
         newBudget \in [Roster -> Nat],
         mode = "faab" => newBudget = [tab.budget EXCEPT ![tab.claims[Head(queue)].roster] =
                                         tab.budget[tab.claims[Head(queue)].roster]
                                           - tab.claims[Head(queue)].bid]
  PROVE  EInv'
<1>. DEFINE h == Head(queue)
            rest == {Tail(queue)[i] : i \in DOMAIN Tail(queue)}
<1>0. queue # <<>> /\ step # "idle"
  BY DEF DInv, RunInv, GroupInv
<1>1. /\ UNCHANGED <<mode, budget, claims>> /\ step' = "choose"
      /\ tab' = [tab EXCEPT !.budget = newBudget, !.prio = newPrio,
                            !.claims = Decided(Decided(tab.claims, {h}, "successful"), rest, "outbid")]
  BY DEF Win, user, tables
<1>2. /\ h \in Pending(claims) /\ h \in DOMAIN claims /\ tab.claims[h] \in ClaimRow
      /\ tab.claims[h].status = "pending" /\ DOMAIN tab.claims = DOMAIN claims
      /\ \A c \in DOMAIN claims : tab.claims[c] \in ClaimRow
      /\ Len(claims) \in Nat /\ DOMAIN claims = 1 .. Len(claims)
  BY <1>0, Candidate
<1>3. DOMAIN tab = {"claims", "gone", "came", "budget", "prio"} /\ Balanced(mode, tab.budget, tab.claims)
  BY <1>0 DEF EInv
<1>4. h \notin rest /\ rest \subseteq Pending(tab.claims)
  <2>1. /\ queue \in Seq(Pending(tab.claims)) /\ h = queue[1] /\ 1 \in DOMAIN queue
        /\ Len(Tail(queue)) = Len(queue) - 1 /\ Len(queue) \in Nat
        /\ DOMAIN queue = 1 .. Len(queue) /\ DOMAIN Tail(queue) = 1 .. Len(Tail(queue))
        /\ \A i \in DOMAIN Tail(queue) : Tail(queue)[i] = queue[i + 1]
    BY <1>0, HeadTailProperties, LenProperties, EmptySeq DEF DInv, RunInv, GroupInv
  <2>. SUFFICES ASSUME NEW i \in DOMAIN Tail(queue)
                PROVE  Tail(queue)[i] # h /\ Tail(queue)[i] \in Pending(tab.claims)
    OBVIOUS
  <2>2. i \in Nat /\ i + 1 \in DOMAIN queue /\ 1 < i + 1 /\ Tail(queue)[i] = queue[i + 1]
    BY <2>1
  <2>3. tab.claims[queue[1]].roster # tab.claims[queue[i + 1]].roster
    BY <1>0, <2>1, <2>2 DEF DInv, RunInv, GroupInv
  <2>4. queue[i + 1] \in Pending(tab.claims)
    BY <2>1, <2>2, ElementOfSeq
  <2>. QED BY <2>1, <2>2, <2>3, <2>4
<1>. HIDE DEF h, rest
<1>5. /\ DOMAIN tab' = DOMAIN tab /\ tab'.came = tab.came /\ tab'.budget = newBudget
      /\ tab'.claims = Decided(Decided(tab.claims, {h}, "successful"), rest, "outbid")
  BY <1>1, <1>3
<1>6. /\ DOMAIN tab'.claims = DOMAIN claims
      /\ \A c \in DOMAIN claims : tab'.claims[c] =
           IF c \in rest THEN [tab.claims[c] EXCEPT !.status = "outbid"]
           ELSE IF c = h THEN [tab.claims[c] EXCEPT !.status = "successful"]
           ELSE tab.claims[c]
  BY <1>2, <1>4, <1>5 DEF Decided
<1>7. /\ tab'.claims[h].status = "successful" /\ tab'.claims[h].bid = tab.claims[h].bid
      /\ tab'.claims[h].roster = tab.claims[h].roster
  BY <1>2, <1>4, <1>6 DEF ClaimRow
<1>8. \A c \in DOMAIN claims \ {h} :
        /\ \/ tab'.claims[c] = tab.claims[c]
           \/ tab.claims[c].status = "pending" /\ tab'.claims[c].status = "outbid"
        /\ tab'.claims[c].bid = tab.claims[c].bid
  BY <1>2, <1>4, <1>6 DEF ClaimRow, Pending
<1>9. Balanced(mode, newBudget, tab'.claims)
  <2>. SUFFICES ASSUME mode = "faab", NEW r \in Roster
                PROVE  newBudget[r] = InitBudget - Spent(tab'.claims, r)
    BY DEF Balanced
  <2>. DEFINE d == IF tab.claims[h].roster = r THEN tab.claims[h].bid ELSE 0
  <2>1. Spent(tab.claims, r) \in Nat /\ Spent(tab'.claims, r) = Spent(tab.claims, r) + d
    <3>1. \A c \in DOMAIN claims : tab.claims[c].bid \in Nat /\ tab'.claims[c].bid \in Nat
      BY <1>2, <1>7, <1>8 DEF ClaimRow
    <3>2. \A c \in 1 .. Len(claims) \ {h} : CountsSame(tab.claims[c], tab'.claims[c])
      BY <1>2, <1>8 DEF CountsSame
    <3>3. /\ DOMAIN tab.claims = 1 .. Len(claims) /\ DOMAIN tab'.claims = 1 .. Len(claims)
          /\ h \in 1 .. Len(claims) /\ tab.claims[h].status # "successful"
      BY <1>2, <1>6
    <3>. HIDE DEF d
    <3>4. /\ Spent(tab.claims, r) \in Nat
          /\ Spent(tab'.claims, r) = Spent(tab.claims, r)
               + (IF tab'.claims[h].roster = r THEN tab.claims[h].bid ELSE 0)
      <4>0. PICK n \in Nat : n = Len(claims)
        BY <1>2
      <4>1. PICK cs, ds : cs = tab.claims /\ ds = tab'.claims
        OBVIOUS
      <4>2. OneMore(n, cs, ds, h)
        BY <1>2, <1>7, <3>1, <3>2, <3>3, <4>0, <4>1 DEF OneMore
      <4>3. /\ Spent(cs, r) \in Nat
            /\ Spent(ds, r) = Spent(cs, r) + (IF ds[h].roster = r THEN cs[h].bid ELSE 0)
        BY <4>2, SpentOneMore
      <4>. QED BY <4>1, <4>3
    <3>. QED BY <1>7, <3>4 DEF d
  <2>2. tab.budget[r] = InitBudget - Spent(tab.claims, r) /\ tab.budget \in [Roster -> Nat]
    BY <1>3 DEF Balanced
  <2>3. newBudget[r] = tab.budget[r] - d
    <3>1. tab.claims[h].bid \in Nat
      BY <1>2 DEF ClaimRow
    <3>2. newBudget = [tab.budget EXCEPT ![tab.claims[h].roster] =
                         tab.budget[tab.claims[h].roster] - tab.claims[h].bid]
      BY DEF h
    <3>3. CASE tab.claims[h].roster = r
      BY <2>2, <3>2, <3>3
    <3>4. CASE tab.claims[h].roster # r
      <4>1. newBudget[r] = tab.budget[r] /\ d = 0
        BY <2>2, <3>2, <3>4
      <4>2. tab.budget[r] \in Nat
        BY <2>2
      <4>. QED BY <4>1, <4>2
    <3>. QED BY <3>3, <3>4
  <2>4. d \in Nat
    BY <1>2 DEF ClaimRow
  <2>. HIDE DEF d
  <2>. QED BY <2>1, <2>2, <2>3, <2>4, NumbersAssumption
<1>. QED BY <1>0, <1>1, <1>5, <1>7, <1>8, <1>9, DecidedE DEF h, Pending

LEMMA RunE ==
  ASSUME DInv, EInv,
         StartRun \/ NextRound \/ NextGroup \/ Judge \/ Drop \/ Add \/ Deduct \/ Rotate \/ Catch
           \/ CommitRun \/ Abort
  PROVE  EInv'
<1>0. ASSUME RollBack PROVE EInv'
  BY <1>0 DEF RollBack, EndRun, NoTables, EInv, Balanced, user, tables
<1>1. CASE Judge
  <2>1. step = "choose" /\ queue # <<>>
    BY <1>1 DEF Judge
  <2>2. CASE TurnDown("invalid")
    BY <2>1, <2>2, TurnDownE
  <2>3. CASE Goto("add") \/ Goto("drop")
    BY <2>1, <2>3, ChooseE DEF Goto, user, tables
  <2>. QED BY <1>1, <2>2, <2>3 DEF Judge
<1>2. CASE Add
  <2>0. /\ step = "add" /\ queue # <<>> /\ DOMAIN tab = {"claims", "gone", "came", "budget", "prio"}
        /\ tab.claims[Head(queue)].roster = claims[Head(queue)].roster
        /\ tab.claims[Head(queue)].player = claims[Head(queue)].player
    <3>1. step = "add" /\ queue # <<>>
      BY <1>2 DEF Add, DInv, RunInv, GroupInv
    <3>. QED BY <3>1, Candidate DEF EInv, SameClaim
  <2>1. CASE TurnDown("invalid")
    BY <2>0, <2>1, TurnDownE
  <2>2. CASE Goto("caught")
    BY <2>0, <2>2, ChargeE DEF Goto, user, tables
  <2>3. CASE /\ tab' = [tab EXCEPT !.came = @ \cup {<<tab.claims[Head(queue)].roster,
                                                      tab.claims[Head(queue)].player>>}]
             /\ step' = "charge" /\ UNCHANGED <<user, tables, window, round, queue, aborted, mem>>
    <3>1. /\ DOMAIN tab' = DOMAIN tab /\ tab'.claims = tab.claims /\ tab'.budget = tab.budget
          /\ tab.came \subseteq tab'.came
          /\ <<claims[Head(queue)].roster, claims[Head(queue)].player>> \in tab'.came
      BY <2>0, <2>3
    <3>. QED BY <2>0, <2>3, <3>1, ChargeE DEF user, tables
  <2>. QED BY <1>2, <2>1, <2>2, <2>3 DEF Add
<1>3. ASSUME step = "charge", Break PROVE EInv'
  BY <1>3, ChargeE DEF Break, user, tables
<1>4. CASE Deduct \/ Rotate
  <2>0. /\ step = "charge" /\ step # "idle" /\ tab.budget \in [Roster -> Nat]
    BY <1>4 DEF Deduct, Rotate, EInv, Balanced
  <2>1. queue # <<>>
    BY <2>0 DEF DInv, RunInv, GroupInv
  <2>. DEFINE c == tab.claims[Head(queue)]
  <2>2. c.roster \in Roster /\ c.bid \in Nat
    BY <2>0, <2>1, Candidate DEF ClaimRow
  <2>3. CASE Deduct
    <3>. DEFINE new == [tab.budget EXCEPT ![c.roster] = @ - c.bid]
    <3>1. CASE tab.budget[c.roster] < c.bid
      BY <1>3, <2>0, <2>3, <3>1 DEF Deduct
    <3>2. CASE ~(tab.budget[c.roster] < c.bid)
      <4>1. Win(new, tab.prio)
        BY <2>3, <3>2 DEF Deduct
      <4>2. new \in [Roster -> Nat]
        <5>1. tab.budget[c.roster] \in Nat
          BY <2>0, <2>2
        <5>2. tab.budget[c.roster] - c.bid \in Nat
          <6>. HIDE DEF c
          <6>. QED BY <2>2, <3>2, <5>1
        <5>. HIDE DEF c
        <5>. QED BY <2>0, <5>2
      <4>. QED BY <2>0, <4>1, <4>2, WinE
    <3>. QED BY <3>1, <3>2
  <2>4. CASE Rotate
    <3>1. Break \/ Win(tab.budget, Rotated(tab.prio, c.roster))
      BY <2>4 DEF Rotate
    <3>2. mode # "faab"
      BY <2>4 DEF Rotate
    <3>. QED BY <1>3, <2>0, <3>1, <3>2, WinE
  <2>. QED BY <1>4, <2>3, <2>4
<1>5. CASE Catch
  <2>1. step # "idle" /\ queue # <<>>
    BY <1>5 DEF Catch, DInv, RunInv, GroupInv
  <2>. QED BY <1>0, <1>5, <2>1, TurnDownE DEF Catch
<1>6. CASE NextRound \/ NextGroup
  <2>1. step = "choose" /\ step' = "choose" /\ UNCHANGED <<mode, budget, claims, tab>>
    BY <1>6 DEF NextRound, NextGroup, user, tables
  <2>. QED BY <2>1, ChooseE
<1>7. CASE CommitRun
  BY <1>7 DEF CommitRun, EndRun, NoTables, EInv, Balanced, user
<1>. QED BY <1>0, <1>1, <1>2, <1>4, <1>5, <1>6, <1>7, StartRunE, DropE DEF Abort

LEMMA NextE == DInv /\ EInv /\ [Next]_vars => EInv'
<1>. SUFFICES ASSUME DInv, EInv, [Next]_vars PROVE EInv'
  OBVIOUS
<1>1. CASE \E o \in Offers : Submit(o)
  BY <1>1, SubmitE
<1>2. CASE \E a \in asked : Cancel(a) \/ EditBid(a)
  BY <1>2, EditE
<1>3. CASE \E r \in Roster : Reorder(r)
  BY <1>3, ReorderE
<1>4. CASE \/ \E c \in DOMAIN claims, b \in Bids \cup {None} : Ask(c, b)
           \/ \E r \in Roster, p \in Player : AddFreeAgent(r, p) \/ DropPlayer(r, p)
           \/ NewHour \/ UNCHANGED vars
  <2>1. UNCHANGED <<mode, budget, claims, tab, step, queue>>
    BY <1>4 DEF Ask, AddFreeAgent, DropPlayer, NewHour, vars, user, tables, run
  <2>. QED BY <2>1, OtherE
<1>. QED BY <1>1, <1>2, <1>3, <1>4, RunE DEF Next

-----------------------------------------------------------------------------
(* The theorems                                                            *)

\* Only a pending claim changes: a decision is final.
LEMMA FinalStep ==
  ASSUME DInv, [Next]_vars, NEW c \in DOMAIN claims, claims[c].status # "pending"
  PROVE  claims'[c] = claims[c]
<1>1. ASSUME NEW o \in Offers, Submit(o) PROVE claims'[c] = claims[c]
  <2>1. claims \in Seq(ClaimRow) /\ claims' = Append(claims, NewClaim(o))
    BY <1>1 DEF Submit, DInv, TableInv
  <2>. QED BY <2>1, AppendProperties, LenProperties
<1>2. ASSUME NEW a \in asked, Cancel(a) \/ EditBid(a) PROVE claims'[c] = claims[c]
  BY <1>2, EditsPending DEF Pending
<1>3. ASSUME NEW r \in Roster, Reorder(r) PROVE claims'[c] = claims[c]
  BY <1>3 DEF Reorder, Renumber, PendingOf, Pending
<1>4. CASE CommitRun
  BY <1>4 DEF CommitRun, DInv, RunInv, PictureInv, Pending
<1>5. CASE UNCHANGED claims
  BY <1>5
<1>6. CASE \/ \E d \in DOMAIN claims, b \in Bids \cup {None} : Ask(d, b)
           \/ \E r \in Roster, p \in Player : AddFreeAgent(r, p) \/ DropPlayer(r, p)
           \/ NewHour \/ UNCHANGED vars
  BY <1>6 DEF Ask, AddFreeAgent, DropPlayer, NewHour, vars, tables
<1>7. CASE StartRun \/ NextRound \/ NextGroup \/ Judge \/ Drop \/ Add \/ Deduct \/ Rotate \/ Catch
             \/ Abort
  <2>1. UNCHANGED claims
    BY <1>7 DEF StartRun, NextRound, NextGroup, Judge, Drop, Add, Deduct, Rotate, Catch, Abort,
         Goto, TurnDown, Break, Win, RollBack, tables
  <2>. QED BY <2>1
<1>. QED BY <1>1, <1>2, <1>3, <1>4, <1>6, <1>7 DEF Next

LEMMA DecisionsInvariant == Spec => []DInv
BY InitD, NextD, PTL DEF Spec

\* A decision is final: no cancellation, edit, reordering or later run changes
\* a claim that has been decided, although cancellations and edits look at it
\* before they take the lock and the run works from its own picture.
THEOREM DecisionsAreFinal == Spec => DecidedOnce
<1>1. DInv /\ [Next]_vars =>
        [\A c \in DOMAIN claims : claims[c].status # "pending" => claims'[c] = claims[c]]_vars
  BY FinalStep
<1>. QED BY <1>1, DecisionsInvariant, PTL DEF Spec, DecidedOnce

\* processLeagueWaivers decides every claim that it takes up, or none.
THEOREM NothingLeftOver == Spec => []NothingStranded
<1>1. DInv => NothingStranded
  BY DEF DInv, TableInv, Pending, NothingStranded
<1>. QED BY <1>1, DecisionsInvariant, PTL

\* Who is told "Outbid by another team" lost to a claim of the same run for
\* the same player that another roster made and that bids at least as much.
THEOREM OutbidLost == Spec => []OutbidByBetter
<1>1. DInv => OutbidByBetter
  BY DEF DInv, TableInv, LostToBetter, OutbidByBetter
<1>. QED BY <1>1, DecisionsInvariant, PTL

LEMMA BooksInvariant == Spec => []EInv
BY InitE, NextE, InitD, NextD, PTL DEF Spec

\* Every roster has spent exactly the bids of the claims it has won: a run that
\* dies has charged nobody, one that is repeated charges nobody twice, and a bid
\* that is edited while a run decides the claim does not change its price.
THEOREM BudgetsAddUp == Spec => []BudgetsBalance
<1>1. EInv => BudgetsBalance
  BY DEF EInv, Balanced, BudgetsBalance
<1>. QED BY <1>1, BooksInvariant, PTL

LEMMA CommitKeeps ==
  ASSUME DInv, EInv, CommitRun, NEW c \in Pending(claims), claims'[c].status = "successful"
  PROVE  \/ <<claims[c].roster, claims[c].player>> \in rows'
         \/ \E d \in Pending(claims) :
              /\ claims'[d].status \in {"successful", "invalid", "failed"}
              /\ claims[d].roster = claims[c].roster /\ claims[d].drop = claims[c].player
<1>1. /\ step = "choose" /\ claims' = tab.claims /\ tab.came \subseteq rows'
  BY DEF CommitRun, Seen
<1>2. Kept(c)
  BY <1>1 DEF EInv, WinsInv
<1>3. \A d : DropDone(d) => claims'[d].status \in {"successful", "invalid", "failed"}
  BY <1>1 DEF DropDone
<1>. QED BY <1>1, <1>2, <1>3 DEF Kept

\* A claim that a committed run calls successful has brought its player, unless
\* the run has carried out another claim of that roster which drops him.
THEOREM WinsBringThePlayer == Spec => WinsAreReal
<1>1. DInv /\ EInv /\ [Next]_vars =>
        [CommitRun => \A c \in Pending(claims) : claims'[c].status = "successful" =>
           \/ <<claims[c].roster, claims[c].player>> \in rows'
           \/ \E d \in Pending(claims) :
                /\ claims'[d].status \in {"successful", "invalid", "failed"}
                /\ claims[d].roster = claims[c].roster /\ claims[d].drop = claims[c].player]_vars
  BY CommitKeeps
<1>. QED BY <1>1, DecisionsInvariant, BooksInvariant, PTL DEF Spec, WinsAreReal
=============================================================================
