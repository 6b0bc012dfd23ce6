---------------------------- MODULE SeasonProofs ----------------------------
(***************************************************************************)
(* A league of any size: what keeps the commissioner's roster in it and    *)
(* the number of active rosters within its total (MInv), and what medians  *)
(* are stored for (SInv).  Brackets of any configuration: which rows of    *)
(* matchups can be in force together (PInv), and how the teams in them got *)
(* there (WInv).                                                           *)
(***************************************************************************)
EXTENDS League, Playoffs, Integers, WellFoundedInduction, FiniteSetTheorems, TLAPS

RosterRow == [id : Nat, slot : Nat, user : User, benched : BOOLEAN]
ResizeRequest == [kind : {"resize"}, total : Totals, bench : SUBSET Nat]

\* Ids and slots are handed out in order, from FirstId and from 1.
NumbersInv ==
    /\ serial \in Nat /\ serial > FirstId
    /\ \A m \in members : /\ m \in RosterRow
                          /\ FirstId <= m.id /\ m.id < serial
                          /\ 1 <= m.slot /\ m.slot <= serial - FirstId
    /\ \A m, n \in members : m.id = n.id => m = n

\* There is one commissioner, who plays, and the first roster is his or hers.
CommissionerInv ==
    /\ \A m, n \in Commissioner : m = n
    /\ \A m \in Commissioner : ~m.benched
    /\ \A m \in members : m.id = FirstId => m.slot = CommissionerSlot

\* What a resize still has to bench was chosen among the other rosters.
RequestInv ==
    \A q \in requests :
        /\ "kind" \in DOMAIN q
        /\ q.kind = "accept" => q.user \in User
        /\ q.kind = "resize" =>
             /\ q \in ResizeRequest
             /\ \A id \in q.bench : id < serial
             /\ \A m \in Commissioner : m.id \notin q.bench

TotalInv == "total" \in DOMAIN league /\ league.total \in 2..20

MInv == IsFiniteSet(members) /\ NumbersInv /\ CommissionerInv /\ TotalInv /\ RequestInv

\* The two action properties, of a step that changes something.
Stays == \A m \in Commissioner : m \in members' \/ members' = {}
Fits == /\ Cardinality(Active) <= league.total
        /\ Cardinality(Active') > league.total'
        => league'.total < league.total

-----------------------------------------------------------------------------
LEMMA ActiveNumber ==
    ASSUME MInv
    PROVE  IsFiniteSet(Active) /\ Cardinality(Active) \in Nat
<1>1. Active \in SUBSET members
  BY DEF Active
<1>2. IsFiniteSet(Active)
  BY <1>1, FS_Subset DEF MInv
<1>. QED BY <1>2, FS_CardinalityType

LEMMA OneMore ==
    ASSUME NEW S, IsFiniteSet(S), NEW x
    PROVE  /\ IsFiniteSet(S \union {x})
           /\ Cardinality(S \union {x}) <= Cardinality(S) + 1
<1>1. Cardinality(S) \in Nat
  BY FS_CardinalityType
<1>2. CASE x \in S
  <2>1. S \union {x} = S
    BY <1>2
  <2>2. IsFiniteSet(S \union {x}) /\ Cardinality(S \union {x}) = Cardinality(S)
    BY <2>1
  <2>. QED BY <1>1, <2>2
<1>3. CASE x \notin S
  <2>1. IsFiniteSet(S \union {x}) /\ Cardinality(S \union {x}) = Cardinality(S) + 1
    BY <1>3, FS_AddElement
  <2>. QED BY <1>1, <2>1
<1>. QED BY <1>2, <1>3

\* A nonempty set of naturals with an upper bound has a greatest element.
LEMMA GreatestNatural ==
  ASSUME NEW b \in Nat, NEW T \in SUBSET Nat, T # {}, \A x \in T : x <= b
  PROVE  \E x \in T : \A y \in T : y <= x
<1>. DEFINE D == {b - x : x \in T}
            R == {p \in Nat \X Nat : p[1] < p[2]}
<1>1. D \subseteq Nat /\ D # {}
  <2>. SUFFICES ASSUME NEW x \in T PROVE b - x \in Nat
    OBVIOUS
  <2>1. x \in Nat /\ x <= b
    OBVIOUS
  <2>. QED BY <2>1
<1>2. IsWellFoundedOn(R, Nat)
  BY NatLessThanWellFounded DEF OpToRel
<1>3. PICK e \in D : \A y \in D : ~(<<y, e>> \in R)
  <2>. HIDE DEF D, R
  <2>. QED BY <1>1, <1>2, WFMin
<1>4. PICK x \in T : e = b - x
  OBVIOUS
<1>5. ASSUME NEW y \in T PROVE y <= x
  <2>1. b - y \in D /\ ~(b - y < e)
    BY <1>1, <1>3
  <2>2. x \in Int /\ y \in Int /\ b \in Int
    OBVIOUS
  <2>. HIDE DEF D, R
  <2>. QED BY <1>4, <2>1, <2>2
<1>. QED BY <1>5

\* getNextRosterId: a new roster gets the commissioner's slot only in an empty
\* league.
LEMMA NextSlotIsNew ==
    ASSUME MInv
    PROVE  /\ NextSlot \in Nat /\ 1 <= NextSlot /\ NextSlot <= serial - FirstId + 1
           /\ NextSlot = CommissionerSlot <=> members = {}
<1>. DEFINE S == {0} \union {m.slot : m \in members}
            b == serial - FirstId
<1>1. b \in Nat /\ \A m \in members : m.slot \in 1..b
  BY LeagueAssumption DEF MInv, NumbersInv, RosterRow
<1>2. S \in SUBSET Nat /\ S # {} /\ \A x \in S : x <= b
  BY <1>1
<1>3. PICK x \in S : \A y \in S : y <= x
  <2>. HIDE DEF S, b
  <2>. QED BY <1>1, <1>2, GreatestNatural
<1>4. Max(S) \in S /\ \A y \in S : y <= Max(S)
  <2>1. \A y \in S : x >= y
    BY <1>2, <1>3
  <2>2. Max(S) \in S /\ \A y \in S : Max(S) >= y
    BY <2>1 DEF Max
  <2>. QED BY <1>2, <2>2
<1>5. NextSlot = 1 + Max(S)
  BY DEF NextSlot
<1>6. CASE members = {}
  <2>1. S = {0}
    BY <1>6
  <2>. QED BY <1>1, <1>4, <1>5, <1>6, <2>1 DEF CommissionerSlot
<1>7. CASE members # {}
  <2>1. PICK m \in members : TRUE
    BY <1>7
  <2>2. m.slot \in S /\ m.slot \in 1..b
    BY <1>1
  <2>. HIDE DEF S, b
  <2>3. Max(S) \in Nat /\ Max(S) <= b /\ m.slot <= Max(S)
    BY <1>2, <1>4, <2>2
  <2>4. Max(S) \in 1..b
    BY <1>1, <2>2, <2>3
  <2>. QED BY <1>1, <1>5, <1>7, <2>4 DEF CommissionerSlot, b
<1>. QED BY <1>6, <1>7

\* Nothing happens to the rosters, whatever happens to the total.
LEMMA MembersStay ==
    ASSUME MInv, UNCHANGED <<members, serial>>, TotalInv', RequestInv'
    PROVE  MInv' /\ Stays /\ Fits
<1>1. MInv' /\ Stays
  BY DEF MInv, NumbersInv, CommissionerInv, Commissioner, Stays
<1>2. Fits
  BY ActiveNumber DEF MInv, TotalInv, Fits, Active
<1>. QED BY <1>1, <1>2

\* A user joins, on the bench when the league is full.
LEMMA JoinStep ==
    ASSUME MInv, NEW u \in User, Join(u), league' = league, requests' \subseteq requests
    PROVE  MInv' /\ Stays /\ Fits
<1>. USE DEF MInv
<1>. DEFINE new == NewRoster(u, Full)
<1>1. members' = members \union {new} /\ serial' = serial + 1
  BY DEF Join
<1>2. /\ new \in RosterRow /\ new.id = serial /\ new.slot = NextSlot /\ new.benched = Full
      /\ serial \in Nat /\ serial > FirstId /\ FirstId \in Nat
  BY NextSlotIsNew, LeagueAssumption DEF NumbersInv, NewRoster, RosterRow, Full
<1>3. members = {} => ~Full
  <2>1. CASE members = {}
    <3>1. Cardinality(Active) = 0
      BY <2>1, FS_EmptySet DEF Active
    <3>. QED BY <3>1 DEF Full, TotalInv
  <2>. QED BY <2>1
<1>. HIDE DEF new
<1>4. IsFiniteSet(members') /\ TotalInv'
  BY <1>1, FS_AddElement DEF TotalInv
<1>5. NumbersInv'
  <2>1. \A m \in members : m \in RosterRow /\ FirstId <= m.id /\ m.id < serial
                             /\ 1 <= m.slot /\ m.slot <= serial - FirstId /\ m.id \in Nat /\ m.slot \in Nat
    BY DEF NumbersInv, RosterRow
  <2>2. \A m \in members' : /\ m \in RosterRow
                            /\ FirstId <= m.id /\ m.id < serial'
                            /\ 1 <= m.slot /\ m.slot <= serial' - FirstId
    <3>. SUFFICES ASSUME NEW m \in members'
                  PROVE  /\ m \in RosterRow
                         /\ FirstId <= m.id /\ m.id < serial'
                         /\ 1 <= m.slot /\ m.slot <= serial' - FirstId
      OBVIOUS
    <3>1. CASE m \in members
      BY <1>1, <1>2, <2>1, <3>1
    <3>2. CASE m = new
      BY <1>1, <1>2, <3>2, NextSlotIsNew
    <3>. QED BY <1>1, <3>1, <3>2
  <2>3. \A m, n \in members' : m.id = n.id => m = n
    BY <1>1, <1>2, <2>1 DEF NumbersInv
  <2>. QED BY <1>1, <1>2, <2>2, <2>3 DEF NumbersInv
<1>6. CommissionerInv' /\ \A m \in Commissioner' : m \in Commissioner \/ m.id = serial
  BY <1>1, <1>2, <1>3, NextSlotIsNew DEF CommissionerInv, Commissioner, CommissionerSlot
<1>7. RequestInv'
  <2>. SUFFICES ASSUME NEW q \in requests, q.kind = "resize"
                PROVE  /\ q \in ResizeRequest /\ \A id \in q.bench : id < serial'
                       /\ \A m \in Commissioner' : m.id \notin q.bench
    BY DEF RequestInv
  <2>1. q \in ResizeRequest /\ \A id \in q.bench : id \in Nat /\ id < serial
    BY DEF RequestInv, ResizeRequest
  <2>. QED BY <1>1, <1>2, <1>6, <2>1 DEF RequestInv
<1>8. Stays
  BY <1>1 DEF Stays, Commissioner
<1>9. Fits
  <2>1. CASE Full
    <3>1. Active' = Active
      BY <1>1, <1>2, <2>1 DEF Active
    <3>. QED BY <3>1, ActiveNumber DEF Fits, TotalInv
  <2>2. CASE ~Full
    <3>1. Active' = Active \union {new}
      BY <1>1, <1>2, <2>2 DEF Active
    <3>2. Cardinality(Active') <= Cardinality(Active) + 1
      BY <3>1, OneMore, ActiveNumber
    <3>3. Cardinality(Active') \in Nat
      <4>1. IsFiniteSet(Active')
        BY <3>1, ActiveNumber, FS_AddElement
      <4>. QED BY <4>1, FS_CardinalityType
    <3>4. Cardinality(Active) < league.total
      BY <2>2, ActiveNumber DEF Full, TotalInv
    <3>. QED BY <3>2, <3>3, <3>4, ActiveNumber DEF Fits, TotalInv
  <2>. QED BY <2>1, <2>2
<1>. QED BY <1>4, <1>5, <1>6, <1>7, <1>8, <1>9

\* Rosters leave: the commissioner's only with all the others.
LEMMA LeaveStep ==
    ASSUME MInv, NEW gone, members' = {m \in members : m.id \notin gone}, serial' = serial,
           members' # {} => \A m \in Commissioner : m.id \notin gone,
           TotalInv', league'.total = league.total, requests' \subseteq requests
    PROVE  MInv' /\ Stays /\ Fits
<1>. USE DEF MInv
<1>1. members' \in SUBSET members
  OBVIOUS
<1>2. IsFiniteSet(members')
  BY <1>1, FS_Subset
<1>3. NumbersInv' /\ CommissionerInv' /\ RequestInv'
  BY <1>1 DEF NumbersInv, CommissionerInv, Commissioner, RequestInv
<1>4. Stays
  BY DEF Stays, Commissioner
<1>5. Active' \in SUBSET Active
  BY <1>1 DEF Active
<1>6. Cardinality(Active') <= Cardinality(Active) /\ Cardinality(Active') \in Nat
  <2>1. IsFiniteSet(Active') /\ Cardinality(Active') <= Cardinality(Active)
    BY <1>5, ActiveNumber, FS_Subset
  <2>. QED BY <2>1, FS_CardinalityType
<1>7. Fits
  BY <1>6, ActiveNumber DEF Fits, TotalInv
<1>. QED BY <1>2, <1>3, <1>4, <1>7

\* A roster of another member goes to the bench or comes back from it.
LEMMA BenchStep ==
    ASSUME MInv, NEW m \in members, m.slot # CommissionerSlot, NEW b \in BOOLEAN,
           members' = (members \ {m}) \union {[m EXCEPT !.benched = b]},
           serial' = serial, league' = league, RequestInv',
           ~b => ~Full
    PROVE  MInv' /\ Stays /\ Fits
<1>. USE DEF MInv
<1>. DEFINE new == [m EXCEPT !.benched = b]
<1>1. /\ m \in RosterRow /\ new \in RosterRow /\ new.id = m.id /\ new.slot = m.slot
      /\ new.benched = b
  BY DEF NumbersInv, RosterRow
<1>. HIDE DEF new
<1>2. IsFiniteSet(members \ {m})
  BY FS_Subset
<1>3. IsFiniteSet(members') /\ TotalInv'
  BY <1>2, FS_AddElement DEF new, TotalInv
<1>4. members' = (members \ {m}) \union {new}
  BY DEF new
<1>5. NumbersInv'
  BY <1>1, <1>4 DEF NumbersInv
<1>6. Commissioner' = Commissioner
  BY <1>1, <1>4 DEF Commissioner
<1>7. CommissionerInv' /\ Stays
  BY <1>1, <1>4, <1>6 DEF CommissionerInv, Stays, Commissioner
<1>8. Fits
  <2>1. CASE b
    <3>1. Active' \in SUBSET Active
      BY <1>1, <1>4, <2>1 DEF Active
    <3>2. IsFiniteSet(Active') /\ Cardinality(Active') <= Cardinality(Active)
      BY <3>1, ActiveNumber, FS_Subset
    <3>3. Cardinality(Active') \in Nat
      BY <3>2, FS_CardinalityType
    <3>. QED BY <3>2, <3>3, ActiveNumber DEF Fits, TotalInv
  <2>2. CASE ~b
    <3>1. Active' \in SUBSET (Active \union {new})
      BY <1>1, <1>4, <2>2 DEF Active
    <3>2. /\ IsFiniteSet(Active \union {new})
          /\ Cardinality(Active \union {new}) <= Cardinality(Active) + 1
      BY OneMore, ActiveNumber
    <3>3. /\ IsFiniteSet(Active') /\ Cardinality(Active') <= Cardinality(Active \union {new})
      BY <3>1, <3>2, FS_Subset
    <3>4. Cardinality(Active') \in Nat /\ Cardinality(Active \union {new}) \in Nat
      BY <3>2, <3>3, FS_CardinalityType
    <3>5. Cardinality(Active) < league.total
      BY <2>2, ActiveNumber DEF Full, TotalInv
    <3>. QED BY <3>2, <3>3, <3>4, <3>5, ActiveNumber DEF Fits, TotalInv
  <2>. QED BY <2>1, <2>2
<1>. QED BY <1>3, <1>5, <1>7, <1>8

\* A request is taken up, or done, and is not a resize.
LEMMA OtherRequest ==
    ASSUME MInv, UNCHANGED <<members, serial>>, NEW q,
           "kind" \in DOMAIN q, q.kind # "resize", q.kind = "accept" => q.user \in User,
           requests' \subseteq requests \union {q}
    PROVE  RequestInv'
BY DEF MInv, RequestInv, Commissioner

LEMMA FewerRequests ==
    ASSUME MInv, UNCHANGED <<members, serial>>, requests' \subseteq requests
    PROVE  RequestInv'
BY DEF MInv, RequestInv, Commissioner

-----------------------------------------------------------------------------
LEMMA InitMInv ==
    ASSUME Init
    PROVE  MInv
<1>. DEFINE first == [id |-> FirstId, slot |-> CommissionerSlot, user |-> Founder,
                      benched |-> FALSE]
<1>1. members = {first} /\ serial = FirstId + 1 /\ requests = {}
  BY DEF Init
<1>2. /\ first.id = FirstId /\ first.slot = CommissionerSlot /\ ~first.benched
      /\ first \in RosterRow
  BY LeagueAssumption DEF RosterRow, CommissionerSlot
<1>. HIDE DEF first
<1>3. NumbersInv /\ IsFiniteSet(members)
  <2>1. IsFiniteSet(members)
    BY <1>1, FS_Singleton
  <2>. QED BY <1>1, <1>2, <2>1, LeagueAssumption DEF NumbersInv, CommissionerSlot
<1>4. CommissionerInv
  BY <1>1, <1>2 DEF CommissionerInv, Commissioner
<1>5. TotalInv
  BY LeagueAssumption DEF Init, TotalInv
<1>. QED BY <1>1, <1>3, <1>4, <1>5 DEF MInv, RequestInv

LEMMA ByUserStep ==
    ASSUME MInv, NEW u \in User, ByUser(u)
    PROVE  MInv' /\ Stays /\ Fits
<1>1. CASE JoinPublic(u) \/ BulkAdd(u)
  BY <1>1, JoinStep DEF JoinPublic, BulkAdd
<1>2. CASE SendInvitation(u) \/ CancelInvitation(u)
  <2>1. UNCHANGED <<members, serial, league, requests>>
    BY <1>2 DEF SendInvitation, CancelInvitation
  <2>. QED BY <2>1, FewerRequests, MembersStay DEF MInv, TotalInv
<1>3. CASE Accept(u) \/ AskDecline(u)
  <2>1. UNCHANGED <<members, serial, league>>
    BY <1>3 DEF Accept, AskDecline
  <2>2. PICK kind \in {"accept", "decline"} :
           requests' = requests \union {[kind |-> kind, user |-> u]}
    BY <1>3 DEF Accept, AskDecline
  <2>. DEFINE q == [kind |-> kind, user |-> u]
  <2>3. "kind" \in DOMAIN q /\ q.kind # "resize" /\ q.user \in User
    BY <2>2
  <2>4. requests' \subseteq requests \union {q}
    BY <2>2
  <2>. HIDE DEF q
  <2>5. RequestInv'
    BY <2>1, <2>3, <2>4, OtherRequest
  <2>. QED BY <2>1, <2>5, MembersStay DEF MInv, TotalInv
<1>. QED BY <1>1, <1>2, <1>3 DEF ByUser

LEMMA ByRosterStep ==
    ASSUME MInv, NEW m \in members, ByRoster(m)
    PROVE  MInv' /\ Stays /\ Fits
<1>1. CASE Kick(m)
  <2>1. /\ members' = {n \in members : n.id \notin {m.id}} /\ UNCHANGED <<serial, league, requests>>
        /\ m.slot # CommissionerSlot
    BY <1>1 DEF Kick, Without
  <2>2. \A c \in Commissioner : c.id \notin {m.id}
    BY <2>1 DEF MInv, NumbersInv, Commissioner
  <2>3. TotalInv' /\ league'.total = league.total
    BY <2>1 DEF MInv, TotalInv
  <2>. QED BY <2>1, <2>2, <2>3, LeaveStep
<1>2. CASE Reinstate(m)
  <2>1. /\ members' = (members \ {m}) \union {[m EXCEPT !.benched = FALSE]}
        /\ UNCHANGED <<serial, league, requests>> /\ m.benched /\ ~Full
    BY <1>2 DEF Reinstate
  <2>2. m.slot # CommissionerSlot
    BY <2>1 DEF MInv, CommissionerInv, Commissioner
  <2>3. Commissioner' = Commissioner
    BY <2>1, <2>2 DEF MInv, NumbersInv, RosterRow, Commissioner
  <2>4. RequestInv'
    BY <2>1, <2>3 DEF MInv, RequestInv
  <2>. QED BY <2>1, <2>2, <2>4, BenchStep
<1>. QED BY <1>1, <1>2 DEF ByRoster

\* handleTotalRostersChange: the commissioner is not among the newest.
LEMMA NewestAreOthers ==
    ASSUME MInv, NEW count
    PROVE  /\ Newest(count) \subseteq Nat /\ \A id \in Newest(count) : id < serial
           /\ \A m \in Commissioner : m.id \notin Newest(count)
<1>1. \A id \in Newest(count) : \E m \in members : m.id = id /\ m.slot # CommissionerSlot
  BY DEF Newest, Active
<1>. QED BY <1>1 DEF MInv, NumbersInv, RosterRow, Commissioner

LEMMA AskResizeStep ==
    ASSUME MInv, NEW total \in Totals, AskResize(total)
    PROVE  MInv' /\ Stays /\ Fits
<1>. DEFINE bench == Newest(Cardinality(Active) - total)
            new == [kind |-> "resize", total |-> total, bench |-> bench]
<1>1. requests' = requests \union {new} /\ UNCHANGED <<members, serial, league>>
  BY DEF AskResize
<1>2. /\ bench \subseteq Nat /\ \A id \in bench : id < serial
      /\ \A m \in Commissioner : m.id \notin bench
  BY NewestAreOthers
<1>. HIDE DEF bench
<1>3. new \in ResizeRequest /\ new.bench = bench /\ "kind" \in DOMAIN new /\ new.kind = "resize"
  BY <1>2 DEF ResizeRequest
<1>. HIDE DEF new
<1>4. RequestInv'
  BY <1>1, <1>2, <1>3 DEF MInv, RequestInv, Commissioner
<1>. QED BY <1>1, <1>4, MembersStay DEF MInv, TotalInv

LEMMA BenchOneStep ==
    ASSUME MInv, NEW q \in requests, BenchOne(q)
    PROVE  MInv' /\ Stays /\ Fits
<1>1. PICK id \in q.bench :
        /\ requests' = (requests \ {q}) \union {[q EXCEPT !.bench = @ \ {id}]}
        /\ members' = {IF m.id = id THEN [m EXCEPT !.benched = TRUE] ELSE m : m \in members}
  BY DEF BenchOne
<1>2. /\ q \in ResizeRequest /\ \A i \in q.bench : i < serial
      /\ \A m \in Commissioner : m.id \notin q.bench
      /\ UNCHANGED <<serial, league>>
  BY DEF BenchOne, MInv, RequestInv
<1>. DEFINE new == [q EXCEPT !.bench = @ \ {id}]
<1>3. /\ new \in ResizeRequest /\ new.bench \subseteq q.bench
      /\ "kind" \in DOMAIN new /\ new.kind = "resize"
  BY <1>2 DEF ResizeRequest
<1>. HIDE DEF new
<1>4. ASSUME Commissioner' = Commissioner PROVE RequestInv'
  BY <1>1, <1>2, <1>3, <1>4 DEF MInv, RequestInv, new
<1>5. CASE \E m \in members : m.id = id
  <2>1. PICK m \in members : m.id = id
    BY <1>5
  <2>2. m.slot # CommissionerSlot
    BY <1>2, <2>1 DEF Commissioner
  <2>3. \A n \in members : n.id = id <=> n = m
    BY <2>1 DEF MInv, NumbersInv
  <2>4. members' = (members \ {m}) \union {[m EXCEPT !.benched = TRUE]}
    BY <1>1, <2>3
  <2>5. Commissioner' = Commissioner
    BY <2>2, <2>4 DEF MInv, NumbersInv, RosterRow, Commissioner
  <2>. QED BY <1>2, <1>4, <2>2, <2>4, <2>5, BenchStep
<1>6. CASE ~\E m \in members : m.id = id
  <2>1. members' = members
    BY <1>1, <1>6
  <2>2. RequestInv'
    BY <1>4, <2>1 DEF Commissioner
  <2>. QED BY <1>2, <2>1, <2>2, MembersStay DEF MInv, TotalInv
<1>. QED BY <1>5, <1>6

LEMMA GoesStep ==
    ASSUME MInv, NEW q \in requests, Goes(q) \/ Abandon(q)
    PROVE  MInv' /\ Stays /\ Fits
<1>1. CASE AcceptJoins(q)
  <2>1. requests' = requests \ {q} /\ league' = league
    BY <1>1 DEF AcceptJoins
  <2>2. CASE Join(q.user)
    <3>1. q.user \in User
      BY <1>1 DEF AcceptJoins, MInv, RequestInv
    <3>. QED BY <2>1, <2>2, <3>1, JoinStep
  <2>3. CASE UNCHANGED <<members, serial>>
    BY <2>1, <2>3, FewerRequests, MembersStay DEF MInv, TotalInv
  <2>. QED BY <1>1, <2>2, <2>3 DEF AcceptJoins
<1>2. CASE Decline(q) \/ InsertSchedule(q) \/ Finalize(q) \/ Abandon(q)
  <2>1. UNCHANGED <<members, serial, league>> /\ requests' = requests \ {q}
    BY <1>2 DEF Decline, InsertSchedule, Finalize, Abandon
  <2>. QED BY <2>1, FewerRequests, MembersStay DEF MInv, TotalInv
<1>3. CASE BenchOne(q)
  BY <1>3, BenchOneStep
<1>4. CASE Resize(q)
  <2>1. /\ UNCHANGED <<members, serial>> /\ requests' = requests \ {q}
        /\ league' = [league EXCEPT !.total = q.total] /\ q.total \in Totals
    BY <1>4 DEF Resize, MInv, RequestInv, ResizeRequest
  <2>2. TotalInv'
    BY <2>1, LeagueAssumption DEF MInv, TotalInv
  <2>. QED BY <2>1, <2>2, FewerRequests, MembersStay
<1>5. CASE SetMedian(q) \/ Control(q)
  <2>1. UNCHANGED <<members, serial>> /\ requests' = requests \ {q}
    BY <1>5 DEF SetMedian, Control
  <2>2. TotalInv'
    BY <1>5 DEF SetMedian, Control, MInv, TotalInv
  <2>. QED BY <2>1, <2>2, FewerRequests, MembersStay
<1>6. CASE CountSchedule(q)
  <2>. DEFINE new == [q EXCEPT !.kind = "insert"]
  <2>1. /\ UNCHANGED <<members, serial, league>>
        /\ requests' = (requests \ {q}) \union {new}
    BY <1>6 DEF CountSchedule
  <2>2. "kind" \in DOMAIN new /\ new.kind = "insert"
    BY DEF MInv, RequestInv
  <2>. HIDE DEF new
  <2>3. RequestInv'
    BY <2>1, <2>2, OtherRequest
  <2>. QED BY <2>1, <2>3, MembersStay DEF MInv, TotalInv
<1>. QED BY <1>1, <1>2, <1>3, <1>4, <1>5, <1>6 DEF Goes

\* resetForNewSeason: without its members, a league keeps only its first
\* roster, if that has the commissioner's number.
LEMMA ResetStep ==
    ASSUME MInv, NEW year \in ResetYears, NEW keep \in BOOLEAN, Reset(year, keep)
    PROVE  MInv' /\ Stays /\ Fits
<1>1. /\ UNCHANGED <<serial, requests>>
      /\ members' = IF keep THEN members ELSE {m \in members : m.id = CommissionerSlot}
  BY DEF Reset
<1>2. TotalInv' /\ league'.total = league.total
  BY DEF Reset, MInv, TotalInv
<1>3. CASE keep
  BY <1>1, <1>2, <1>3, FewerRequests, MembersStay
<1>4. CASE ~keep
  <2>. DEFINE gone == RosterIds \ {CommissionerSlot}
  <2>1. members' = {m \in members : m.id \notin gone}
    BY <1>1, <1>4 DEF RosterIds
  <2>2. ASSUME members' # {} PROVE \A c \in Commissioner : c.id \notin gone
    <3>1. PICK m \in members : m.id = CommissionerSlot
      BY <1>1, <1>4, <2>2
    <3>2. m.id = FirstId
      BY <3>1, LeagueAssumption DEF MInv, NumbersInv, RosterRow, CommissionerSlot
    <3>3. m \in Commissioner
      BY <3>2 DEF MInv, CommissionerInv, Commissioner
    <3>. QED BY <3>1, <3>3 DEF MInv, CommissionerInv
  <2>. HIDE DEF gone
  <2>. QED BY <1>1, <1>2, <2>1, <2>2, LeaveStep
<1>. QED BY <1>3, <1>4

LEMMA DeleteStep ==
    ASSUME MInv, Delete
    PROVE  MInv' /\ Stays /\ Fits
<1>1. members' = {m \in members : m.id \notin RosterIds} /\ serial' = serial /\ requests' = {}
  BY DEF Delete, Without
<1>2. members' = {}
  BY <1>1 DEF RosterIds
<1>3. TotalInv' /\ league'.total = league.total
  BY DEF Delete, MInv, TotalInv
<1>. QED BY <1>1, <1>2, <1>3, LeaveStep

\* The requests of the commissioner that change no roster, and the season.
LEMMA SeasonStep ==
    ASSUME MInv,
           \/ AskMedian \/ SetDues \/ AskSchedule \/ DraftStarts \/ DraftCompletes
           \/ \E week \in Played : AskFinalize(week) \/ RecalculateMedian(week)
           \/ NflGoesOn \/ AskControls \/ AdvanceWeek \/ AdvancePhase \/ AdvanceRow \/ JobCrash
    PROVE  MInv' /\ Stays /\ Fits
<1>1. UNCHANGED <<members, serial>>
  BY DEF AskMedian, SetDues, AskSchedule, DraftStarts, DraftCompletes, AskFinalize,
         RecalculateMedian, NflGoesOn, AskControls, AdvanceWeek, AdvancePhase, AdvanceRow,
         JobCrash
<1>2. TotalInv'
  BY DEF MInv, TotalInv, AskMedian, SetDues, AskSchedule, DraftStarts, DraftCompletes,
         AskFinalize, RecalculateMedian, NflGoesOn, AskControls, AdvanceWeek, AdvancePhase,
         AdvanceRow, JobCrash
<1>3. RequestInv'
  <2>1. CASE AskMedian \/ AskSchedule
    <3>. DEFINE median == [kind |-> "median", use |-> ~league.median]
                schedule == [kind |-> "schedule",
                             games |-> RoundRobin(RosterOrder, Weeks, league.year)]
    <3>1. PICK new \in {median, schedule} : requests' = requests \union {new}
      BY <2>1 DEF AskMedian, AskSchedule
    <3>2. "kind" \in DOMAIN new /\ new.kind \in {"median", "schedule"}
      BY <3>1
    <3>. QED BY <1>1, <3>1, <3>2, OtherRequest
  <2>2. CASE \E week \in Played : AskFinalize(week)
    <3>1. PICK week \in Played : AskFinalize(week)
      BY <2>2
    <3>. DEFINE new == [kind |-> "finalize", week |-> week, rows |-> Rows(GamesOf(week)),
                        median |-> league.median]
    <3>2. requests' \subseteq requests \union {new}
      BY <3>1 DEF AskFinalize
    <3>3. "kind" \in DOMAIN new /\ new.kind = "finalize"
      OBVIOUS
    <3>. HIDE DEF new
    <3>. QED BY <1>1, <3>2, <3>3, OtherRequest
  <2>3. CASE AskControls
    <3>1. PICK w, p : requests' = requests \union {[kind |-> "controls", week |-> w, phase |-> p]}
      BY <2>3 DEF AskControls
    <3>. DEFINE new == [kind |-> "controls", week |-> w, phase |-> p]
    <3>2. "kind" \in DOMAIN new /\ new.kind = "controls" /\ requests' \subseteq requests \union {new}
      BY <3>1
    <3>. HIDE DEF new
    <3>. QED BY <1>1, <3>2, OtherRequest
  <2>4. ASSUME requests' = requests PROVE RequestInv'
    BY <1>1, <2>4, FewerRequests
  <2>. QED BY <2>1, <2>2, <2>3, <2>4
       DEF SetDues, DraftStarts, DraftCompletes, RecalculateMedian, NflGoesOn, AdvanceWeek,
           AdvancePhase, AdvanceRow, JobCrash
<1>. QED BY <1>1, <1>2, <1>3, MembersStay

LEMMA NextStep ==
    ASSUME MInv, [Next]_vars
    PROVE  MInv' /\ [Stays]_vars /\ [Fits]_vars
<1>1. CASE Next
  <2>1. MInv' /\ Stays /\ Fits
    BY <1>1, ByUserStep, ByRosterStep, GoesStep, AskResizeStep, ResetStep, DeleteStep, SeasonStep
       DEF Next
  <2>. QED BY <2>1
<1>2. CASE UNCHANGED vars
  <2>1. MInv'
    BY <1>2 DEF vars, MInv, NumbersInv, CommissionerInv, Commissioner, TotalInv, RequestInv
  <2>. QED BY <1>2, <2>1
<1>. QED BY <1>1, <1>2

-----------------------------------------------------------------------------
\* In a league of any size and with any serial number of its first roster, the
\* commissioner's roster is benched, replaced or removed by nothing but the end
\* of the league: not by a smaller total, a kick or a reset.
THEOREM CommissionerKeepsPlace == Spec => CommissionerStays
<1>1. Init => MInv
  BY InitMInv
<1>2. MInv /\ [Next]_vars => MInv' /\ [Stays]_vars
  BY NextStep
<1>. QED BY <1>1, <1>2, PTL DEF Spec, CommissionerStays, Stays

\* Nothing makes a league hold more active members than its total except the
\* update that makes the total smaller.
THEOREM OnlyResizing == Spec => OnlyResizeOverfills
<1>1. Init => MInv
  BY InitMInv
<1>2. MInv /\ [Next]_vars => MInv' /\ [Fits]_vars
  BY NextStep
<1>. QED BY <1>1, <1>2, PTL DEF Spec, OnlyResizeOverfills, Fits
-----------------------------------------------------------------------------
(* Finals and medians                                                       *)

GameRow(g) == {"year", "week", "home", "away", "score", "final"} \subseteq DOMAIN g
Key(g) == <<g.year, g.week, g.home, g.away>>

\* A finalization whose rows are all still there has read every game of its week.
Covers(q, gs) ==
    q.rows \subseteq Rows(gs) => \A g \in gs : g.week = q.week => Key(g) \in q.rows

RequestFits(q, gs) ==
    /\ q.kind \in {"schedule", "insert"} => \A g \in q.games : GameRow(g)
    /\ q.kind = "finalize" => Covers(q, gs)

SInv == /\ \A g \in games : GameRow(g)
        /\ \A q \in requests : RequestFits(q, games)

\* The median of the week is what it was, as far as its rosters are still there.
Untouched(w) ==
    /\ w \in DOMAIN medians
    /\ \A r \in DOMAIN medians'[w] : r \in DOMAIN medians[w] /\ medians'[w][r] = medians[w][r]
Sound == \A w \in DOMAIN medians' : Untouched(w) \/ \A g \in games' : g.week = w => g.final

\* No schedule is written between the read of a finalization and its
\* transaction, as it can be when two schedules of one or two weeks are
\* generated at once: their keys need not meet.
NoScheduleMeanwhile ==
    [][Rows(games') \subseteq Rows(games) \/ ~\E q \in requests : q.kind = "finalize"]_vars

LEMMA FewerRows ==
    ASSUME NEW gs, NEW hs, Rows(hs) \subseteq Rows(gs), NEW q, RequestFits(q, gs)
    PROVE  RequestFits(q, hs)
<1>1. ASSUME Covers(q, gs) PROVE Covers(q, hs)
  <2>. SUFFICES ASSUME q.rows \subseteq Rows(hs), NEW h \in hs, h.week = q.week
                PROVE  Key(h) \in q.rows
    BY DEF Covers
  <2>1. Key(h) \in Rows(gs)
    BY DEF Rows, Key
  <2>2. PICK g \in gs : Key(g) = Key(h)
    BY <2>1 DEF Rows, Key
  <2>3. g.week = h.week
    BY <2>2 DEF Key
  <2>. QED BY <1>1, <2>2, <2>3 DEF Covers
<1>. QED BY <1>1 DEF RequestFits

\* A step that adds no game and stores no median.
LEMMA Quiet ==
    ASSUME SInv, games' \subseteq games,
           \A q \in requests' : q \in requests \/ RequestFits(q, games),
           \A w \in DOMAIN medians' : Untouched(w)
    PROVE  SInv' /\ Sound
<1>1. Rows(games') \subseteq Rows(games)
  BY DEF Rows
<1>2. \A q \in requests' : RequestFits(q, games)
  BY DEF SInv
<1>3. \A q \in requests' : RequestFits(q, games')
  BY <1>1, <1>2, FewerRows
<1>. QED BY <1>3 DEF SInv, Sound

LEMMA SameMedians ==
    ASSUME medians' = medians
    PROVE  \A w \in DOMAIN medians' : Untouched(w)
BY DEF Untouched

LEMMA WithoutStep ==
    ASSUME SInv, NEW gone, Without(gone), requests' \subseteq requests
    PROVE  SInv' /\ Sound
<1>1. games' \subseteq games
  BY DEF Without
<1>2. \A w \in DOMAIN medians' : Untouched(w)
  BY DEF Without, Untouched, Restrict
<1>. QED BY <1>1, <1>2, Quiet

\* A step that touches neither games nor medians, and asks for nothing that
\* writes them.
LEMMA OtherStep ==
    ASSUME SInv, games' = games, medians' = medians,
           \A q \in requests' : q \in requests \/ q.kind \notin {"schedule", "insert", "finalize"}
    PROVE  SInv' /\ Sound
<1>1. \A q \in requests' : q \in requests \/ RequestFits(q, games)
  BY DEF RequestFits
<1>. QED BY <1>1, SameMedians, Quiet

LEMMA NewGames ==
    ASSUME NEW ids, NEW weeks, NEW year, NEW g \in RoundRobin(ids, weeks, year)
    PROVE  GameRow(g)
<1>. DEFINE teams == IF Len(ids) % 2 = 0 THEN ids ELSE Append(ids, -1)
            n == Len(teams)
            round(w) == (w - 1) % (n - 1)
            pair(w, i) == {Rotated(teams, round(w))[i], Rotated(teams, round(w))[n + 1 - i]}
            home(w, p) == IF round(w) % 2 = 0 THEN Min(p) ELSE Max(p)
            away(w, p) == CHOOSE x \in p : x # home(w, p)
<1>0. RoundRobin(ids, weeks, year) =
        UNION {{NewGame(year, w, home(w, pair(w, i)), away(w, pair(w, i)))
                  : i \in {i \in 1..(n \div 2) : -1 \notin pair(w, i)}} : w \in 1..weeks}
  BY Zenon DEF RoundRobin
<1>. HIDE DEF teams, n, round, pair, home, away
<1>1. PICK w, h, a : g = NewGame(year, w, h, a)
  BY <1>0, Zenon
<1>. QED BY <1>1 DEF NewGame, GameRow

\* A schedule is written, while no finalization is under way or over its rows.
LEMMA ScheduleStep ==
    ASSUME SInv, medians' = medians, requests' \subseteq requests,
           \A g \in games' : GameRow(g),
           Rows(games') \subseteq Rows(games) \/ ~\E q \in requests : q.kind = "finalize"
    PROVE  SInv' /\ Sound
<1>1. ASSUME NEW q \in requests' PROVE RequestFits(q, games')
  <2>1. CASE Rows(games') \subseteq Rows(games)
    BY <1>1, <2>1, FewerRows DEF SInv
  <2>2. CASE ~\E p \in requests : p.kind = "finalize"
    BY <1>1, <2>2 DEF SInv, RequestFits
  <2>. QED BY <2>1, <2>2
<1>. QED BY <1>1, SameMedians DEF SInv, Sound

LEMMA StoreStep ==
    ASSUME NEW week, StoreMedian(week), NEW w \in DOMAIN medians', w # week
    PROVE  Untouched(w)
BY DEF StoreMedian, Untouched

LEMMA FinalizeStep ==
    ASSUME SInv, NEW q \in requests, Finalize(q)
    PROVE  SInv' /\ Sound
<1>1. q.kind = "finalize" /\ requests' \subseteq requests /\ Covers(q, games)
  BY Zenon DEF Finalize, SInv, RequestFits
<1>2. CASE ~(q.rows \subseteq Rows(games))
  BY <1>1, <1>2, SameMedians, Quiet DEF Finalize
<1>3. CASE q.rows \subseteq Rows(games)
  <2>. DEFINE Made(g) == [g EXCEPT !.final = TRUE,
                                   !.score = <<Score(g.home, q.week), Score(g.away, q.week)>>]
  <2>1. games' = {IF Rows({g}) \subseteq q.rows THEN Made(g) ELSE g : g \in games}
    BY <1>3, Zenon DEF Finalize
  <2>2. ASSUME NEW g \in games
        PROVE  GameRow(Made(g)) /\ Key(Made(g)) = Key(g) /\ Made(g).final /\ GameRow(g)
               /\ Made(g).week = g.week
    BY DEF SInv, GameRow, Key
  <2>3. ASSUME NEW g, Key(g) \in q.rows PROVE Rows({g}) \subseteq q.rows
    BY <2>3 DEF Rows, Key
  <2>. HIDE DEF Made
  <2>4. ASSUME NEW h \in games'
        PROVE  /\ GameRow(h)
               /\ \E g \in games : Key(h) = Key(g)
               /\ h.week = q.week => h.final
    <3>1. PICK g \in games : h = IF Rows({g}) \subseteq q.rows THEN Made(g) ELSE g
      BY <2>1
    <3>2. ASSUME h.week = q.week PROVE h.final
      <4>1. g.week = q.week
        BY <2>2, <3>1, <3>2
      <4>2. Key(g) \in q.rows
        BY <1>1, <1>3, <4>1 DEF Covers
      <4>. QED BY <2>2, <2>3, <3>1, <4>2
    <3>. QED BY <2>2, <3>1, <3>2
  <2>5. Rows(games') \subseteq Rows(games)
    BY <2>4 DEF Rows, Key
  <2>6. SInv'
    BY <1>1, <2>4, <2>5, FewerRows DEF SInv
  <2>7. ASSUME NEW w \in DOMAIN medians', w # q.week PROVE Untouched(w)
    <3>1. StoreMedian(q.week) \/ medians' = medians
      BY <1>3, Zenon DEF Finalize
    <3>. QED BY <2>7, <3>1, StoreStep, SameMedians
  <2>. QED BY <2>4, <2>6, <2>7 DEF Sound
<1>. QED BY <1>2, <1>3

LEMMA MedianByUser ==
    ASSUME SInv, NEW u \in User, ByUser(u)
    PROVE  SInv' /\ Sound
<1>1. games' = games /\ medians' = medians
  BY DEF ByUser, JoinPublic, BulkAdd, SendInvitation, Accept, AskDecline, CancelInvitation, season
<1>2. \/ requests' = requests
      \/ requests' = requests \union {[kind |-> "accept", user |-> u]}
      \/ requests' = requests \union {[kind |-> "decline", user |-> u]}
  BY DEF ByUser, JoinPublic, BulkAdd, SendInvitation, Accept, AskDecline, CancelInvitation
<1>. QED BY <1>1, <1>2, OtherStep

LEMMA MedianByRoster ==
    ASSUME SInv, NEW m \in members, ByRoster(m)
    PROVE  SInv' /\ Sound
<1>1. CASE Kick(m)
  BY <1>1, WithoutStep DEF Kick
<1>2. CASE Reinstate(m)
  BY <1>2, OtherStep DEF Reinstate, season
<1>. QED BY <1>1, <1>2 DEF ByRoster

\* The requests that end without writing games or medians.
LEMMA MedianGoes ==
    ASSUME MInv, SInv, NEW q \in requests, Goes(q) \/ Abandon(q),
           Rows(games') \subseteq Rows(games) \/ ~\E p \in requests : p.kind = "finalize"
    PROVE  SInv' /\ Sound
<1>0. "kind" \in DOMAIN q
  BY DEF MInv, RequestInv
<1>1. CASE AcceptJoins(q) \/ Decline(q) \/ Resize(q) \/ SetMedian(q) \/ Control(q) \/ Abandon(q)
  <2>1. games' = games /\ medians' = medians /\ requests' = requests \ {q}
    BY <1>1 DEF AcceptJoins, Decline, Resize, SetMedian, Control, Abandon, season
  <2>. QED BY <2>1, OtherStep
<1>2. CASE BenchOne(q)
  <2>1. PICK id \in q.bench :
          requests' = (requests \ {q}) \union {[q EXCEPT !.bench = @ \ {id}]}
    BY <1>2 DEF BenchOne
  <2>2. [q EXCEPT !.bench = @ \ {id}].kind = "resize"
    BY <1>0, <1>2 DEF BenchOne
  <2>3. games' = games /\ medians' = medians
    BY <1>2 DEF BenchOne, season
  <2>. QED BY <2>1, <2>2, <2>3, OtherStep
<1>3. CASE CountSchedule(q)
  <2>. DEFINE new == [q EXCEPT !.kind = "insert"]
  <2>1. requests' = (requests \ {q}) \union {new} /\ games' = games /\ medians' = medians
    BY <1>3 DEF CountSchedule, season
  <2>2. new.kind = "insert" /\ new.games = q.games
    BY <1>0
  <2>3. q.kind = "schedule" /\ RequestFits(q, games)
    BY <1>3 DEF CountSchedule, SInv
  <2>. HIDE DEF new
  <2>4. RequestFits(new, games)
    BY <2>2, <2>3 DEF RequestFits
  <2>. QED BY <2>1, <2>4, SameMedians, Quiet
<1>4. CASE InsertSchedule(q)
  <2>1. /\ medians' = medians /\ requests' \subseteq requests /\ q.kind = "insert"
        /\ games' \subseteq games \union q.games
    BY <1>4, Zenon DEF InsertSchedule
  <2>2. \A g \in games' : GameRow(g)
    BY <2>1 DEF SInv, RequestFits
  <2>. QED BY <2>1, <2>2, ScheduleStep
<1>5. CASE Finalize(q)
  BY <1>5, FinalizeStep
<1>. QED BY <1>1, <1>2, <1>3, <1>4, <1>5 DEF Goes

LEMMA MedianAskFinalize ==
    ASSUME SInv, NEW week \in Played, AskFinalize(week)
    PROVE  SInv' /\ Sound
<1>. DEFINE new == [kind |-> "finalize", week |-> week, rows |-> Rows(GamesOf(week)),
                    median |-> league.median]
<1>1. requests' \subseteq requests \union {new} /\ games' = games /\ medians' = medians
  BY DEF AskFinalize
<1>2. ASSUME NEW g \in games, g.week = week PROVE Key(g) \in Rows(GamesOf(week))
  BY <1>2 DEF Rows, GamesOf, Key
<1>3. RequestFits(new, games)
  BY <1>2 DEF RequestFits, Covers
<1>. HIDE DEF new
<1>. QED BY <1>1, <1>3, SameMedians, Quiet

LEMMA MedianRecalculate ==
    ASSUME SInv, NEW week \in Played, RecalculateMedian(week)
    PROVE  SInv' /\ Sound
<1>1. games' = games /\ requests' = requests /\ StoreMedian(week)
      /\ \A g \in games : g.week = week => g.final
  BY DEF RecalculateMedian, GamesOf
<1>2. \A w \in DOMAIN medians' : w # week => Untouched(w)
  BY <1>1, StoreStep
<1>. QED BY <1>1, <1>2 DEF SInv, Sound

LEMMA MedianSeason ==
    ASSUME SInv,
           \/ \E total \in Totals : AskResize(total)
           \/ AskMedian \/ SetDues \/ DraftStarts \/ NflGoesOn \/ AskControls
           \/ AdvanceWeek \/ AdvancePhase \/ AdvanceRow \/ JobCrash
    PROVE  SInv' /\ Sound
<1>1. games' = games /\ medians' = medians
  BY DEF AskResize, AskMedian, SetDues, DraftStarts, NflGoesOn, AskControls, AdvanceWeek,
         AdvancePhase, AdvanceRow, JobCrash, season
<1>2. CASE \E total \in Totals : AskResize(total)
  <2>1. PICK total, bench :
          requests' = requests \union {[kind |-> "resize", total |-> total, bench |-> bench]}
    BY <1>2 DEF AskResize
  <2>. QED BY <1>1, <2>1, OtherStep
<1>3. CASE AskMedian
  <2>1. requests' = requests \union {[kind |-> "median", use |-> ~league.median]}
    BY <1>3 DEF AskMedian
  <2>. QED BY <1>1, <2>1, OtherStep
<1>4. CASE AskControls
  <2>1. PICK w, p : requests' = requests \union {[kind |-> "controls", week |-> w, phase |-> p]}
    BY <1>4 DEF AskControls
  <2>. QED BY <1>1, <2>1, OtherStep
<1>5. ASSUME requests' = requests PROVE SInv' /\ Sound
  BY <1>1, <1>5, OtherStep
<1>. QED BY <1>2, <1>3, <1>4, <1>5
     DEF SetDues, DraftStarts, NflGoesOn, AdvanceWeek, AdvancePhase, AdvanceRow, JobCrash

LEMMA MedianNext ==
    ASSUME MInv, SInv, [Next]_vars,
           [Rows(games') \subseteq Rows(games) \/ ~\E q \in requests : q.kind = "finalize"]_vars
    PROVE  SInv' /\ [Sound]_vars
<1>1. CASE UNCHANGED vars
  BY <1>1 DEF vars, SInv
<1>. SUFFICES ASSUME Next, ~(UNCHANGED vars) PROVE SInv' /\ Sound
  BY <1>1
<1>2. ASSUME NEW q \in requests, Goes(q) \/ Abandon(q) PROVE SInv' /\ Sound
  BY <1>2, MedianGoes
<1>3. ASSUME NEW year \in ResetYears, NEW keep \in BOOLEAN, Reset(year, keep)
      PROVE  SInv' /\ Sound
  <2>1. games' = {} /\ requests' = requests /\ (medians' = medians \/ medians' = <<>>)
    BY <1>3 DEF Reset
  <2>2. \A w \in DOMAIN medians' : Untouched(w)
    BY <2>1, SameMedians
  <2>. QED BY <2>1, <2>2, Quiet
<1>4. CASE Delete
  BY <1>4, WithoutStep DEF Delete
<1>5. CASE AskSchedule
  <2>. DEFINE new == [kind |-> "schedule", games |-> RoundRobin(RosterOrder, Weeks, league.year)]
  <2>1. requests' = requests \union {new} /\ games' = games /\ medians' = medians
    BY <1>5 DEF AskSchedule, season
  <2>2. RequestFits(new, games)
    BY NewGames DEF RequestFits
  <2>. HIDE DEF new
  <2>. QED BY <2>1, <2>2, SameMedians, Quiet
<1>6. CASE DraftCompletes
  <2>1. /\ medians' = medians /\ requests' = requests
        /\ games' = games \/ games' = RoundRobin(RosterOrder, Weeks, league.year)
    BY <1>6 DEF DraftCompletes
  <2>2. \A g \in games' : GameRow(g)
    BY <2>1, NewGames DEF SInv
  <2>. QED BY <2>1, <2>2, ScheduleStep
<1>. QED BY <1>2, <1>3, <1>4, <1>5, <1>6, MedianByUser, MedianByRoster, MedianAskFinalize,
            MedianRecalculate, MedianSeason DEF Next

\* A median is stored only with every game of its week final, whatever is
\* kicked, reset, finalized or generated again, unless a schedule is written
\* while a finalization is under way.
THEOREM MediansFollowFinals == Spec /\ NoScheduleMeanwhile => MedianAfterFinal
<1>1. Init => MInv /\ SInv
  BY InitMInv DEF Init, SInv
<1>2. MInv /\ [Next]_vars => MInv'
  BY NextStep
<1>3. MInv /\ SInv /\ [Next]_vars
        /\ [Rows(games') \subseteq Rows(games) \/ ~\E q \in requests : q.kind = "finalize"]_vars
        => SInv' /\ [Sound]_vars
  BY MedianNext
<1>4. [Sound]_vars =>
        [\A w \in DOMAIN medians' :
           \/ /\ w \in DOMAIN medians
              /\ \A r \in DOMAIN medians'[w] :
                    r \in DOMAIN medians[w] /\ medians'[w][r] = medians[w][r]
           \/ \A g \in games' : g.week = w => g.final]_vars
  BY DEF Sound, Untouched
<1>. QED BY <1>1, <1>2, <1>3, <1>4, PTL DEF Spec, NoScheduleMeanwhile, MedianAfterFinal


-----------------------------------------------------------------------------
(* The brackets of the playoffs                                            *)

\* The columns of a row of matchups.
RowColumns == {"bid", "bt", "round", "pos", "game", "len", "week", "a", "sa", "b", "sb",
             "final", "pa", "pb"}

\* Seeds that may play in a round, and its positions.
SeedsIn(bt, r) == (1..TeamsOf(bt)) \ (IF r = 1 THEN ByeSeeds(TeamsOf(bt)) ELSE {})
Positions(bt, r) == IF TeamsOf(bt) = 8 /\ r = 1 THEN 1..4 ELSE 1..2

\* A row of a round: its week, its position and its two seeds belong to the
\* round, and each team is the roster of its seed.
RowOK(g) ==
    /\ DOMAIN g = RowColumns
    /\ g.bt \in BracketTypes /\ g.round \in 1..RoundsOf(g.bt)
    /\ g.pos \in Positions(g.bt, g.round)
    /\ g.len = WeeksOf(g.round) /\ g.game \in 1..g.len
    /\ g.week = WeekStart(g.round) + g.game - 1
    /\ g.sa \in SeedsIn(g.bt, g.round) /\ g.a = SeedRoster(g.bt, g.sa)
    /\ g.sb \in SeedsIn(g.bt, g.round) /\ g.b = SeedRoster(g.bt, g.sb)
    /\ g.sa # g.sb
    /\ g.bt = "THIRD_PLACE" => g.round = TotalRounds /\ g.pos = 2 /\ EnableThirdPlace

SeedsOf(g) == {g.sa, g.sb}
SameRound(g, h) == g.bt = h.bt /\ g.round = h.round

\* Two rows: a slot is taken once, the games of one position have the same
\* teams, and the positions of one round share no team.  The final and the
\* third place game share none either, and both can fall in one week.
RowsAgree(g, h) ==
    /\ SlotOf(g) = SlotOf(h) => g = h
    /\ SameRound(g, h) /\ g.pos = h.pos => g.sa = h.sa /\ g.sb = h.sb
    /\ SameRound(g, h) /\ g.pos # h.pos => SeedsOf(g) \intersect SeedsOf(h) = {}
    /\ g.bt = "WINNERS" /\ g.round = TotalRounds /\ h.bt = "THIRD_PLACE" =>
          SeedsOf(g) \intersect SeedsOf(h) = {}

HasRound(G, bt, r) == \E g \in G : g.bt = bt /\ g.round = r

\* Rows that fit together.
Good(G) ==
    /\ \A g \in G : RowOK(g)
    /\ \A g, h \in G : RowsAgree(g, h)

\* The third place game is there exactly when the final is.
ThirdWithFinal(G) ==
    EnableThirdPlace => (HasRound(G, "THIRD_PLACE", TotalRounds) <=> HasRound(G, "WINNERS", TotalRounds))

\* A round that is played in the given week, and what an advancement has read.
InRound(bt, r, week) == r \in 1..RoundsOf(bt) /\ week \in WeekStart(r)..WeekEnd(r)
AdvanceOK(r) ==
    /\ r.winners = 0 \/ InRound("WINNERS", r.winners, r.week)
    /\ r.consolation = 0 \/ InRound("CONSOLATION", r.consolation, r.week)
    /\ r.third \in Winner

\* The invariant of the bracket: what is in force, and what the requests that
\* are under way have read of it.
PInv ==
    /\ Good(matchups) /\ ThirdWithFinal(matchups)
    /\ GamesHaveBracket
    /\ bracket = Null \/ bracket \in Bracket
    /\ made \in 0..MaxBrackets
    /\ DOMAIN req = Requests
    /\ \A p \in Requests : req[p] # Null /\ req[p].op = "advance" => AdvanceOK(req[p])

-----------------------------------------------------------------------------
(* The configuration of a bracket                                          *)

LEMMA BracketConfig ==
    /\ TotalRounds \in {2, 3}
    /\ \A bt : RoundsOf(bt) \in {2, 3} /\ TeamsOf(bt) \in {0, 4, 6, 8}
    /\ RoundsOf("WINNERS") = TotalRounds /\ RoundsOf("THIRD_PLACE") = TotalRounds
    /\ TeamsOf("WINNERS") = PlayoffTeams /\ TeamsOf("THIRD_PLACE") = PlayoffTeams
    /\ TeamsOf("CONSOLATION") = ConsolationTeams
    /\ \A r \in Int : WeeksOf(r) \in {1, 2} /\ WeekStart(r) \in Int
    /\ PlayoffTeams \in Nat /\ ConsolationTeams \in Nat
<1>1. \A r \in Int : WeeksOf(r) \in {1, 2}
  BY BracketAssumption DEF WeeksOf
<1>2. \A r \in Int : WeekStart(r) \in Int
  BY <1>1, BracketAssumption DEF WeekStart
<1>. QED
  BY <1>1, <1>2, BracketAssumption
     DEF TotalRounds, RoundsOf, TeamsOf, CalculateTotalRounds

\* Rounds do not overlap.
LEMMA WeekOfOneRound ==
    ASSUME NEW r \in 1..3, NEW s \in 1..3, NEW week \in Int,
           week \in WeekStart(r)..WeekEnd(r), week \in WeekStart(s)..WeekEnd(s)
    PROVE  r = s
<1>1. WeeksOf(1) \in {1, 2} /\ WeeksOf(2) \in {1, 2} /\ WeeksOf(3) \in {1, 2} /\ StartWeek \in Int
  BY BracketConfig, BracketAssumption
<1>2. /\ WeekStart(1) = StartWeek
      /\ WeekStart(2) = StartWeek + WeeksOf(1)
      /\ WeekStart(3) = StartWeek + WeeksOf(1) + WeeksOf(2)
  BY <1>1 DEF WeekStart
<1>. QED BY <1>1, <1>2 DEF WeekEnd

LEMMA SeedsArePlaces ==
    ASSUME NEW bt, NEW r
    PROVE  SeedsIn(bt, r) \subseteq 1..TeamsOf(bt) /\ SeedsIn(bt, r) \subseteq Nat
BY BracketConfig DEF SeedsIn

\* A roster of the bracket is one of the standings.
LEMMA RostersOfSeeds ==
    ASSUME NEW bt \in BracketTypes, NEW s \in 1..TeamsOf(bt)
    PROVE  SeedRoster(bt, s) \in 1..(PlayoffTeams + ConsolationTeams)
BY BracketConfig DEF SeedRoster, BracketTypes

-----------------------------------------------------------------------------
(* Rows that are written together                                          *)

\* Position, better seed and other seed of the pairings of a round.
FixturesOK(bt, r, Z) ==
    /\ \A z \in Z : /\ z[1] \in Positions(bt, r) /\ z[2] # z[3]
                    /\ z[2] \in SeedsIn(bt, r) /\ z[3] \in SeedsIn(bt, r)
    /\ \A y, z \in Z : y[1] = z[1] => y = z
    /\ \A y, z \in Z : y # z => {y[2], y[3]} \intersect {z[2], z[3]} = {}
    /\ bt = "THIRD_PLACE" => /\ r = TotalRounds /\ EnableThirdPlace
                              /\ \A z \in Z : z[1] = 2

RowOf(bid, bt, r, z, k) ==
    [bid |-> bid, bt |-> bt, round |-> r, pos |-> z[1], game |-> k, len |-> WeeksOf(r),
     week |-> WeekStart(r) + k - 1, a |-> SeedRoster(bt, z[2]), sa |-> z[2],
     b |-> SeedRoster(bt, z[3]), sb |-> z[3], final |-> FALSE, pa |-> 0, pb |-> 0]

RowsOf(bid, bt, r, Z, rows) ==
    \A g \in rows : \E z \in Z : \E k \in 1..WeeksOf(r) : g = RowOf(bid, bt, r, z, k)

LEMMA FixturesAreGood ==
    ASSUME NEW bid, NEW bt \in BracketTypes, NEW r \in 1..RoundsOf(bt), NEW Z, NEW rows,
           FixturesOK(bt, r, Z), RowsOf(bid, bt, r, Z, rows)
    PROVE  /\ Good(rows)
           /\ \A g \in rows : g.bt = bt /\ g.round = r
           /\ \A g \in rows : \E z \in Z : SeedsOf(g) = {z[2], z[3]}
<1>1. ASSUME NEW g \in rows
      PROVE  RowOK(g) /\ g.bt = bt /\ g.round = r /\ \E z \in Z : SeedsOf(g) = {z[2], z[3]}
  <2>1. PICK z \in Z, k \in 1..WeeksOf(r) : g = RowOf(bid, bt, r, z, k)
    BY DEF RowsOf
  <2>2. RowOK(g)
    BY <2>1 DEF RowOK, RowOf, FixturesOK, RowColumns
  <2>. QED BY <2>1, <2>2 DEF RowOf, SeedsOf
<1>2. ASSUME NEW g \in rows, NEW h \in rows
      PROVE  RowsAgree(g, h)
  <2>1. PICK z \in Z, k \in 1..WeeksOf(r) : g = RowOf(bid, bt, r, z, k)
    BY DEF RowsOf
  <2>2. PICK y \in Z, j \in 1..WeeksOf(r) : h = RowOf(bid, bt, r, y, j)
    BY DEF RowsOf
  <2>3. /\ g.bt = bt /\ g.round = r /\ g.pos = z[1] /\ g.game = k /\ g.sa = z[2] /\ g.sb = z[3]
        /\ h.bt = bt /\ h.round = r /\ h.pos = y[1] /\ h.game = j /\ h.sa = y[2] /\ h.sb = y[3]
    BY <2>1, <2>2 DEF RowOf
  <2>4. z[1] = y[1] => z = y
    BY DEF FixturesOK
  <2>5. z # y => {z[2], z[3]} \intersect {y[2], y[3]} = {}
    BY DEF FixturesOK
  <2>6. SlotOf(g) = SlotOf(h) => z = y /\ k = j
    BY <2>3, <2>4 DEF SlotOf
  <2>. QED BY <2>1, <2>2, <2>3, <2>4, <2>5, <2>6 DEF RowsAgree, SameRound, SeedsOf
<1>. QED BY <1>1, <1>2 DEF Good

\* No seed is in the final and in the game for the third place.
Apart(G, H) ==
    \A g \in G, h \in H : /\ g.bt = "WINNERS" /\ g.round = TotalRounds
                          /\ h.bt = "THIRD_PLACE"
                          => SeedsOf(g) \intersect SeedsOf(h) = {}

LEMMA GoodTogether ==
    ASSUME NEW G, NEW H, Good(G), Good(H), \A g \in G, h \in H : ~SameRound(g, h),
           Apart(G, H), Apart(H, G)
    PROVE  Good(G \union H) /\ WithRows(G, H) = G \union H
<1>1. ASSUME NEW g \in G, NEW h \in H
      PROVE  RowsAgree(g, h) /\ RowsAgree(h, g) /\ SlotOf(g) # SlotOf(h)
  BY <1>1 DEF RowsAgree, SameRound, SlotOf, Apart
<1>. QED BY <1>1 DEF Good, WithRows

-----------------------------------------------------------------------------
(* Winners in the order of their positions                                 *)

LEMMA Places ==
    ASSUME NEW W, \A w \in W : w.pos \in 1..4, NEW x \in W, NEW y \in W
    PROVE  /\ Place(x, W) \in 0..3
           /\ x.pos < y.pos => Place(x, W) < Place(y, W)
           /\ Place(x, W) <= x.pos - 1
<1> DEFINE Before(v) == {u.pos : u \in W} \cap (1..(v.pos - 1))
<1>1. ASSUME NEW v \in W
      PROVE  /\ IsFiniteSet(Before(v)) /\ Cardinality(Before(v)) \in Nat
             /\ Cardinality(Before(v)) <= v.pos - 1
             /\ Place(v, W) = Cardinality(Before(v))
  <2>1. v.pos - 1 \in 0..3
    OBVIOUS
  <2>2. IsFiniteSet(1..(v.pos - 1)) /\ Cardinality(1..(v.pos - 1)) = v.pos - 1
    BY <2>1, FS_Interval
  <2>3. IsFiniteSet(Before(v)) /\ Cardinality(Before(v)) <= v.pos - 1
    BY <2>2, FS_Subset
  <2>. QED BY <2>3, FS_CardinalityType DEF Place
<1>2. ASSUME x.pos < y.pos
      PROVE  Place(x, W) < Place(y, W)
  <2>1. Before(x) \union {x.pos} \subseteq Before(y) /\ x.pos \notin Before(x)
    BY <1>2
  <2>2. Cardinality(Before(x) \union {x.pos}) = Cardinality(Before(x)) + 1
    BY <1>1, <2>1, FS_AddElement
  <2>3. Cardinality(Before(x) \union {x.pos}) <= Cardinality(Before(y))
    BY <1>1, <2>1, FS_Subset
  <2>. QED BY <1>1, <2>2, <2>3
<1>3. Place(x, W) \in Nat /\ Place(x, W) <= x.pos - 1
  BY <1>1
<1>4. x.pos - 1 \in 0..3
  OBVIOUS
<1>. QED BY <1>2, <1>3, <1>4

-----------------------------------------------------------------------------
(* Completed series                                                        *)

LEMMA SeriesTeams ==
    ASSUME Good(matchups), NEW g \in matchups, HasSeries(g),
           NEW s, s = SeriesOf(g)
    PROVE  /\ g \in s /\ SomeGame(s) \in s /\ SomeGame(s).pos = g.pos
           /\ SeriesWinner(s) \in {g.a, g.b} /\ SeriesLoser(s) \in {g.a, g.b}
           /\ \/ /\ SeedIn(s, SeriesWinner(s)) = g.sa /\ SeriesWinner(s) = g.a
                 /\ SeedIn(s, SeriesLoser(s)) = g.sb /\ SeriesLoser(s) = g.b
              \/ /\ SeedIn(s, SeriesWinner(s)) = g.sb /\ SeriesWinner(s) = g.b
                 /\ SeedIn(s, SeriesLoser(s)) = g.sa /\ SeriesLoser(s) = g.a
<1> DEFINE h == SomeGame(s)
<1>1. g \in s
  BY DEF SeriesOf
<1>2. h \in s
  BY <1>1 DEF SomeGame
<1>3. h \in matchups /\ SameRound(h, g) /\ h.pos = g.pos
  BY <1>2 DEF SeriesOf, SameRound
<1>4. h.sa = g.sa /\ h.sb = g.sb
  BY <1>3 DEF Good, RowsAgree
<1>5. RowOK(g) /\ RowOK(h)
  BY <1>3 DEF Good
<1>6. h.a = g.a /\ h.b = g.b
  BY <1>3, <1>4, <1>5 DEF RowOK, SameRound
<1>7. g.a # g.b
  <2>1. g.sa \in Nat /\ g.sb \in Nat /\ g.sa # g.sb
    BY <1>5, SeedsArePlaces DEF RowOK
  <2>. QED BY <2>1, <1>5, BracketConfig DEF RowOK, SeedRoster
<1>8. SeriesWinner(s) \in {h.a, h.b}
  BY DEF SeriesWinner, Resolve
<1>9. SeriesLoser(s) = IF SeriesWinner(s) = h.a THEN h.b ELSE h.a
  BY DEF SeriesLoser
<1>10. \A x : SeedIn(s, x) = IF x = h.a THEN h.sa ELSE h.sb
  BY DEF SeedIn
<1>. QED
  <2> HIDE DEF h
  <2>1. SomeGame(s) = h
    BY DEF h
  <2>. QED BY <1>1, <1>2, <1>3, <1>4, <1>6, <1>7, <1>8, <1>9, <1>10, <2>1

\* What the completed series of a week in a round have to offer: a winner and
\* a loser with its seed, and no seed twice.
Won(s) == [roster |-> SeriesWinner(s), seed |-> SeedIn(s, SeriesWinner(s)), pos |-> SomeGame(s).pos]
Lost(s) == [roster |-> SeriesLoser(s), seed |-> SeedIn(s, SeriesLoser(s))]

Contest(bt, r, s) ==
    /\ SomeGame(s).pos \in Positions(bt, r)
    /\ Won(s).seed \in SeedsIn(bt, r) /\ Won(s).roster = SeedRoster(bt, Won(s).seed)
    /\ Lost(s).seed \in SeedsIn(bt, r) /\ Lost(s).roster = SeedRoster(bt, Lost(s).seed)
    /\ Won(s).seed # Lost(s).seed

Contests(bt, r, C) ==
    /\ \A s \in C : Contest(bt, r, s)
    /\ \A s, t \in C : SomeGame(s).pos = SomeGame(t).pos => s = t
    /\ \A s, t \in C : s # t =>
          {Won(s).seed, Lost(s).seed} \intersect {Won(t).seed, Lost(t).seed} = {}

LEMMA CompletedAreContests ==
    ASSUME Good(matchups), NEW bt \in {"WINNERS", "CONSOLATION"}, NEW week, NEW r,
           InRound(bt, r, week)
    PROVE  Contests(bt, r, CompletedSeries(bt, week))
<1> DEFINE C == CompletedSeries(bt, week)
           Witness(s, g) == /\ g \in matchups /\ HasSeries(g) /\ s = SeriesOf(g)
                            /\ g.bt = bt /\ g.round = r
<1>1. ASSUME NEW s \in C
      PROVE  \E g : Witness(s, g)
  <2>1. PICK g \in matchups : /\ g.bt = bt /\ g.week = week /\ HasSeries(g)
                              /\ s = SeriesOf(g)
    BY DEF CompletedSeries
  <2>2. RowOK(g)
    BY DEF Good
  <2>3. g.round \in 1..3 /\ r \in 1..3 /\ WeekStart(g.round) \in Int /\ WeekStart(r) \in Int
        /\ WeeksOf(g.round) \in {1, 2} /\ WeeksOf(r) \in {1, 2}
    BY <2>1, <2>2, BracketConfig DEF RowOK, InRound
  <2>4. week \in WeekStart(g.round)..WeekEnd(g.round) /\ week \in Int
    BY <2>1, <2>2, <2>3 DEF RowOK, WeekEnd
  <2>5. g.round = r
    BY <2>3, <2>4, WeekOfOneRound DEF InRound
  <2>. QED BY <2>1, <2>5
<1>2. ASSUME NEW s, NEW g, Witness(s, g)
      PROVE  /\ Contest(bt, r, s)
             /\ SomeGame(s).pos = g.pos /\ {Won(s).seed, Lost(s).seed} = SeedsOf(g)
  <2>1. RowOK(g)
    BY <1>2 DEF Good
  <2>2. /\ g.pos \in Positions(bt, r)
        /\ g.sa \in SeedsIn(bt, r) /\ g.a = SeedRoster(bt, g.sa)
        /\ g.sb \in SeedsIn(bt, r) /\ g.b = SeedRoster(bt, g.sb)
        /\ g.sa # g.sb
    BY <1>2, <2>1 DEF RowOK
  <2>3. /\ Won(s).roster = SeriesWinner(s) /\ Won(s).seed = SeedIn(s, SeriesWinner(s))
        /\ Lost(s).roster = SeriesLoser(s) /\ Lost(s).seed = SeedIn(s, SeriesLoser(s))
    BY DEF Won, Lost
  <2>4. /\ SomeGame(s).pos = g.pos
        /\ \/ /\ SeedIn(s, SeriesWinner(s)) = g.sa /\ SeriesWinner(s) = g.a
              /\ SeedIn(s, SeriesLoser(s)) = g.sb /\ SeriesLoser(s) = g.b
           \/ /\ SeedIn(s, SeriesWinner(s)) = g.sb /\ SeriesWinner(s) = g.b
              /\ SeedIn(s, SeriesLoser(s)) = g.sa /\ SeriesLoser(s) = g.a
    BY <1>2, SeriesTeams
  <2>. QED BY <2>2, <2>3, <2>4 DEF Contest, SeedsOf
<1>3. ASSUME NEW s \in C, NEW t \in C
      PROVE  /\ SomeGame(s).pos = SomeGame(t).pos => s = t
             /\ s # t => {Won(s).seed, Lost(s).seed} \intersect {Won(t).seed, Lost(t).seed} = {}
  <2>1. PICK g : Witness(s, g)
    BY <1>1
  <2>2. PICK h : Witness(t, h)
    BY <1>1
  <2>3. SameRound(g, h)
    BY <2>1, <2>2 DEF SameRound
  <2>4. g.pos = h.pos => s = t
    BY <2>1, <2>2, <2>3 DEF SeriesOf, SameRound
  <2>5. g.pos # h.pos => SeedsOf(g) \intersect SeedsOf(h) = {}
    BY <2>1, <2>2, <2>3 DEF Good, RowsAgree
  <2>. QED BY <1>2, <2>1, <2>2, <2>4, <2>5
<1>. QED BY <1>1, <1>2, <1>3 DEF Contests

\* The winners and losers of such series.
LEMMA WinnersAndLosers ==
    ASSUME NEW bt, NEW r, NEW C, Contests(bt, r, C)
    PROVE  /\ \A w \in Winners(C) : /\ w.pos \in Positions(bt, r) /\ w.seed \in SeedsIn(bt, r)
                                    /\ w.roster = SeedRoster(bt, w.seed)
           /\ \A w \in Losers(C) : /\ w.seed \in SeedsIn(bt, r)
                                   /\ w.roster = SeedRoster(bt, w.seed)
           /\ \A v, w \in Winners(C) : v.pos = w.pos \/ v.seed = w.seed => v = w
           /\ \A v, w \in Losers(C) : v.seed = w.seed => v = w
           /\ \A v \in Winners(C), w \in Losers(C) : v.seed # w.seed
<1>1. Winners(C) = {Won(s) : s \in C} /\ Losers(C) = {Lost(s) : s \in C}
  BY DEF Winners, Losers, Won, Lost
<1>2. \A s : Won(s).pos = SomeGame(s).pos
  BY DEF Won
<1>3. ASSUME NEW s \in C, NEW t \in C
      PROVE  /\ Won(s).pos = Won(t).pos => s = t
             /\ Won(s).seed = Won(t).seed => s = t
             /\ Lost(s).seed = Lost(t).seed => s = t
             /\ Won(s).seed # Lost(t).seed
  BY <1>2 DEF Contests, Contest
<1>. QED BY <1>1, <1>2, <1>3 DEF Contests, Contest

-----------------------------------------------------------------------------
(* The rows an advance creates                                             *)

\* Pairings of a set of winners, as fixtures.
PairedFixtures(W) ==
    {<<(Place(x[1], W) \div 2) + 1, x[1].seed, x[2].seed>> : x \in Pairs(W)}

LEMMA PairsOf ==
    ASSUME NEW W, \A w \in W : w.pos \in 1..4, NEW x \in Pairs(W)
    PROVE  /\ x[1] \in W /\ x[2] \in W
           /\ \/ Place(x[1], W) = 0 /\ Place(x[2], W) = 1
              \/ Place(x[1], W) = 2 /\ Place(x[2], W) = 3
           /\ (Place(x[1], W) \div 2) + 1 = IF Place(x[1], W) = 0 THEN 1 ELSE 2
<1>1. x[1] \in W /\ x[2] \in W /\ Place(x[1], W) % 2 = 0 /\ Place(x[2], W) = Place(x[1], W) + 1
  <2>1. x \in W \X W /\ Place(x[1], W) % 2 = 0 /\ Place(x[2], W) = Place(x[1], W) + 1
    BY Zenon DEF Pairs
  <2>. QED BY <2>1
<1>2. Place(x[1], W) \in 0..3 /\ Place(x[2], W) \in 0..3
  BY <1>1, Places
<1>3. Place(x[1], W) \in {0, 2}
  BY <1>1, <1>2
<1>. QED BY <1>1, <1>2, <1>3

LEMMA PairedFixturesOK ==
    ASSUME NEW bt, bt # "THIRD_PLACE", NEW r, r + 1 \in Int, r + 1 > 1, NEW C,
           Contests(bt, r, C),
           \A w \in Winners(C) : w.seed \in SeedsIn(bt, r + 1)
    PROVE  /\ FixturesOK(bt, r + 1, PairedFixtures(Winners(C)))
           /\ \A z \in PairedFixtures(Winners(C)) :
                 \E v, w \in Winners(C) : z[2] = v.seed /\ z[3] = w.seed
<1> DEFINE W == Winners(C)
<1>1. \A w \in W : w.pos \in 1..4
  BY WinnersAndLosers DEF Positions
<1>2. Positions(bt, r + 1) = 1..2
  BY DEF Positions
<1>3. \A v, w \in W : v.pos = w.pos \/ v.seed = w.seed => v = w
  BY WinnersAndLosers
<1>4. \A v, w \in W : Place(v, W) = Place(w, W) => v = w
  <2>1. ASSUME NEW v \in W, NEW w \in W, Place(v, W) = Place(w, W)
        PROVE  v.pos = w.pos
    <3> HIDE DEF W
    <3>1. /\ Place(v, W) \in 0..3 /\ Place(w, W) \in 0..3
          /\ v.pos < w.pos => Place(v, W) < Place(w, W)
          /\ w.pos < v.pos => Place(w, W) < Place(v, W)
      BY <1>1, Places
    <3>. QED BY <1>1, <2>1, <3>1
  <2>. QED BY <2>1, <1>3
<1> HIDE DEF W
<1>5. ASSUME NEW x \in Pairs(W)
      PROVE  /\ x[1] \in W /\ x[2] \in W /\ x[1].seed # x[2].seed
             /\ (Place(x[1], W) \div 2) + 1 \in 1..2
  BY <1>1, <1>3, PairsOf
<1>6. ASSUME NEW x \in Pairs(W), NEW y \in Pairs(W)
      PROVE  /\ (Place(x[1], W) \div 2) + 1 = (Place(y[1], W) \div 2) + 1 =>
                   x[1] = y[1] /\ x[2] = y[2]
             /\ (Place(x[1], W) \div 2) + 1 # (Place(y[1], W) \div 2) + 1 =>
                   {x[1].seed, x[2].seed} \intersect {y[1].seed, y[2].seed} = {}
  <2>1. /\ x[1] \in W /\ x[2] \in W
        /\ \/ Place(x[1], W) = 0 /\ Place(x[2], W) = 1
           \/ Place(x[1], W) = 2 /\ Place(x[2], W) = 3
        /\ (Place(x[1], W) \div 2) + 1 = IF Place(x[1], W) = 0 THEN 1 ELSE 2
    BY <1>1, PairsOf
  <2>2. /\ y[1] \in W /\ y[2] \in W
        /\ \/ Place(y[1], W) = 0 /\ Place(y[2], W) = 1
           \/ Place(y[1], W) = 2 /\ Place(y[2], W) = 3
        /\ (Place(y[1], W) \div 2) + 1 = IF Place(y[1], W) = 0 THEN 1 ELSE 2
    BY <1>1, PairsOf
  <2>. QED BY <1>3, <1>4, <2>1, <2>2
<1>7. ASSUME NEW z \in PairedFixtures(W)
      PROVE  \E x \in Pairs(W) :
                z = <<(Place(x[1], W) \div 2) + 1, x[1].seed, x[2].seed>>
  BY DEF PairedFixtures
<1>8. ASSUME NEW z \in PairedFixtures(W)
      PROVE  /\ z[1] \in 1..2 /\ z[2] # z[3]
             /\ \E v, w \in W : z[2] = v.seed /\ z[3] = w.seed
  BY <1>5, <1>7
<1>9. ASSUME NEW y \in PairedFixtures(W), NEW z \in PairedFixtures(W)
      PROVE  /\ y[1] = z[1] => y = z
             /\ y # z => {y[2], y[3]} \intersect {z[2], z[3]} = {}
  BY <1>6, <1>7
<1>10. \A w \in W : w.seed \in SeedsIn(bt, r + 1)
  BY DEF W
<1>11. FixturesOK(bt, r + 1, PairedFixtures(W))
  BY <1>2, <1>8, <1>9, <1>10, bt # "THIRD_PLACE" DEF FixturesOK
<1>. QED BY <1>8, <1>11 DEF W

\* The seeds a winner may have in the next round.
LEMMA SeedsGrow ==
    ASSUME NEW bt, NEW r \in 1..3, NEW s \in SeedsIn(bt, r)
    PROVE  s \in SeedsIn(bt, r + 1)
BY DEF SeedsIn

\* Rows of a pairing of two placed seeds.
LEMMA RowsOfPairing ==
    ASSUME NEW bid, NEW bt, NEW r, NEW pos, NEW x, NEW y,
           x.roster = SeedRoster(bt, x.seed), y.roster = SeedRoster(bt, y.seed),
           NEW g \in PairRows(bid, bt, r, pos, x, y)
    PROVE  \E k \in 1..WeeksOf(r) : g = RowOf(bid, bt, r, <<pos, x.seed, y.seed>>, k)
BY DEF PairRows, SeriesRows, RowOf

\* What the rows of round r + 1 have to be, drawn from the contests of round r.
NextRows(bt, r, C, rows) ==
    /\ Good(rows)
    /\ \A g \in rows : g.bt = bt /\ g.round = r + 1
    /\ TeamsOf(bt) # 6 \/ r # 1 =>
          \A g \in rows : \E v, w \in Winners(C) : SeedsOf(g) = {v.seed, w.seed}

LEMMA NextRoundGood ==
    ASSUME NEW bid, NEW bt \in {"WINNERS", "CONSOLATION"}, NEW r \in 1..(RoundsOf(bt) - 1),
           NEW C, Contests(bt, r, C),
           NEW rows, rows = NextRoundRows(bid, bt, r + 1, C)
    PROVE  NextRows(bt, r, C, rows)
<1> DEFINE W == Winners(C)
<1>0. r \in 1..3 /\ r + 1 \in 1..RoundsOf(bt) /\ bt \in BracketTypes /\ r \in Int
  BY BracketConfig DEF BracketTypes
<1>1. /\ \A w \in W : /\ w.pos \in Positions(bt, r) /\ w.seed \in SeedsIn(bt, r)
                      /\ w.roster = SeedRoster(bt, w.seed)
      /\ \A v, w \in W : v.pos = w.pos \/ v.seed = w.seed => v = w
  BY WinnersAndLosers
<1>2. \A w \in W : w.seed \in SeedsIn(bt, r + 1)
  BY <1>0, <1>1, SeedsGrow
<1>3. CASE TeamsOf(bt) = 6 /\ r + 1 = 2 /\ {1, 2} \subseteq {w.pos : w \in W}
  <2> DEFINE At(p) == CHOOSE w \in W : w.pos = p
             Z == {<<1, 1, At(2).seed>>, <<2, 2, At(1).seed>>}
  <2>1. At(1) \in W /\ At(1).pos = 1 /\ At(2) \in W /\ At(2).pos = 2
    <3>1. (\E w \in W : w.pos = 1) /\ (\E w \in W : w.pos = 2)
      BY <1>3
    <3>. QED BY <3>1
  <2>2. r = 1 /\ ByeSeeds(TeamsOf(bt)) = {1, 2}
    BY <1>0, <1>3 DEF ByeSeeds
  <2>3. /\ At(1).seed \in (1..6) \ {1, 2} /\ At(2).seed \in (1..6) \ {1, 2}
        /\ At(1).seed # At(2).seed
    BY <1>1, <1>3, <2>1, <2>2 DEF SeedsIn
  <2>4. SeedsIn(bt, r + 1) = 1..6 /\ Positions(bt, r + 1) = 1..2
    BY <1>3, <2>2 DEF SeedsIn, Positions
  <2>5. FixturesOK(bt, r + 1, Z)
    <3>1. \A z \in Z : z = <<1, 1, At(2).seed>> \/ z = <<2, 2, At(1).seed>>
      OBVIOUS
    <3> DEFINE p == At(1).seed
               q == At(2).seed
    <3>2. p \in 3..6 /\ q \in 3..6 /\ p # q
      BY <2>3
    <3>3. \A z \in Z : z = <<1, 1, q>> \/ z = <<2, 2, p>>
      BY <3>1
    <3> HIDE DEF p, q, Z, At
    <3>. QED BY <2>4, <3>2, <3>3 DEF FixturesOK
  <2>6. rows = PairRows(bid, bt, 2, 1, SeedRow(bt, 1), At(2))
               \union PairRows(bid, bt, 2, 2, SeedRow(bt, 2), At(1))
    BY <1>3 DEF NextRoundRows, ByeRows
  <2>7. /\ SeedRow(bt, 1).roster = SeedRoster(bt, SeedRow(bt, 1).seed) /\ SeedRow(bt, 1).seed = 1
        /\ SeedRow(bt, 2).roster = SeedRoster(bt, SeedRow(bt, 2).seed) /\ SeedRow(bt, 2).seed = 2
    BY DEF SeedRow
  <2>8. At(1).roster = SeedRoster(bt, At(1).seed) /\ At(2).roster = SeedRoster(bt, At(2).seed)
    BY <1>1, <2>1
  <2>9. ASSUME NEW g \in rows
        PROVE  \E z \in Z : \E k \in 1..WeeksOf(2) : g = RowOf(bid, bt, 2, z, k)
    <3> HIDE DEF At
    <3>1. CASE g \in PairRows(bid, bt, 2, 1, SeedRow(bt, 1), At(2))
      BY <2>7, <2>8, <3>1, RowsOfPairing
    <3>2. CASE g \in PairRows(bid, bt, 2, 2, SeedRow(bt, 2), At(1))
      BY <2>7, <2>8, <3>2, RowsOfPairing
    <3>. QED BY <2>6, <3>1, <3>2
  <2> HIDE DEF Z
  <2>10. FixturesOK(bt, 2, Z) /\ 2 \in 1..RoundsOf(bt) /\ bt # "THIRD_PLACE"
    BY <1>0, <2>2, <2>5
  <2>11. Good(rows) /\ \A g \in rows : g.bt = bt /\ g.round = 2
    <3> DEFINE n == 2
    <3>1. /\ n \in 1..RoundsOf(bt) /\ FixturesOK(bt, n, Z) /\ bt \in BracketTypes
          /\ RowsOf(bid, bt, n, Z, rows)
      BY <1>0, <2>9, <2>10 DEF RowsOf
    <3> HIDE DEF n
    <3>2. Good(rows) /\ \A g \in rows : g.bt = bt /\ g.round = n
      BY <3>1, FixturesAreGood
    <3>. QED BY <3>2 DEF n
  <2> HIDE DEF W, Z
  <2>. QED BY <1>3, <2>2, <2>11 DEF NextRows
<1>4. CASE ~(TeamsOf(bt) = 6 /\ r + 1 = 2 /\ {1, 2} \subseteq {w.pos : w \in W})
  <2> DEFINE Z == PairedFixtures(W)
  <2>1. rows = UNION {PairRows(bid, bt, r + 1, (Place(x[1], W) \div 2) + 1, x[1], x[2])
                        : x \in Pairs(W)}
    BY <1>4 DEF NextRoundRows
  <2>2. /\ FixturesOK(bt, r + 1, Z)
        /\ \A z \in Z : \E v, w \in W : z[2] = v.seed /\ z[3] = w.seed
    <3>1. r + 1 \in Int /\ r + 1 > 1
      BY <1>0
    <3>. QED BY <1>2, <3>1, PairedFixturesOK
  <2>3. ASSUME NEW g \in rows
        PROVE  \E z \in Z : \E k \in 1..WeeksOf(r + 1) : g = RowOf(bid, bt, r + 1, z, k)
    <3>1. PICK x \in Pairs(W) :
              g \in PairRows(bid, bt, r + 1, (Place(x[1], W) \div 2) + 1, x[1], x[2])
      BY <2>1
    <3>2. x[1] \in W /\ x[2] \in W
      BY DEF Pairs
    <3>3. x[1].roster = SeedRoster(bt, x[1].seed) /\ x[2].roster = SeedRoster(bt, x[2].seed)
      BY <1>1, <3>2
    <3>4. <<(Place(x[1], W) \div 2) + 1, x[1].seed, x[2].seed>> \in Z
      BY DEF PairedFixtures
    <3>. QED BY <3>1, <3>3, <3>4, RowsOfPairing
  <2> HIDE DEF Z, W
  <2>4. Good(rows) /\ (\A g \in rows : g.bt = bt /\ g.round = r + 1)
        /\ \A g \in rows : \E z \in Z : SeedsOf(g) = {z[2], z[3]}
    <3>1. bt # "THIRD_PLACE" /\ r + 1 \in 1..RoundsOf(bt) /\ bt \in BracketTypes
      BY <1>0
    <3> DEFINE n == r + 1
    <3>2. /\ n \in 1..RoundsOf(bt) /\ FixturesOK(bt, n, Z) /\ bt \in BracketTypes
          /\ RowsOf(bid, bt, n, Z, rows)
      BY <2>2, <2>3, <3>1 DEF RowsOf
    <3> HIDE DEF n
    <3>3. Good(rows) /\ \A g \in rows : g.bt = bt /\ g.round = n
      BY <3>2, FixturesAreGood
    <3>4. \A g \in rows : \E z \in Z : SeedsOf(g) = {z[2], z[3]}
      BY <3>2, FixturesAreGood
    <3>. QED BY <3>3, <3>4 DEF n
  <2>5. \A g \in rows : \E v, w \in W : SeedsOf(g) = {v.seed, w.seed}
    BY <2>2, <2>4
  <2>. QED BY <2>4, <2>5 DEF W, NextRows
<1>. QED BY <1>3, <1>4

LEMMA ThirdPlaceGood ==
    ASSUME NEW bid, EnableThirdPlace, NEW C, Contests("WINNERS", TotalRounds - 1, C),
           NEW rows, rows = ThirdPlaceRows(bid, C)
    PROVE  /\ Good(rows)
           /\ \A g \in rows : g.bt = "THIRD_PLACE" /\ g.round = TotalRounds
           /\ \A g \in rows : \E v, w \in Losers(C) : SeedsOf(g) = {v.seed, w.seed}
<1> DEFINE L == Losers(C)
           Ordered == {y \in L \X L : y[1].seed < y[2].seed}
           Z == {<<2, y[1].seed, y[2].seed>> : y \in Ordered}
<1>1. CASE ~(Cardinality(L) = 2 /\ ~RoundExists("THIRD_PLACE", TotalRounds))
  <2>1. rows = {}
    BY <1>1 DEF ThirdPlaceRows
  <2>. QED BY <2>1 DEF Good
<1>2. CASE Cardinality(L) = 2 /\ ~RoundExists("THIRD_PLACE", TotalRounds)
  <2>1. rows = UNION {PairRows(bid, "THIRD_PLACE", TotalRounds, 2, x[1], x[2]) : x \in Ordered}
    BY <1>2 DEF ThirdPlaceRows
  <2>2. /\ \A w \in L : w.seed \in SeedsIn("WINNERS", TotalRounds - 1)
                        /\ w.roster = SeedRoster("WINNERS", w.seed)
        /\ \A v, w \in L : v.seed = w.seed => v = w
    BY WinnersAndLosers
  <2>3. \A w \in L : w.seed \in SeedsIn("THIRD_PLACE", TotalRounds) /\ w.seed \in Nat
                     /\ w.roster = SeedRoster("THIRD_PLACE", w.seed)
    <3>1. TotalRounds # 1 /\ TeamsOf("THIRD_PLACE") = TeamsOf("WINNERS")
      BY BracketConfig
    <3>2. \A w \in L : w.seed \in 1..TeamsOf("WINNERS")
      BY <2>2, SeedsArePlaces
    <3>3. \A x : SeedRoster("WINNERS", x) = SeedRoster("THIRD_PLACE", x)
      BY DEF SeedRoster
    <3>4. \A w \in L : w.seed \in Nat
      BY <2>2, SeedsArePlaces
    <3>. QED BY <2>2, <3>1, <3>2, <3>3, <3>4 DEF SeedsIn
  \* Two losers: the pair is unique.
  <2>4. \E a, b \in L : L = {a, b} /\ a # b
    <3>1. IsFiniteSet(L)
      <4>1. L = {Lost(s) : s \in C} /\ \A s, t \in C : SomeGame(s).pos = SomeGame(t).pos => s = t
        BY DEF Losers, Lost, Contests
      <4> DEFINE f == [s \in C |-> SomeGame(s).pos]
      <4>2. f \in Injection(C, 1..4)
        <5>1. \A s \in C : SomeGame(s).pos \in 1..4
          BY DEF Contests, Contest, Positions
        <5>2. f \in [C -> 1..4] /\ \A s, t \in C : f[s] = f[t] => s = t
          BY <4>1, <5>1
        <5> HIDE DEF f
        <5>. QED BY <5>2 DEF Injection, IsInjective
      <4>3. IsFiniteSet(1..4)
        <5>1. 1 \in Int /\ 4 \in Int
          OBVIOUS
        <5>. QED BY <5>1, FS_Interval, Zenon
      <4>4. IsFiniteSet(C)
        BY <4>2, <4>3, FS_Injection
      <4>5. IsFiniteSet({Lost(s) : s \in C})
        <5> DEFINE h == [s \in C |-> Lost(s)]
        <5>1. h \in Surjection(C, {Lost(s) : s \in C})
          BY DEF Surjection
        <5>. QED BY <4>4, <5>1, FS_Surjection DEF ExistsSurjection
      <4>. QED BY <4>1, <4>5
    <3> HIDE DEF L
    <3>2. L # {}
      BY <1>2, FS_EmptySet
    <3>3. PICK a \in L : TRUE
      BY <3>2
    <3>4. IsFiniteSet(L \ {a}) /\ Cardinality(L \ {a}) = 1
      BY <1>2, <3>1, FS_RemoveElement
    <3>5. L \ {a} # {}
      BY <3>4, FS_EmptySet
    <3>6. PICK b \in L \ {a} : TRUE
      BY <3>5
    <3>7. Cardinality((L \ {a}) \ {b}) = 0 /\ IsFiniteSet((L \ {a}) \ {b})
      BY <3>4, FS_RemoveElement
    <3>8. (L \ {a}) \ {b} = {}
      BY <3>7, FS_EmptySet
    <3>. QED BY <3>3, <3>6, <3>8
  <2>5. PICK a \in L, b \in L : L = {a, b} /\ a # b
    BY <2>4
  <2>6. \A x, y \in Ordered : x[1] = y[1] /\ x[2] = y[2] /\ x[1].seed # x[2].seed
                              /\ x[1] \in L /\ x[2] \in L
    <3>1. a.seed \in Nat /\ b.seed \in Nat
      BY <2>3
    <3> HIDE DEF L
    <3>2. \A x \in Ordered : /\ x[1] \in {a, b} /\ x[2] \in {a, b} /\ x[1].seed < x[2].seed
      BY <2>5
    <3>3. \A x \in Ordered : \/ x[1] = a /\ x[2] = b /\ a.seed < b.seed
                             \/ x[1] = b /\ x[2] = a /\ b.seed < a.seed
      BY <3>1, <3>2
    <3>. QED BY <2>5, <3>1, <3>3
  <2>7. FixturesOK("THIRD_PLACE", TotalRounds, Z) /\ \A z \in Z : z[1] = 2
    <3>1. \A z \in Z : \E y \in Ordered : z = <<2, y[1].seed, y[2].seed>>
      OBVIOUS
    <3>2. 2 \in Positions("THIRD_PLACE", TotalRounds)
      BY DEF Positions
    <3> HIDE DEF Z, Ordered, L
    <3>3. \A y, z \in Z : y = z
      BY <2>6, <3>1
    <3>4. \A z \in Z : /\ z[1] = 2 /\ z[2] # z[3]
                       /\ z[2] \in SeedsIn("THIRD_PLACE", TotalRounds)
                       /\ z[3] \in SeedsIn("THIRD_PLACE", TotalRounds)
      BY <2>3, <2>6, <3>1
    <3>. QED BY <3>2, <3>3, <3>4, EnableThirdPlace DEF FixturesOK
  <2>8. ASSUME NEW g \in rows
        PROVE  \E z \in Z : \E k \in 1..WeeksOf(TotalRounds) :
                   g = RowOf(bid, "THIRD_PLACE", TotalRounds, z, k)
    <3>1. PICK x \in Ordered : g \in PairRows(bid, "THIRD_PLACE", TotalRounds, 2, x[1], x[2])
      BY <2>1
    <3>2. x[1] \in L /\ x[2] \in L
      BY <2>6
    <3>3. /\ x[1].roster = SeedRoster("THIRD_PLACE", x[1].seed)
          /\ x[2].roster = SeedRoster("THIRD_PLACE", x[2].seed)
      BY <2>3, <3>2
    <3>4. <<2, x[1].seed, x[2].seed>> \in Z
      OBVIOUS
    <3>5. \E k \in 1..WeeksOf(TotalRounds) :
            g = RowOf(bid, "THIRD_PLACE", TotalRounds, <<2, x[1].seed, x[2].seed>>, k)
      BY <3>1, <3>3, RowsOfPairing
    <3>. QED BY <3>4, <3>5
  <2>9. \A z \in Z : \E v, w \in L : z[2] = v.seed /\ z[3] = w.seed
    BY <2>6
  <2>10. TotalRounds \in 1..RoundsOf("THIRD_PLACE") /\ "THIRD_PLACE" \in BracketTypes
    BY BracketConfig DEF BracketTypes
  <2> HIDE DEF Z, L
  <2>11. Good(rows) /\ (\A g \in rows : g.bt = "THIRD_PLACE" /\ g.round = TotalRounds)
         /\ \A g \in rows : \E z \in Z : SeedsOf(g) = {z[2], z[3]}
    <3> DEFINE bt == "THIRD_PLACE"
    <3>1. /\ TotalRounds \in 1..RoundsOf(bt) /\ FixturesOK(bt, TotalRounds, Z)
          /\ bt \in BracketTypes /\ RowsOf(bid, bt, TotalRounds, Z, rows)
      BY <2>7, <2>8, <2>10 DEF RowsOf
    <3> HIDE DEF bt
    <3>2. Good(rows) /\ (\A g \in rows : g.bt = bt /\ g.round = TotalRounds)
          /\ \A g \in rows : \E z \in Z : SeedsOf(g) = {z[2], z[3]}
      BY <3>1, FixturesAreGood
    <3>. QED BY <3>2 DEF bt
  <2>. QED BY <2>9, <2>11 DEF L
<1>. QED BY <1>1, <1>2

\* The rows an advance of the winners bracket creates.  The final and the game
\* for the third place come together, from the same series.
LEMMA SemifinalsMakeBoth ==
    ASSUME NEW bid, EnableThirdPlace,
           NEW C, Contests("WINNERS", TotalRounds - 1, C),
           ~RoundExists("THIRD_PLACE", TotalRounds),
           TeamsOf("WINNERS") # 6 \/ TotalRounds # 2
    PROVE  ThirdPlaceRows(bid, C) # {} <=> NextRoundRows(bid, "WINNERS", TotalRounds, C) # {}
<1> DEFINE W == Winners(C)
           L == Losers(C)
<1>1. Positions("WINNERS", TotalRounds - 1) = 1..2
  BY BracketAssumption DEF Positions, TotalRounds, TeamsOf, CalculateTotalRounds
<1>2. W = {Won(s) : s \in C} /\ L = {Lost(s) : s \in C} /\ \A s : Won(s).pos = SomeGame(s).pos
  BY DEF Winners, Losers, Won, Lost
<1>3. \A s \in C : SomeGame(s).pos \in 1..2
  BY <1>1 DEF Contests, Contest
<1>4. \A s, t \in C : SomeGame(s).pos = SomeGame(t).pos => s = t
  BY DEF Contests
<1>5. \A s, t \in C : s # t => Lost(s).seed # Lost(t).seed
  BY DEF Contests
<1>6. \A s \in C : Lost(s).seed \in Nat
  BY SeedsArePlaces DEF Contests, Contest
<1>7. NextRoundRows(bid, "WINNERS", TotalRounds, C) =
         UNION {PairRows(bid, "WINNERS", TotalRounds, (Place(x[1], W) \div 2) + 1, x[1], x[2])
                  : x \in Pairs(W)}
  BY DEF NextRoundRows
<1>8. ThirdPlaceRows(bid, C) =
         IF Cardinality(L) = 2
         THEN UNION {PairRows(bid, "THIRD_PLACE", TotalRounds, 2, x[1], x[2])
                        : x \in {y \in L \X L : y[1].seed < y[2].seed}}
         ELSE {}
  BY DEF ThirdPlaceRows
<1>9. \A bt, pos, x, y : PairRows(bid, bt, TotalRounds, pos, x, y) # {}
  <2>1. 1 \in 1..WeeksOf(TotalRounds)
    BY BracketConfig
  <2>. QED BY <2>1 DEF PairRows, SeriesRows
<1> HIDE DEF W, L
<1>10. CASE \E s, t \in C : SomeGame(s).pos = 1 /\ SomeGame(t).pos = 2
  <2>1. PICK s \in C, t \in C : SomeGame(s).pos = 1 /\ SomeGame(t).pos = 2
    BY <1>10
  <2>2. C = {s, t} /\ s # t
    BY <1>3, <1>4, <2>1
  <2>3. W = {Won(s), Won(t)} /\ L = {Lost(s), Lost(t)} /\ Lost(s) # Lost(t)
    BY <1>2, <1>5, <2>2
  <2>4. Cardinality(L) = 2
    <3>1. IsFiniteSet({Lost(s)}) /\ Cardinality({Lost(s)}) = 1 /\ Lost(t) \notin {Lost(s)}
      BY <2>3, FS_Singleton
    <3>2. Cardinality({Lost(s)} \union {Lost(t)}) = 2
      BY <3>1, FS_AddElement
    <3>3. L = {Lost(s)} \union {Lost(t)}
      BY <2>3
    <3>. QED BY <3>2, <3>3
  <2>5. ThirdPlaceRows(bid, C) # {}
    <3>1. \E x \in {y \in L \X L : y[1].seed < y[2].seed} : TRUE
      <4>1. CASE Lost(s).seed < Lost(t).seed
        <5>1. <<Lost(s), Lost(t)>> \in {y \in L \X L : y[1].seed < y[2].seed}
          BY <2>3, <4>1
        <5>. QED BY <5>1
      <4>2. CASE Lost(t).seed < Lost(s).seed
        <5>1. <<Lost(t), Lost(s)>> \in {y \in L \X L : y[1].seed < y[2].seed}
          BY <2>3, <4>2
        <5>. QED BY <5>1
      <4>. QED BY <1>5, <1>6, <2>2, <4>1, <4>2
    <3>. QED BY <1>8, <1>9, <2>4, <3>1
  <2>6. Place(Won(s), W) = 0 /\ Place(Won(t), W) = 1
    <3>1. {v.pos : v \in W} = {1, 2}
      BY <1>2, <2>1, <2>3
    <3>2. Won(s).pos = 1 /\ Won(t).pos = 2
      BY <1>2, <2>1
    <3>3. {v.pos : v \in W} \cap (1..(Won(s).pos - 1)) = {}
      BY <3>2
    <3>4. {v.pos : v \in W} \cap (1..(Won(t).pos - 1)) = {1}
      BY <3>1, <3>2
    <3>5. Cardinality({}) = 0 /\ Cardinality({1}) = 1
      BY FS_EmptySet, FS_Singleton
    <3>. QED BY <3>3, <3>4, <3>5 DEF Place
  <2>7. <<Won(s), Won(t)>> \in Pairs(W)
    <3>1. 0 % 2 = 0
      OBVIOUS
    <3>. QED BY <2>3, <2>6, <3>1 DEF Pairs
  <2>8. NextRoundRows(bid, "WINNERS", TotalRounds, C) # {}
    BY <1>7, <1>9, <2>7
  <2>. QED BY <2>5, <2>8
<1>11. CASE ~\E s, t \in C : SomeGame(s).pos = 1 /\ SomeGame(t).pos = 2
  <2>1. \A s, t \in C : s = t
    <3>1. \A s, t \in C : SomeGame(s).pos = SomeGame(t).pos
      BY <1>3, <1>11
    <3>. QED BY <1>4, <3>1
  <2>2. \A x, y \in L : x = y
    BY <1>2, <2>1
  <2>3. Cardinality(L) # 2
    <3>1. CASE L = {}
      BY <3>1, FS_EmptySet
    <3>2. CASE L # {}
      <4>1. PICK x \in L : L = {x}
        BY <2>2, <3>2
      <4>2. Cardinality({x}) = 1
        BY FS_Singleton
      <4>. QED BY <4>1, <4>2
    <3>. QED BY <3>1, <3>2
  <2>4. \A x, y \in W : x = y
    BY <1>2, <2>1
  <2>5. Pairs(W) = {}
    <3>1. \A w \in W : w.pos \in 1..4
      BY <1>2, <1>3
    <3>2. \A x \in Pairs(W) : /\ x[1] \in W /\ x[2] \in W
                              /\ Place(x[1], W) # Place(x[2], W)
      BY <3>1, PairsOf
    <3>. QED BY <2>4, <3>2
  <2>. QED BY <1>7, <1>8, <2>3, <2>5
<1>. QED BY <1>10, <1>11

\* What the rows that an advancement adds to a bracket have to be.
NewRows(bt, rows) ==
    /\ Good(rows) /\ (\A g \in matchups, h \in rows : ~SameRound(g, h))
    /\ Apart(matchups, rows) /\ Apart(rows, matchups)
    /\ \A g \in rows : g.bt = "CONSOLATION" <=> bt = "CONSOLATION"
    /\ ThirdWithFinal(matchups \union rows)
    /\ rows # {} => matchups # {}

LEMMA CreatedGood ==
    ASSUME PInv, NEW bid, NEW bt \in {"WINNERS", "CONSOLATION"}, NEW n, NEW week,
           n = 0 \/ InRound(bt, n, week)
    PROVE  NewRows(bt, CreatedBy(bid, bt, n, week))
<1> DEFINE C == CompletedSeries(bt, week)
           third == bt = "WINNERS" /\ n = TotalRounds - 1 /\ EnableThirdPlace
           T == IF third THEN ThirdPlaceRows(bid, C) ELSE {}
           N == IF RoundExists(bt, n + 1) THEN {} ELSE NextRoundRows(bid, bt, n + 1, C)
           rows == CreatedBy(bid, bt, n, week)
<1>0. /\ Good(matchups) /\ ThirdWithFinal(matchups)
      /\ \A b, r : RoundExists(b, r) <=> HasRound(matchups, b, r)
  BY DEF PInv, RoundExists, HasRound, GamesOfType
<1>1. CASE n = 0 \/ n = RoundsOf(bt) \/ C = {} \/ ~AllSeriesComplete(bt, n)
  <2>1. rows = {}
    BY <1>1 DEF CreatedBy
  <2> HIDE DEF rows
  <2>2. NewRows(bt, rows)
    BY <1>0, <2>1 DEF NewRows, Good, Apart, ThirdWithFinal
  <2>. QED BY <2>2 DEF rows
<1>2. CASE ~(n = 0 \/ n = RoundsOf(bt) \/ C = {} \/ ~AllSeriesComplete(bt, n))
  <2>1. rows = T \union N
    BY <1>2 DEF CreatedBy
  <2>2. InRound(bt, n, week) /\ n \in 1..(RoundsOf(bt) - 1)
    BY <1>2, BracketConfig DEF InRound
  <2>3. Contests(bt, n, C)
    BY <1>0, <2>2, CompletedAreContests
  <2>4. matchups # {}
    <3>1. PICK s \in C : TRUE
      BY <1>2
    <3>. QED BY <3>1 DEF CompletedSeries
  <2>5. /\ Good(N) /\ \A g \in N : g.bt = bt /\ g.round = n + 1
        /\ TeamsOf(bt) # 6 \/ n # 1 =>
                 \A g \in N : \E v, w \in Winners(C) : SeedsOf(g) = {v.seed, w.seed}
    <3>1. CASE RoundExists(bt, n + 1)
      <4>1. N = {}
        BY <3>1
      <4> HIDE DEF N
      <4>. QED BY <4>1 DEF Good
    <3>2. CASE ~RoundExists(bt, n + 1)
      <4>1. N = NextRoundRows(bid, bt, n + 1, C)
        BY <3>2
      <4> HIDE DEF N, C
      <4>2. NextRows(bt, n, C, N)
        BY <2>2, <2>3, <4>1, NextRoundGood
      <4>. QED BY <4>2 DEF NextRows
    <3>. QED BY <3>1, <3>2
  <2>6. /\ Good(T) /\ \A g \in T : g.bt = "THIRD_PLACE" /\ g.round = TotalRounds
        /\ \A g \in T : \E v, w \in Losers(C) : SeedsOf(g) = {v.seed, w.seed}
    <3>1. CASE ~third
      <4>1. T = {}
        BY <3>1
      <4> HIDE DEF T
      <4>. QED BY <4>1 DEF Good
    <3>2. CASE third
      <4>1. T = ThirdPlaceRows(bid, C) /\ EnableThirdPlace /\ Contests("WINNERS", TotalRounds - 1, C)
        BY <2>3, <3>2
      <4> HIDE DEF T, C
      <4>. QED BY <4>1, ThirdPlaceGood
    <3>. QED BY <3>1, <3>2
  <2>7. T # {} => third /\ ~HasRound(matchups, "THIRD_PLACE", TotalRounds)
    BY <1>0 DEF ThirdPlaceRows
  <2>8. N # {} => ~HasRound(matchups, bt, n + 1)
    BY <1>0
  <2>9. TeamsOf("WINNERS") # 6 \/ TotalRounds # 2
    BY BracketAssumption DEF TeamsOf, TotalRounds, CalculateTotalRounds
  <2>10. \A v \in Winners(C), w \in Losers(C) : v.seed # w.seed
    BY <2>3, WinnersAndLosers
  <2>11. Apart(N, T) /\ Apart(T, N)
    <3>1. Apart(T, N)
      <4> HIDE DEF T, N
      <4>. QED BY <2>6 DEF Apart
    <3>2. ASSUME NEW g \in N, NEW h \in T
          PROVE  SeedsOf(g) \intersect SeedsOf(h) = {}
      <4>1. third
        BY <2>7
      <4>2. TeamsOf(bt) # 6 \/ n # 1
        BY <4>1, <2>9
      <4> HIDE DEF T, N, C
      <4>3. PICK v, w \in Winners(C) : SeedsOf(g) = {v.seed, w.seed}
        BY <2>5, <4>2
      <4>4. PICK x, y \in Losers(C) : SeedsOf(h) = {x.seed, y.seed}
        BY <2>6
      <4>. QED BY <2>10, <4>3, <4>4
    <3> HIDE DEF T, N
    <3>. QED BY <3>1, <3>2 DEF Apart
  <2>12. n + 1 = TotalRounds /\ third => (T # {} => ~HasRound(matchups, "WINNERS", TotalRounds))
                                      /\ (N # {} => ~HasRound(matchups, "THIRD_PLACE", TotalRounds))
    BY <1>0, <2>7, <2>8 DEF ThirdWithFinal
  <2>13. third => n + 1 = TotalRounds /\ TotalRounds - 1 = n /\ bt = "WINNERS" /\ EnableThirdPlace
    BY <2>2, BracketConfig
  <2>14. ASSUME third, ~HasRound(matchups, "THIRD_PLACE", TotalRounds)
         PROVE  T # {} <=> N # {}
    <3>1. ~HasRound(matchups, "WINNERS", TotalRounds)
      BY <1>0, <2>13, <2>14 DEF ThirdWithFinal
    <3>2. ~RoundExists("THIRD_PLACE", TotalRounds) /\ ~RoundExists("WINNERS", TotalRounds)
      BY <1>0, <2>14, <3>1
    <3>3. T = ThirdPlaceRows(bid, C) /\ N = NextRoundRows(bid, "WINNERS", TotalRounds, C)
      BY <2>13, <2>14, <3>2
    <3>4. Contests("WINNERS", TotalRounds - 1, C)
      BY <2>3, <2>13, <2>14
    <3> HIDE DEF T, N, C, third
    <3>. QED BY <2>9, <2>13, <2>14, <3>2, <3>3, <3>4, SemifinalsMakeBoth
  <2>15. \A g \in N : bt = "WINNERS" /\ g.round = TotalRounds /\ EnableThirdPlace => third
    BY <2>2, <2>5, BracketConfig
  <2> HIDE DEF T, N, C, third, rows
  <2>16. Good(rows)
    <3>1. \A g \in T, h \in N : ~SameRound(g, h)
      BY <2>5, <2>6 DEF SameRound
    <3>. QED BY <2>1, <2>5, <2>6, <2>11, <3>1, GoodTogether
  <2>17. \A g \in matchups, h \in rows : ~SameRound(g, h)
    <3>1. \A g \in matchups, h \in T : ~SameRound(g, h)
      BY <2>6, <2>7 DEF SameRound, HasRound
    <3>2. \A g \in matchups, h \in N : ~SameRound(g, h)
      BY <2>5, <2>8 DEF SameRound, HasRound
    <3>. QED BY <2>1, <3>1, <3>2
  <2>18. Apart(matchups, rows)
    <3>1. ASSUME NEW g \in matchups, NEW h \in rows, g.bt = "WINNERS", g.round = TotalRounds,
                 h.bt = "THIRD_PLACE"
          PROVE  FALSE
      <4>1. h \in T
        BY <2>1, <2>5, <3>1
      <4>2. ~HasRound(matchups, "WINNERS", TotalRounds)
        BY <2>7, <2>12, <2>13, <4>1
      <4>. QED BY <3>1, <4>2 DEF HasRound
    <3>. QED BY <3>1 DEF Apart
  <2>19. Apart(rows, matchups)
    <3>1. ASSUME NEW g \in rows, NEW h \in matchups, g.bt = "WINNERS", g.round = TotalRounds,
                 h.bt = "THIRD_PLACE"
          PROVE  FALSE
      <4>1. g \in N /\ bt = "WINNERS"
        BY <2>1, <2>5, <2>6, <3>1
      <4>2. RowOK(h)
        BY <1>0 DEF Good
      <4>3. EnableThirdPlace /\ h.round = TotalRounds
        BY <3>1, <4>2 DEF RowOK
      <4>4. ~HasRound(matchups, "THIRD_PLACE", TotalRounds)
        BY <2>12, <2>13, <2>15, <3>1, <4>1, <4>3
      <4>. QED BY <3>1, <4>3, <4>4 DEF HasRound
    <3>. QED BY <3>1 DEF Apart
  <2>20. \A g \in rows : g.bt = "CONSOLATION" <=> bt = "CONSOLATION"
    <3>1. T # {} => bt = "WINNERS"
      BY <2>7, <2>13
    <3>. QED BY <2>1, <2>5, <2>6, <3>1
  <2>21. ThirdWithFinal(matchups \union rows)
    <3> SUFFICES ASSUME EnableThirdPlace
                 PROVE  HasRound(matchups \union rows, "THIRD_PLACE", TotalRounds)
                            <=> HasRound(matchups \union rows, "WINNERS", TotalRounds)
      BY DEF ThirdWithFinal
    <3>1. HasRound(matchups, "THIRD_PLACE", TotalRounds) <=> HasRound(matchups, "WINNERS", TotalRounds)
      BY <1>0 DEF ThirdWithFinal
    <3>2. \A b, r : HasRound(matchups \union rows, b, r) <=>
                        HasRound(matchups, b, r) \/ HasRound(T, b, r) \/ HasRound(N, b, r)
      BY <2>1 DEF HasRound
    <3>3. HasRound(T, "THIRD_PLACE", TotalRounds) <=> T # {}
      BY <2>6 DEF HasRound
    <3>4. ~HasRound(T, "WINNERS", TotalRounds)
      BY <2>6 DEF HasRound
    <3>5. ~HasRound(N, "THIRD_PLACE", TotalRounds)
      BY <2>5 DEF HasRound
    <3>6. HasRound(N, "WINNERS", TotalRounds) => third /\ N # {}
      BY <2>5, <2>15 DEF HasRound
    <3>7. third /\ N # {} => HasRound(N, "WINNERS", TotalRounds)
      BY <2>5, <2>13 DEF HasRound
    <3>8. T # {} => third
      BY <2>7
    <3>. QED BY <2>14, <3>1, <3>2, <3>3, <3>4, <3>5, <3>6, <3>7, <3>8
  <2>22. NewRows(bt, rows)
    BY <2>4, <2>16, <2>17, <2>18, <2>19, <2>20, <2>21 DEF NewRows
  <2>. QED BY <2>22 DEF rows
<1>. QED BY <1>1, <1>2

-----------------------------------------------------------------------------
(* The steps                                                               *)

\* A finalisation changes points and nothing a row is recognised by.
SameFixture(g, h) ==
    /\ DOMAIN g = DOMAIN h
    /\ g.bt = h.bt /\ g.round = h.round /\ g.pos = h.pos /\ g.game = h.game
    /\ g.len = h.len /\ g.week = h.week
    /\ g.a = h.a /\ g.sa = h.sa /\ g.b = h.b /\ g.sb = h.sb

LEMMA FinalizedGood ==
    ASSUME NEW G, Good(G), ThirdWithFinal(G), NEW H,
           \A h \in H : \E g \in G : SameFixture(g, h),
           \A g \in G : \E h \in H : SameFixture(g, h),
           \A h, i \in H : SlotOf(h) = SlotOf(i) => h = i
    PROVE  Good(H) /\ ThirdWithFinal(H) /\ (H # {} => G # {})
<1>1. ASSUME NEW h \in H
      PROVE  RowOK(h)
  <2>1. PICK g \in G : SameFixture(g, h)
    OBVIOUS
  <2>2. RowOK(g)
    BY DEF Good
  <2>. QED BY <2>1, <2>2 DEF RowOK, SameFixture
<1>2. ASSUME NEW h \in H, NEW i \in H
      PROVE  RowsAgree(h, i)
  <2>1. PICK g \in G : SameFixture(g, h)
    OBVIOUS
  <2>2. PICK j \in G : SameFixture(j, i)
    OBVIOUS
  <2>3. RowsAgree(g, j)
    BY DEF Good
  <2>. QED BY <2>1, <2>2, <2>3 DEF RowsAgree, SameFixture, SameRound, SeedsOf
<1>3. ThirdWithFinal(H)
  BY DEF ThirdWithFinal, HasRound, SameFixture
<1>. QED BY <1>1, <1>2, <1>3 DEF Good

LEMMA PInvInit == BracketInit => PInv
<1> SUFFICES ASSUME BracketInit PROVE PInv
  OBVIOUS
<1>1. matchups = {} /\ bracket = Null /\ made = 0 /\ 0 \in 0..MaxBrackets
  BY BracketAssumption DEF BracketInit
<1>2. DOMAIN req = Requests /\ \A p \in Requests : req[p] = Null
  BY DEF BracketInit
<1>. QED BY <1>1, <1>2 DEF PInv, Good, ThirdWithFinal, HasRound, GamesHaveBracket

\* What a request that starts remembers does not touch the rest.
LEMMA RequestsStay ==
    ASSUME PInv, NEW p \in Requests, NEW r, req' = [req EXCEPT ![p] = r],
           r = Null \/ r.op # "advance" \/ AdvanceOK(r)
    PROVE  /\ DOMAIN req' = Requests
           /\ \A q \in Requests : req'[q] # Null /\ req'[q].op = "advance" => AdvanceOK(req'[q])
BY DEF PInv

LEMMA OnlyRequests ==
    ASSUME PInv, NEW p \in Requests, NEW r, req' = [req EXCEPT ![p] = r],
           r = Null \/ r.op # "advance" \/ AdvanceOK(r),
           UNCHANGED <<bracket, matchups, made>>
    PROVE  PInv'
<1>1. /\ DOMAIN req' = Requests
      /\ \A q \in Requests : req'[q] # Null /\ req'[q].op = "advance" => AdvanceOK(req'[q])
  BY RequestsStay
<1>. QED BY <1>1 DEF PInv, GamesHaveBracket

LEMMA GenerateStep ==
    ASSUME PInv, NEW p \in Requests, GenerateCommit(p)
    PROVE  PInv'
<1>1. req' = [req EXCEPT ![p] = Null]
  BY DEF GenerateCommit
<1>2. /\ DOMAIN req' = Requests
      /\ \A q \in Requests : req'[q] # Null /\ req'[q].op = "advance" => AdvanceOK(req'[q])
  BY <1>1, RequestsStay
<1>3. CASE UNCHANGED <<bracket, matchups, made>>
  BY <1>1, <1>3, OnlyRequests
<1>4. CASE ~UNCHANGED <<bracket, matchups, made>>
  <2> DEFINE A == FirstRoundRows(made', "WINNERS")
             B == IF ConsolationTeams = 0 THEN {} ELSE FirstRoundRows(made', "CONSOLATION")
  <2>1. /\ bracket = Null /\ made # MaxBrackets
        /\ made' = made + 1 /\ bracket' = NewBracket(made')
        /\ matchups' = WithRows(WithRows(matchups, A), B)
    BY <1>4 DEF GenerateCommit
  <2>2. matchups = {}
    BY <2>1 DEF PInv, GamesHaveBracket
  <2>3. made' \in 1..MaxBrackets
    BY <2>1, BracketAssumption DEF PInv
  <2>4. bracket' \in Bracket
    BY <2>1, <2>3 DEF NewBracket, Bracket, Winner
  <2>5. ASSUME NEW bt \in {"WINNERS", "CONSOLATION"}, NEW rows,
               rows = FirstRoundRows(made', bt), TeamsOf(bt) # 0
        PROVE  Good(rows) /\ \A g \in rows : g.bt = bt /\ g.round = 1
    <3> DEFINE Z == FirstRound(TeamsOf(bt))
    <3>1. TeamsOf(bt) \in {4, 6, 8} /\ 1 \in 1..RoundsOf(bt) /\ bt \in BracketTypes
      BY <2>5, BracketConfig DEF BracketTypes
    <3>2. FixturesOK(bt, 1, Z)
      <4>1. CASE TeamsOf(bt) = 4
        <5>1. Z = {<<1, 1, 4>>, <<2, 2, 3>>} /\ SeedsIn(bt, 1) = 1..4 /\ Positions(bt, 1) = 1..2
          BY <4>1 DEF FirstRound, SeedsIn, ByeSeeds, Positions
        <5> HIDE DEF Z
        <5>. QED BY <5>1 DEF FixturesOK
      <4>2. CASE TeamsOf(bt) = 6
        <5>1. /\ Z = {<<1, 3, 6>>, <<2, 4, 5>>} /\ SeedsIn(bt, 1) = (1..6) \ {1, 2}
              /\ Positions(bt, 1) = 1..2
          BY <4>2 DEF FirstRound, SeedsIn, ByeSeeds, Positions
        <5> HIDE DEF Z
        <5>. QED BY <5>1 DEF FixturesOK
      <4>3. CASE TeamsOf(bt) = 8
        <5>1. /\ Z = {<<1, 1, 8>>, <<2, 4, 5>>, <<3, 3, 6>>, <<4, 2, 7>>}
              /\ SeedsIn(bt, 1) = 1..8 /\ Positions(bt, 1) = 1..4
          BY <4>3 DEF FirstRound, SeedsIn, ByeSeeds, Positions
        <5> HIDE DEF Z
        <5>. QED BY <5>1 DEF FixturesOK
      <4>. QED BY <3>1, <4>1, <4>2, <4>3
    <3>3. RowsOf(made', bt, 1, Z, rows)
      <4>1. ASSUME NEW g \in rows
            PROVE  \E z \in Z : \E k \in 1..WeeksOf(1) : g = RowOf(made', bt, 1, z, k)
        <5>1. PICK x \in Z :
                 g \in PairRows(made', bt, 1, x[1], SeedRow(bt, x[2]), SeedRow(bt, x[3]))
          BY <2>5 DEF FirstRoundRows
        <5>2. /\ SeedRow(bt, x[2]).roster = SeedRoster(bt, SeedRow(bt, x[2]).seed)
              /\ SeedRow(bt, x[3]).roster = SeedRoster(bt, SeedRow(bt, x[3]).seed)
              /\ SeedRow(bt, x[2]).seed = x[2] /\ SeedRow(bt, x[3]).seed = x[3]
          BY DEF SeedRow
        <5>3. PICK k \in 1..WeeksOf(1) : g = RowOf(made', bt, 1, <<x[1], x[2], x[3]>>, k)
          BY <5>1, <5>2, RowsOfPairing
        <5>4. RowOf(made', bt, 1, <<x[1], x[2], x[3]>>, k) = RowOf(made', bt, 1, x, k)
          BY DEF RowOf
        <5>. QED BY <5>3, <5>4
      <4>. QED BY <4>1 DEF RowsOf
    <3> HIDE DEF Z
    <3>. QED BY <3>1, <3>2, <3>3, FixturesAreGood
  <2>6. Good(A) /\ \A g \in A : g.bt = "WINNERS" /\ g.round = 1
    <3>1. TeamsOf("WINNERS") # 0
      BY BracketAssumption, BracketConfig
    <3>. QED BY <2>5, <3>1
  <2>7. Good(B) /\ \A g \in B : g.bt = "CONSOLATION" /\ g.round = 1
    <3>1. CASE ConsolationTeams = 0
      <4>1. B = {}
        BY <3>1
      <4> HIDE DEF B
      <4>. QED BY <4>1 DEF Good
    <3>2. CASE ConsolationTeams # 0
      <4>1. TeamsOf("CONSOLATION") # 0 /\ B = FirstRoundRows(made', "CONSOLATION")
        BY <3>2, BracketConfig
      <4> HIDE DEF B
      <4>. QED BY <2>5, <4>1
    <3>. QED BY <3>1, <3>2
  <2> HIDE DEF A, B
  <2>8. WithRows(matchups, A) = A
    BY <2>2 DEF WithRows
  <2>9. Good(A \union B) /\ WithRows(A, B) = A \union B
    <3>1. (\A g \in A, h \in B : ~SameRound(g, h)) /\ Apart(A, B) /\ Apart(B, A)
      BY <2>6, <2>7 DEF SameRound, Apart
    <3>. QED BY <2>6, <2>7, <3>1, GoodTogether
  <2>10. ThirdWithFinal(A \union B)
    BY <2>6, <2>7, BracketConfig DEF ThirdWithFinal, HasRound
  <2>11. Good(matchups') /\ ThirdWithFinal(matchups')
    BY <2>1, <2>8, <2>9, <2>10
  <2>12. bracket' # Null /\ made' \in 0..MaxBrackets
    BY <2>3, <2>4, NullAssumption
  <2>. QED BY <1>2, <2>4, <2>11, <2>12 DEF PInv, GamesHaveBracket
<1>. QED BY <1>3, <1>4

LEMMA BracketDeleteStep ==
    ASSUME PInv, NEW p \in Requests, DeleteCommit(p)
    PROVE  PInv'
<1>1. /\ DOMAIN req' = Requests
      /\ \A q \in Requests : req'[q] # Null /\ req'[q].op = "advance" => AdvanceOK(req'[q])
  BY RequestsStay DEF DeleteCommit
<1>2. matchups' = {} /\ made' = made /\ (bracket' = bracket \/ bracket' = Null)
  BY DEF DeleteCommit
<1>. QED BY <1>1, <1>2 DEF PInv, Good, ThirdWithFinal, HasRound, GamesHaveBracket

LEMMA BracketFinalizeStep ==
    ASSUME PInv, NEW p \in Requests, FinalizeCommit(p)
    PROVE  PInv'
<1> DEFINE hit == {g \in matchups : <<g.bid, SlotOf(g)>> \in req[p].ids}
           upd(points, g) == [g EXCEPT !.final = TRUE, !.pa = points[g][1], !.pb = points[g][2]]
<1>1. /\ DOMAIN req' = Requests
      /\ \A q \in Requests : req'[q] # Null /\ req'[q].op = "advance" => AdvanceOK(req'[q])
  BY RequestsStay DEF FinalizeCommit
<1>2. PICK points : matchups' = (matchups \ hit) \union {upd(points, g) : g \in hit}
  BY DEF FinalizeCommit
<1>3. Good(matchups) /\ ThirdWithFinal(matchups)
  BY DEF PInv
<1>4. \A g \in matchups : SameFixture(g, upd(points, g)) /\ SameFixture(g, g)
  <2>1. ASSUME NEW g \in matchups
        PROVE  DOMAIN g = RowColumns
    BY <1>3 DEF Good, RowOK
  <2>. QED BY <2>1 DEF SameFixture, RowColumns
<1>5. \A h \in matchups' : \E g \in matchups :
          SameFixture(g, h) /\ ((g \notin hit /\ h = g) \/ (g \in hit /\ h = upd(points, g)))
  <2>1. ASSUME NEW h \in matchups'
        PROVE  \E g \in matchups : ((g \notin hit /\ h = g) \/ (g \in hit /\ h = upd(points, g)))
    <3>1. CASE h \in matchups \ hit
      <4>1. h \in matchups /\ h \notin hit
        BY <3>1
      <4> HIDE DEF upd, hit
      <4>. QED BY <4>1
    <3>2. CASE h \notin matchups \ hit
      <4> HIDE DEF upd, hit
      <4>1. h \in {upd(points, g) : g \in hit}
        BY <1>2, <3>2
      <4>2. PICK g \in hit : h = upd(points, g)
        BY <4>1
      <4>3. g \in matchups
        BY DEF hit
      <4>. QED BY <4>2, <4>3
    <3>. QED BY <3>1, <3>2
  <2> HIDE DEF upd, hit
  <2>. QED BY <1>4, <2>1
<1>6. \A g \in matchups : \E h \in matchups' : SameFixture(g, h)
  BY <1>2, <1>4
<1>7. ASSUME NEW h \in matchups', NEW i \in matchups', SlotOf(h) = SlotOf(i)
      PROVE  h = i
  <2>1. PICK g \in matchups :
          SameFixture(g, h) /\ ((g \notin hit /\ h = g) \/ (g \in hit /\ h = upd(points, g)))
    BY <1>5
  <2>2. PICK j \in matchups :
          SameFixture(j, i) /\ ((j \notin hit /\ i = j) \/ (j \in hit /\ i = upd(points, j)))
    BY <1>5
  <2>3. SlotOf(g) = SlotOf(j)
    BY <1>7, <2>1, <2>2 DEF SlotOf, SameFixture
  <2>4. g = j
    BY <1>3, <2>3 DEF Good, RowsAgree
  <2>. QED BY <2>1, <2>2, <2>4
<1> HIDE DEF hit, upd
<1>8. Good(matchups') /\ ThirdWithFinal(matchups') /\ (matchups' # {} => matchups # {})
  <2>1. /\ \A h \in matchups' : \E g \in matchups : SameFixture(g, h)
        /\ \A h, i \in matchups' : SlotOf(h) = SlotOf(i) => h = i
    BY <1>5, <1>7
  <2>. QED BY <1>3, <1>6, <2>1, FinalizedGood
<1>9. bracket' = bracket /\ made' = made
  BY DEF FinalizeCommit
<1>. QED BY <1>1, <1>8, <1>9 DEF PInv, GamesHaveBracket

\* The winner that a completed series decides is a roster of the standings.
LEMMA DecidedIsWinner ==
    ASSUME PInv, NEW bt \in {"WINNERS", "CONSOLATION"}, NEW n, NEW week,
           n = 0 \/ InRound(bt, n, week)
    PROVE  DecidedBy(bt, n, week) \in Winner
<1> DEFINE C == CompletedSeries(bt, week)
           s == CHOOSE x \in C : TRUE
<1>1. CASE n = RoundsOf(bt) /\ C # {}
  <2>1. s \in C /\ DecidedBy(bt, n, week) = SeriesWinner(s)
    BY <1>1 DEF DecidedBy
  <2>2. InRound(bt, n, week)
    BY <1>1, BracketConfig
  <2>3. Contests(bt, n, C)
    BY <2>2, CompletedAreContests DEF PInv
  <2> HIDE DEF s, C
  <2>4. Won(s).seed \in SeedsIn(bt, n) /\ Won(s).roster = SeedRoster(bt, Won(s).seed)
    BY <2>1, <2>3 DEF Contests, Contest
  <2>5. Won(s).seed \in 1..TeamsOf(bt) /\ bt \in BracketTypes
    BY <2>4, SeedsArePlaces DEF BracketTypes
  <2>6. SeedRoster(bt, Won(s).seed) \in Winner
    BY <2>5, RostersOfSeeds DEF Winner
  <2>7. SeriesWinner(s) = Won(s).roster
    BY DEF Won
  <2>. QED BY <2>1, <2>4, <2>6, <2>7
<1>2. CASE ~(n = RoundsOf(bt) /\ C # {})
  BY <1>2 DEF DecidedBy, Winner
<1>. QED BY <1>1, <1>2

\* What an advancement writes: the rows of both brackets, next to the others.
LEMMA AdvanceAdds ==
    ASSUME PInv, NEW p \in Requests, AdvanceCommit(p), NEW r, r = req[p],
           NEW A, A = CreatedBy(r.id, "WINNERS", r.winners, r.week),
           NEW B, B = CreatedBy(r.id, "CONSOLATION", r.consolation, r.week)
    PROVE  /\ matchups' = (matchups \union A) \union B
           /\ Good((matchups \union A) \union B)
           /\ NewRows("WINNERS", A) /\ NewRows("CONSOLATION", B) /\ AdvanceOK(r)
<1>1. /\ r # Null /\ r.op = "advance"
      /\ matchups' = WithRows(WithRows(matchups, A), B)
  BY Zenon DEF AdvanceCommit
<1>2. AdvanceOK(r)
  BY <1>1 DEF PInv
<1>3. NewRows("WINNERS", A) /\ NewRows("CONSOLATION", B)
  BY <1>2, CreatedGood DEF AdvanceOK
<1>4. /\ Good(A) /\ (\A g \in matchups, h \in A : ~SameRound(g, h))
      /\ Apart(matchups, A) /\ Apart(A, matchups)
      /\ (\A g \in A : g.bt # "CONSOLATION")
  BY <1>3 DEF NewRows
<1>5. /\ Good(B) /\ (\A g \in matchups, h \in B : ~SameRound(g, h))
      /\ (\A g \in B : g.bt = "CONSOLATION")
  BY <1>3 DEF NewRows
<1>6. Good(matchups \union A) /\ WithRows(matchups, A) = matchups \union A
  BY <1>4, GoodTogether DEF PInv
<1>7. /\ Good((matchups \union A) \union B)
      /\ WithRows(matchups \union A, B) = (matchups \union A) \union B
  <2>1. \A g \in matchups \union A, h \in B : ~SameRound(g, h)
    BY <1>4, <1>5 DEF SameRound
  <2>2. Apart(matchups \union A, B) /\ Apart(B, matchups \union A)
    BY <1>5 DEF Apart
  <2> DEFINE G == matchups \union A
  <2>3. /\ Good(G) /\ Good(B) /\ (\A g \in G, h \in B : ~SameRound(g, h))
        /\ Apart(G, B) /\ Apart(B, G)
    BY <1>5, <1>6, <2>1, <2>2
  <2> HIDE DEF G
  <2>4. Good(G \union B) /\ WithRows(G, B) = G \union B
    BY <2>3, GoodTogether
  <2>. QED BY <2>4 DEF G
<1>. QED BY <1>1, <1>2, <1>3, <1>6, <1>7

LEMMA AdvanceStep ==
    ASSUME PInv, NEW p \in Requests, AdvanceCommit(p)
    PROVE  PInv'
<1> DEFINE r == req[p]
           A == CreatedBy(r.id, "WINNERS", r.winners, r.week)
           B == CreatedBy(r.id, "CONSOLATION", r.consolation, r.week)
           first == DecidedBy("WINNERS", r.winners, r.week)
           cons == DecidedBy("CONSOLATION", r.consolation, r.week)
           set == WithWinners(bracket, first, cons, r.third)
           ended == IF first # Null \/ cons # Null \/ r.third # Null
                    THEN FinalizedIfComplete(set) ELSE set
<1>1. /\ r # Null /\ r.op = "advance" /\ made' = made
      /\ req' = [req EXCEPT ![p] = Null]
      /\ matchups' = WithRows(WithRows(matchups, A), B)
      /\ bracket' = IF bracket = Null \/ bracket.id # r.id THEN bracket
                    ELSE IF r.pending THEN [ended EXCEPT !.status = "active"]
                    ELSE ended
  BY Zenon DEF AdvanceCommit
<1>2. /\ DOMAIN req' = Requests
      /\ \A q \in Requests : req'[q] # Null /\ req'[q].op = "advance" => AdvanceOK(req'[q])
  BY <1>1, RequestsStay
<1>3. AdvanceOK(r)
  BY <1>1 DEF PInv
<1>4. /\ r.winners = 0 \/ InRound("WINNERS", r.winners, r.week)
      /\ r.consolation = 0 \/ InRound("CONSOLATION", r.consolation, r.week)
      /\ r.third \in Winner
  BY <1>3 DEF AdvanceOK
<1>5. first \in Winner /\ cons \in Winner
  <2> HIDE DEF r
  <2>. QED BY <1>4, DecidedIsWinner
<1>6. (bracket' = Null /\ bracket = Null) \/ (bracket' \in Bracket /\ bracket # Null)
  <2> HIDE DEF r, first, cons
  <2>1. CASE bracket = Null \/ bracket.id # r.id
    <3> HIDE DEF ended
    <3> DEFINE after == IF r.pending THEN [ended EXCEPT !.status = "active"] ELSE ended
    <3>0. bracket' = IF bracket = Null \/ bracket.id # r.id THEN bracket ELSE after
      BY <1>1, Zenon
    <3> HIDE DEF after
    <3>1. bracket' = bracket
      BY <2>1, <3>0
    <3>. QED BY <3>1 DEF PInv
  <2>2. CASE ~(bracket = Null \/ bracket.id # r.id)
    <3>1. bracket \in Bracket /\ bracket # Null
      BY <2>2 DEF PInv
    <3>2. set \in Bracket
      BY <1>4, <1>5, <3>1 DEF WithWinners, Bracket
    <3>3. ended \in Bracket
      <4> HIDE DEF set
      <4>1. FinalizedIfComplete(set) \in Bracket
        BY <3>2 DEF FinalizedIfComplete, Bracket
      <4>. QED BY <3>2, <4>1
    <3>4. [ended EXCEPT !.status = "active"] \in Bracket
      <4> HIDE DEF ended
      <4>. QED BY <3>3 DEF Bracket
    <3> HIDE DEF ended
    <3>. QED BY <1>1, <2>2, <3>1, <3>3, <3>4
  <2>. QED BY <2>1, <2>2
<1>7. /\ matchups' = (matchups \union A) \union B
      /\ Good((matchups \union A) \union B)
      /\ NewRows("WINNERS", A) /\ NewRows("CONSOLATION", B)
  <2> HIDE DEF r
  <2>1. r = req[p]
    BY DEF r
  <2>. QED BY <2>1, AdvanceAdds
<1> HIDE DEF A, B, r, ended
<1>8. /\ ThirdWithFinal(matchups \union A) /\ (A # {} => matchups # {})
      /\ (\A g \in B : g.bt = "CONSOLATION") /\ (B # {} => matchups # {})
  BY <1>7 DEF NewRows
<1>9. ThirdWithFinal((matchups \union A) \union B)
  BY <1>8 DEF ThirdWithFinal, HasRound
<1>10. GamesHaveBracket'
  BY <1>6, <1>7, <1>8, NullAssumption DEF PInv, GamesHaveBracket
<1>. QED BY <1>1, <1>2, <1>6, <1>7, <1>9, <1>10 DEF PInv

LEMMA AdvanceStartStep ==
    ASSUME PInv, NEW p \in Requests, NEW week \in PlayoffWeeks, AdvanceStart(p, week)
    PROVE  PInv'
<1> DEFINE third == {g \in matchups : IsThirdPlaceGame(g) /\ g.week = week /\ g.final}
           r == [op |-> "advance", week |-> week, id |-> bracket.id,
                 pending |-> bracket.status = "pending",
                 winners |-> FinalRound("WINNERS", week),
                 consolation |-> FinalRound("CONSOLATION", week),
                 third |-> IF third = {} \/ ~EnableThirdPlace THEN Null
                           ELSE GameWinner(SomeGame(third))]
<1>1. req' = [req EXCEPT ![p] = r] /\ UNCHANGED <<bracket, matchups, made>>
  BY Zenon DEF AdvanceStart
<1>2. ASSUME NEW bt \in {"WINNERS", "CONSOLATION"}
      PROVE  FinalRound(bt, week) = 0 \/ InRound(bt, FinalRound(bt, week), week)
  <2> DEFINE rows == {g \in matchups : g.bt = bt /\ g.week = week /\ g.final}
             h == SomeGame(rows)
  <2>1. CASE rows = {}
    BY <2>1 DEF FinalRound
  <2>2. CASE rows # {}
    <3>1. h \in rows
      BY <2>2 DEF SomeGame
    <3>2. FinalRound(bt, week) = h.round
      BY <2>2 DEF FinalRound
    <3>3. RowOK(h) /\ h.bt = bt /\ h.week = week
      BY <3>1 DEF PInv, Good
    <3> HIDE DEF h
    <3>4. h.round \in Int /\ WeekStart(h.round) \in Int /\ WeeksOf(h.round) \in {1, 2}
      BY <3>3, BracketConfig DEF RowOK
    <3>. QED BY <3>2, <3>3, <3>4 DEF RowOK, InRound, WeekEnd
  <2>. QED BY <2>1, <2>2
<1>3. r.third \in Winner
  <2>1. CASE third = {} \/ ~EnableThirdPlace
    BY <2>1 DEF Winner
  <2>2. CASE ~(third = {} \/ ~EnableThirdPlace)
    <3> DEFINE g == SomeGame(third)
    <3>1. g \in third
      BY <2>2 DEF SomeGame
    <3>2. RowOK(g) /\ r.third = GameWinner(g)
      BY <2>2, <3>1 DEF PInv, Good
    <3> HIDE DEF g
    <3>3. g.a \in Winner /\ g.b \in Winner
      BY <3>2, SeedsArePlaces, RostersOfSeeds DEF RowOK, Winner
    <3>4. GameWinner(g) \in {g.a, g.b}
      BY DEF GameWinner, Resolve
    <3>. QED BY <3>2, <3>3, <3>4
  <2>. QED BY <2>1, <2>2
<1>4. AdvanceOK(r)
  BY <1>2, <1>3 DEF AdvanceOK
<1> HIDE DEF r
<1>. QED BY <1>1, <1>4, OnlyRequests

LEMMA PInvStep == PInv /\ [BracketNext]_bracketVars => PInv'
<1> SUFFICES ASSUME PInv, [BracketNext]_bracketVars PROVE PInv'
  OBVIOUS
<1>1. ASSUME NEW p \in Requests, GenerateStart(p) PROVE PInv'
  <2>1. [op |-> "generate"].op # "advance"
    OBVIOUS
  <2>. QED BY <1>1, <2>1, OnlyRequests DEF GenerateStart
<1>2. ASSUME NEW p \in Requests, DeleteStart(p) PROVE PInv'
  <2>1. [op |-> "delete", id |-> bracket.id].op # "advance"
    OBVIOUS
  <2>. QED BY <1>2, <2>1, OnlyRequests DEF DeleteStart
<1>3. ASSUME NEW p \in Requests, NEW week \in PlayoffWeeks, FinalizeStart(p, week) PROVE PInv'
  <2> DEFINE r == [op |-> "finalize", week |-> week,
                   ids |-> {<<g.bid, SlotOf(g)>> : g \in {g \in matchups : g.week = week}}]
  <2>1. r.op # "advance"
    OBVIOUS
  <2>2. req' = [req EXCEPT ![p] = r] /\ UNCHANGED <<bracket, matchups, made>>
    BY <1>3, Zenon DEF FinalizeStart
  <2> HIDE DEF r
  <2>. QED BY <2>1, <2>2, OnlyRequests
<1>4. CASE UNCHANGED bracketVars
  BY <1>4 DEF bracketVars, PInv, GamesHaveBracket
<1>. QED
  BY <1>1, <1>2, <1>3, <1>4, AdvanceStartStep, GenerateStep, BracketDeleteStep, BracketFinalizeStep,
     AdvanceStep DEF BracketNext

-----------------------------------------------------------------------------
LEMMA PInvImplies ==
    ASSUME PInv
    PROVE  OneGameAWeek /\ GamesHaveBracket /\ BracketTypeOK
<1>1. ASSUME NEW g \in matchups
      PROVE  /\ RowOK(g) /\ g.round \in 1..3 /\ g.game \in 1..2
             /\ WeekStart(g.round) \in Int /\ WeeksOf(g.round) \in {1, 2}
             /\ g.week \in WeekStart(g.round)..WeekEnd(g.round) /\ g.week \in Int
             /\ g.sa \in 1..TeamsOf(g.bt) /\ g.sb \in 1..TeamsOf(g.bt) /\ g.bt \in BracketTypes
             /\ g.a = SeedRoster(g.bt, g.sa) /\ g.b = SeedRoster(g.bt, g.sb)
  <2>1. RowOK(g)
    BY DEF PInv, Good
  <2>2. g.round \in 1..3 /\ WeekStart(g.round) \in Int /\ WeeksOf(g.round) \in {1, 2}
    BY <2>1, BracketConfig DEF RowOK
  <2>3. g.game \in 1..2 /\ g.week \in WeekStart(g.round)..WeekEnd(g.round) /\ g.week \in Int
    BY <2>1, <2>2 DEF RowOK, WeekEnd
  <2>4. g.sa \in 1..TeamsOf(g.bt) /\ g.sb \in 1..TeamsOf(g.bt)
    BY <2>1, SeedsArePlaces DEF RowOK
  <2>. QED BY <2>1, <2>2, <2>3, <2>4 DEF RowOK
<1>2. ASSUME NEW g \in matchups, NEW h \in matchups, g.week = h.week,
             {g.a, g.b} \intersect {h.a, h.b} # {}
      PROVE  g = h
  <2>1. RowsAgree(g, h) /\ RowsAgree(h, g)
    BY DEF PInv, Good
  <2>2. g.round = h.round
    <3> DEFINE r == g.round
               s == h.round
               week == g.week
    <3>1. /\ r \in 1..3 /\ s \in 1..3 /\ week \in Int
          /\ week \in WeekStart(r)..WeekEnd(r) /\ week \in WeekStart(s)..WeekEnd(s)
      BY <1>1, <1>2
    <3> HIDE DEF r, s, week
    <3>2. r = s
      BY <3>1, WeekOfOneRound
    <3>. QED BY <3>2 DEF r, s
  <2>3. g.game = h.game
    <3>1. g.week = WeekStart(g.round) + g.game - 1 /\ h.week = WeekStart(h.round) + h.game - 1
      BY <1>1 DEF RowOK
    <3>2. g.game \in Int /\ h.game \in Int /\ WeekStart(g.round) \in Int
      BY <1>1
    <3>. QED BY <1>2, <2>2, <3>1, <3>2
  <2>4. (g.bt = "CONSOLATION" <=> h.bt = "CONSOLATION") /\ SeedsOf(g) \intersect SeedsOf(h) # {}
    <3>1. PICK x \in {g.a, g.b}, y \in {h.a, h.b} : x = y
      BY <1>2
    <3>2. PICK i \in SeedsOf(g) : x = SeedRoster(g.bt, i) /\ i \in 1..TeamsOf(g.bt)
      BY <1>1 DEF SeedsOf
    <3>3. PICK j \in SeedsOf(h) : y = SeedRoster(h.bt, j) /\ j \in 1..TeamsOf(h.bt)
      BY <1>1 DEF SeedsOf
    <3>4. /\ g.bt # "CONSOLATION" => i \in 1..PlayoffTeams
          /\ h.bt # "CONSOLATION" => j \in 1..PlayoffTeams
          /\ i \in Nat \ {0} /\ j \in Nat \ {0} /\ PlayoffTeams \in Nat
      BY <3>2, <3>3, BracketConfig DEF TeamsOf
    <3>5. (g.bt = "CONSOLATION" <=> h.bt = "CONSOLATION") /\ i = j
      <4>1. CASE g.bt = "CONSOLATION"
        <5>1. x = PlayoffTeams + i
          BY <3>2, <4>1 DEF SeedRoster
        <5>2. h.bt = "CONSOLATION"
          BY <3>1, <3>3, <3>4, <5>1 DEF SeedRoster
        <5>3. y = PlayoffTeams + j
          BY <3>3, <5>2 DEF SeedRoster
        <5>4. PlayoffTeams + i = PlayoffTeams + j
          BY <3>1, <5>1, <5>3
        <5>5. i = j
          BY <3>4, <5>4
        <5>. QED BY <4>1, <5>2, <5>5
      <4>2. CASE g.bt # "CONSOLATION"
        <5>1. x = i
          BY <3>2, <4>2 DEF SeedRoster
        <5>2. h.bt # "CONSOLATION"
          BY <3>1, <3>3, <3>4, <4>2, <5>1 DEF SeedRoster
        <5>3. y = j
          BY <3>3, <5>2 DEF SeedRoster
        <5>. QED BY <3>1, <3>4, <4>2, <5>1, <5>2, <5>3
      <4>. QED BY <4>1, <4>2
    <3>. QED BY <3>2, <3>3, <3>5
  <2>5. g.bt = h.bt
    <3>1. g.bt = "THIRD_PLACE" \/ h.bt = "THIRD_PLACE" => g.round = TotalRounds
      BY <1>1, <2>2 DEF RowOK
    <3>2. {g.bt, h.bt} \subseteq {"WINNERS", "THIRD_PLACE", "CONSOLATION"}
      BY <1>1 DEF BracketTypes
    <3>3. ~(g.bt = "WINNERS" /\ h.bt = "THIRD_PLACE") /\ ~(h.bt = "WINNERS" /\ g.bt = "THIRD_PLACE")
      BY <2>1, <2>2, <2>4, <3>1 DEF RowsAgree
    <3>. QED BY <2>4, <3>2, <3>3
  <2>6. g.pos = h.pos
    BY <2>1, <2>2, <2>4, <2>5 DEF RowsAgree, SameRound
  <2>. QED BY <2>1, <2>2, <2>3, <2>5, <2>6 DEF RowsAgree, SlotOf
<1>3. OneGameAWeek
  BY <1>2 DEF OneGameAWeek, PInv, Good, RowsAgree
<1>4. BracketTypeOK
  <2>1. \A g \in matchups : /\ g.bt \in BracketTypes
                            /\ g.week \in WeekStart(g.round)..WeekEnd(g.round)
                            /\ g.game \in 1..g.len
                            /\ {g.a, g.b} \subseteq 1..(PlayoffTeams + ConsolationTeams)
    BY <1>1, RostersOfSeeds DEF RowOK
  <2>2. ASSUME NEW q \in Requests, req[q] # Null /\ req[q].op = "advance"
        PROVE  /\ req[q].winners \in 0..TotalRounds
               /\ req[q].consolation \in 0..RoundsOf("CONSOLATION")
               /\ req[q].third \in Winner
    <3>1. AdvanceOK(req[q])
      BY <2>2 DEF PInv
    <3>. QED BY <3>1, BracketConfig DEF AdvanceOK, InRound
  <2>. QED BY <2>1, <2>2 DEF PInv, BracketTypeOK
<1>. QED BY <1>3, <1>4 DEF PInv

\* Whatever the order in which the requests of a league commit, the rows of its
\* playoffs fit together, and so do the bracket and what a pending request has
\* read of them.
THEOREM BracketInvariant == BracketSpec => []PInv
<1>. QED BY PInvInit, PInvStep, PTL DEF BracketSpec

\* A roster plays at most one game of the playoffs in a week, although the
\* third place game falls in the weeks of the final, two advancements of one
\* week can be under way together, and a bracket can be deleted between the
\* reading and the writing of each.
THEOREM OneGame == BracketSpec => []OneGameAWeek
<1>1. PInv => OneGameAWeek
  BY PInvImplies
<1>. QED BY <1>1, BracketInvariant, PTL

\* Games of the playoffs are in force only together with the bracket they
\* belong to: a request that lost its bracket leaves no games behind.
THEOREM BracketGames == BracketSpec => []GamesHaveBracket
<1>1. PInv => GamesHaveBracket
  BY PInvImplies
<1>. QED BY <1>1, BracketInvariant, PTL

-----------------------------------------------------------------------------
(* Whoever stands in a round has won its way there                         *)

\* A round below the last has every game of every series.
Whole(G) ==
    \A bt \in {"WINNERS", "CONSOLATION"}, n \in 1..2 : n < RoundsOf(bt) /\ HasRound(G, bt, n) =>
        \A pos \in Positions(bt, n), k \in 1..WeeksOf(n) :
            \E g \in G : g.bt = bt /\ g.round = n /\ g.pos = pos /\ g.game = k

\* Two brackets of as many rounds are played side by side.
Together(G) ==
    \A n \in 1..3 : /\ ConsolationTeams # 0
                    /\ n <= RoundsOf("CONSOLATION") /\ n <= TotalRounds
                    => (HasRound(G, "WINNERS", n) <=> HasRound(G, "CONSOLATION", n))

\* The games of a week become final together.
Uniform(G) == \A g, h \in G : g.week = h.week => g.final = h.final

Scored(G) == \A g \in G : g.final \in BOOLEAN /\ g.pa \in Int /\ g.pb \in Int

\* The body of WonSeries, on the rows of one series.
Line(G, bt, n, pos) == {g \in G : g.bt = bt /\ g.round = n /\ g.pos = pos}
WonWith(S, roster) ==
    LET For(g) == IF g.a = roster THEN g.pa ELSE g.pb
        Against(g) == IF g.a = roster THEN g.pb ELSE g.pa
        Mine(g) == IF g.a = roster THEN g.sa ELSE g.sb
        Theirs(g) == IF g.a = roster THEN g.sb ELSE g.sa
    IN  /\ \A g \in S : g.final /\ roster \in {g.a, g.b}
        /\ \/ SumOver(S, For) > SumOver(S, Against)
           \/ /\ SumOver(S, For) = SumOver(S, Against)
              /\ \A g \in S : Mine(g) < Theirs(g)
WonIn(G, bt, n, roster) ==
    \E pos \in {g.pos : g \in {h \in G : h.bt = bt /\ h.round = n}} :
        WonWith(Line(G, bt, n, pos), roster)

HadBye(bt, n, roster) ==
    n = 2 /\ \E s \in ByeSeeds(TeamsOf(bt)) : roster = SeedRoster(bt, s)

\* Every team has earned its place, and the champion the title.
Earned(G) ==
    \A g \in G : g.bt \in {"WINNERS", "CONSOLATION"} /\ g.round > 1 =>
        \A t \in {g.a, g.b} : WonIn(G, g.bt, g.round - 1, t) \/ HadBye(g.bt, g.round, t)
TitleWon(b, G) ==
    b # Null /\ b.champion # Null /\ G # {} => WonIn(G, "WINNERS", TotalRounds, b.champion)

\* A finalisation finds the rows it has read as they were, or none of them:
\* they were deleted meanwhile, and nothing was final then.
IdOf(g) == <<g.bid, SlotOf(g)>>
AsRead(G, r) ==
    /\ r.ids = {IdOf(g) : g \in {h \in G : h.week = r.week}}
    /\ \E g \in G : g.week = r.week
    /\ \A g \in G : g.week = r.week => ~g.final
Fresh(G, r) == \A g \in G : IdOf(g) \notin r.ids /\ ~g.final

\* An advancement has read both brackets of a week that they share.
ReadsBoth(r) ==
    ConsolationTeams # 0 =>
        \A n \in 1..2 : n < TotalRounds /\ n < RoundsOf("CONSOLATION") =>
            (r.winners = n <=> r.consolation = n)

Pending(op) == {p \in Requests : req[p] # Null /\ req[p].op = op}

\* Nothing refers to a bracket that was never created.
Numbered ==
    /\ \A g \in matchups : g.bid \in 1..made
    /\ bracket # Null => bracket.id \in 1..made
    /\ \A p \in Pending("advance") : req[p].id \in 1..made
    /\ \A p \in Pending("finalize") : \A i \in req[p].ids : i[1] \in 1..made

Finalizers ==
    /\ \A p, q \in Pending("finalize") : p = q
    /\ \A p \in Pending("finalize") : AsRead(matchups, req[p]) \/ Fresh(matchups, req[p])

\* The bracket when no two finalisations are under way at the same time.
WInv ==
    /\ Whole(matchups) /\ Together(matchups) /\ Uniform(matchups) /\ Scored(matchups)
    /\ Numbered /\ Finalizers
    /\ \A p \in Pending("advance") : ReadsBoth(req[p])
    /\ Earned(matchups) /\ TitleWon(bracket, matchups)

-----------------------------------------------------------------------------
(* Winners of series                                                       *)

LEMMA WonSeriesIn ==
    ASSUME NEW bt, NEW n, NEW roster
    PROVE  WonSeries(bt, n, roster) <=> WonIn(matchups, bt, n, roster)
BY DEF WonSeries, WonIn, WonWith, Line

\* A series is the line of its rows, and as long as its round.
LEMMA SeriesIsLine ==
    ASSUME Good(matchups), NEW g \in matchups, HasSeries(g)
    PROVE  /\ SeriesOf(g) = Line(matchups, g.bt, g.round, g.pos)
           /\ g.len = 2 /\ WeeksOf(g.round) = 2
<1>1. \A h \in matchups : h.len = WeeksOf(h.round) /\ h.round \in Int
  BY BracketConfig DEF Good, RowOK
<1>2. g.len = 2 /\ WeeksOf(g.round) = 2
  BY <1>1, BracketConfig DEF HasSeries
<1>3. \A h \in matchups : h.round = g.round => HasSeries(h)
  BY <1>1, <1>2 DEF HasSeries
<1>. QED BY <1>2, <1>3 DEF SeriesOf, Line

\* The games of a line of two weeks.
LEMMA LineGames ==
    ASSUME NEW G, Good(G), NEW bt, NEW n, NEW pos, WeeksOf(n) = 2,
           NEW S, S = Line(G, bt, n, pos)
    PROVE  /\ \A h \in S : h \in G /\ h.game \in 1..2 /\ h.len = 2
           /\ \A h, i \in S : h.game = i.game => h = i
           /\ \A h, i \in S : h.a = i.a /\ h.sa = i.sa /\ h.b = i.b /\ h.sb = i.sb
<1>1. \A h \in S : h \in G /\ h.bt = bt /\ h.round = n /\ h.pos = pos
  BY DEF Line
<1>2. \A h \in S : RowOK(h)
  BY <1>1 DEF Good
<1>3. \A h, i \in S : RowsAgree(h, i)
  BY <1>1 DEF Good
<1>4. \A h \in S : h.game \in 1..2 /\ h.len = 2
  BY <1>1, <1>2 DEF RowOK
<1>5. \A h, i \in S : h.game = i.game => h = i
  BY <1>1, <1>3 DEF RowsAgree, SlotOf
<1>6. \A h, i \in S : h.sa = i.sa /\ h.sb = i.sb
  BY <1>1, <1>3 DEF RowsAgree, SameRound
<1>7. \A h, i \in S : h.a = i.a /\ h.b = i.b
  BY <1>1, <1>2, <1>6 DEF RowOK
<1>. QED BY <1>1, <1>4, <1>5, <1>6, <1>7

\* A series of two games is complete when both are there and final.
LEMMA CompleteSeries ==
    ASSUME NEW S, \A h \in S : h.game \in 1..2 /\ h.len = 2 /\ h.final \in BOOLEAN,
           \A h, i \in S : h.game = i.game => h = i, S # {}
    PROVE  IsComplete(S) <=> /\ \A h \in S : h.final
                             /\ \A k \in 1..2 : \E h \in S : h.game = k
<1> DEFINE F == {h \in S : h.final}
           f == [h \in F |-> h.game]
           K == {h.game : h \in F}
<1>1. 1..2 = {1, 2} /\ IsFiniteSet(1..2) /\ Cardinality(1..2) = 2
  <2>1. IsFiniteSet(1..2) /\ Cardinality(1..2) = IF 1 > 2 THEN 0 ELSE 2 - 1 + 1
    <3>1. 1 \in Int /\ 2 \in Int
      OBVIOUS
    <3>. QED BY <3>1, FS_Interval, Zenon
  <2>. QED BY <2>1
<1>2. K \subseteq 1..2
  OBVIOUS
<1>3. IsFiniteSet(K) /\ Cardinality(K) <= 2 /\ Cardinality(K) \in Nat
  BY <1>1, <1>2, FS_Subset, FS_CardinalityType
<1>4. f \in Injection(F, K) /\ f \in Surjection(F, K)
  <2>1. /\ f \in [F -> K] /\ (\A h, i \in F : f[h] = f[i] => h = i)
        /\ \A k \in K : \E h \in F : f[h] = k
    OBVIOUS
  <2> HIDE DEF f, K, F
  <2>. QED BY <2>1 DEF Injection, Surjection, IsInjective
<1>5. Cardinality(F) = Cardinality(K)
  BY <1>3, <1>4, FS_Injection
<1>6. Cardinality(K) >= 2 <=> K = 1..2
  <2>1. K # 1..2 => Cardinality(K) # 2
    BY <1>1, <1>2, FS_Subset
  <2>. QED BY <1>1, <1>3, <2>1
<1>7. IsComplete(S) <=> Cardinality(F) >= 2
  BY DEF IsComplete
<1>8. K = 1..2 <=> (\A h \in S : h.final) /\ \A k \in 1..2 : \E h \in S : h.game = k
  <2>1. K = 1..2 <=> \A k \in 1..2 : \E h \in F : h.game = k
    BY <1>2
  <2>2. (\A k \in 1..2 : \E h \in F : h.game = k) <=>
            (\A h \in S : h.final) /\ \A k \in 1..2 : \E h \in S : h.game = k
    <3> HIDE DEF K, f
    <3>. QED OBVIOUS
  <2>. QED BY <2>1, <2>2
<1>. QED BY <1>5, <1>6, <1>7, <1>8

\* The winner that the service takes from a completed series has won it.
LEMMA WinnerWon ==
    ASSUME Good(matchups), Scored(matchups), NEW g \in matchups, HasSeries(g),
           NEW s, s = SeriesOf(g), IsComplete(s)
    PROVE  WonIn(matchups, g.bt, g.round, SeriesWinner(s))
<1> DEFINE h == SomeGame(s)
           ta == SumOver(s, PointsA)
           tb == SumOver(s, PointsB)
           w == SeriesWinner(s)
<1>1. s = Line(matchups, g.bt, g.round, g.pos) /\ WeeksOf(g.round) = 2 /\ g \in s
  BY SeriesIsLine DEF Line
<1>2. h \in s
  BY <1>1 DEF SomeGame
<1>3. /\ \A i \in s : i \in matchups /\ i.game \in 1..2 /\ i.len = 2
      /\ \A i, j \in s : i.game = j.game => i = j
      /\ \A i \in s : i.a = h.a /\ i.sa = h.sa /\ i.b = h.b /\ i.sb = h.sb
  BY <1>1, <1>2, LineGames
<1>4. \A i \in s : i.final \in BOOLEAN /\ i.pa \in Int /\ i.pb \in Int
  BY <1>3 DEF Scored
<1>5. \A i \in s : i.final
  BY <1>1, <1>3, <1>4, CompleteSeries
<1>6. ta \in Int /\ tb \in Int
  <2> DEFINE at(k) == CHOOSE i \in s : i.game = k
  <2>1. \A k : (\E i \in s : i.game = k) => at(k) \in s
    OBVIOUS
  <2> HIDE DEF at
  <2>2. ta = (IF \E i \in s : i.game = 1 THEN at(1).pa ELSE 0)
             + (IF \E i \in s : i.game = 2 THEN at(2).pa ELSE 0)
    BY DEF SumOver, PointsA, at
  <2>3. tb = (IF \E i \in s : i.game = 1 THEN at(1).pb ELSE 0)
             + (IF \E i \in s : i.game = 2 THEN at(2).pb ELSE 0)
    BY DEF SumOver, PointsB, at
  <2>. QED BY <1>4, <2>1, <2>2, <2>3
<1>7. h.sa \in Nat /\ h.sb \in Nat /\ h.sa # h.sb /\ h.a # h.b
  <2>1. RowOK(h)
    BY <1>2, <1>3 DEF Good
  <2>2. h.sa \in Nat /\ h.sb \in Nat /\ h.sa # h.sb
    BY <2>1, SeedsArePlaces DEF RowOK
  <2>. QED BY <2>1, <2>2, BracketConfig DEF RowOK, SeedRoster
<1>8. w = Resolve(h.a, h.sa, ta, h.b, h.sb, tb)
  BY DEF SeriesWinner
<1> HIDE DEF h, ta, tb, w
<1>9. \/ w = h.a /\ (ta > tb \/ (ta = tb /\ h.sa < h.sb))
      \/ w = h.b /\ (tb > ta \/ (ta = tb /\ h.sb < h.sa))
  BY <1>6, <1>7, <1>8 DEF Resolve
<1>10. WonWith(s, w)
  <2> DEFINE at(k) == CHOOSE i \in s : i.game = k
             For(i) == IF i.a = w THEN i.pa ELSE i.pb
             Against(i) == IF i.a = w THEN i.pb ELSE i.pa
  <2>1. \A k : (\E i \in s : i.game = k) => at(k) \in s
    OBVIOUS
  <2> HIDE DEF at
  <2>2. ta = (IF \E i \in s : i.game = 1 THEN at(1).pa ELSE 0)
             + (IF \E i \in s : i.game = 2 THEN at(2).pa ELSE 0)
    BY DEF SumOver, PointsA, at, ta
  <2>3. tb = (IF \E i \in s : i.game = 1 THEN at(1).pb ELSE 0)
             + (IF \E i \in s : i.game = 2 THEN at(2).pb ELSE 0)
    BY DEF SumOver, PointsB, at, tb
  <2>4. SumOver(s, For) = (IF \E i \in s : i.game = 1 THEN For(at(1)) ELSE 0)
             + (IF \E i \in s : i.game = 2 THEN For(at(2)) ELSE 0)
    BY DEF SumOver, at
  <2>5. SumOver(s, Against) = (IF \E i \in s : i.game = 1 THEN Against(at(1)) ELSE 0)
             + (IF \E i \in s : i.game = 2 THEN Against(at(2)) ELSE 0)
    BY DEF SumOver, at
  <2>6. CASE w = h.a
    <3>1. \A i \in s : /\ i.a = w /\ For(i) = i.pa /\ Against(i) = i.pb
      BY <1>3, <2>6
    <3>2. SumOver(s, For) = ta /\ SumOver(s, Against) = tb
      <4> HIDE DEF For, Against
      <4>. QED BY <2>1, <2>2, <2>3, <2>4, <2>5, <3>1
    <3>3. ta > tb \/ (ta = tb /\ h.sa < h.sb)
      BY <1>7, <1>9, <2>6
    <3>. QED BY <1>3, <1>5, <2>6, <3>1, <3>2, <3>3 DEF WonWith
  <2>7. CASE w = h.b
    <3>1. \A i \in s : /\ i.a # w /\ i.b = w /\ For(i) = i.pb /\ Against(i) = i.pa
      BY <1>3, <1>7, <2>7
    <3>2. SumOver(s, For) = tb /\ SumOver(s, Against) = ta
      <4> HIDE DEF For, Against
      <4>. QED BY <2>1, <2>2, <2>3, <2>4, <2>5, <3>1
    <3>3. tb > ta \/ (ta = tb /\ h.sb < h.sa)
      BY <1>7, <1>9, <2>7
    <3>. QED BY <1>3, <1>5, <2>7, <3>1, <3>2, <3>3 DEF WonWith
  <2>. QED BY <1>9, <2>6, <2>7
<1>11. WonIn(matchups, g.bt, g.round, w)
  BY <1>1, <1>10 DEF WonIn
<1>. QED BY <1>11 DEF w

\* What was won stays won while the final rows of the round stay as they are.
LEMMA WonStays ==
    ASSUME NEW G, NEW H, NEW bt, NEW n, NEW roster, WonIn(G, bt, n, roster),
           \A g \in G : g.bt = bt /\ g.round = n /\ g.final => g \in H,
           \A h \in H : h.bt = bt /\ h.round = n =>
               \E g \in G : /\ g.bt = bt /\ g.round = n /\ g.pos = h.pos
                            /\ g.final => g = h
    PROVE  WonIn(H, bt, n, roster)
<1>1. PICK pos \in {g.pos : g \in {h \in G : h.bt = bt /\ h.round = n}} :
        WonWith(Line(G, bt, n, pos), roster)
  BY DEF WonIn
<1>2. \A g \in Line(G, bt, n, pos) : g.final
  BY <1>1, Zenon DEF WonWith
<1>3. Line(H, bt, n, pos) = Line(G, bt, n, pos)
  BY <1>2 DEF Line
<1>4. PICK g \in G : g.bt = bt /\ g.round = n /\ g.pos = pos
  BY <1>1
<1>5. g \in H
  BY <1>2, <1>4 DEF Line
<1>. QED BY <1>1, <1>3, <1>4, <1>5 DEF WonIn

-----------------------------------------------------------------------------
(* Rounds that are over                                                    *)

LEMMA SameWeek ==
    ASSUME NEW G, Good(G), NEW g \in G, NEW h \in G
    PROVE  /\ g.week = h.week <=> g.round = h.round /\ g.game = h.game
           /\ g.round \in 1..3
<1>1. ASSUME NEW i \in G
      PROVE  /\ i.round \in 1..3 /\ i.game \in 1..2 /\ WeekStart(i.round) \in Int
             /\ i.week = WeekStart(i.round) + i.game - 1
             /\ i.week \in WeekStart(i.round)..WeekEnd(i.round) /\ i.week \in Int
  <2>1. RowOK(i)
    BY DEF Good
  <2>2. i.round \in 1..3 /\ WeekStart(i.round) \in Int /\ WeeksOf(i.round) \in {1, 2}
    BY <2>1, BracketConfig DEF RowOK
  <2>. QED BY <2>1, <2>2 DEF RowOK, WeekEnd
<1> DEFINE r == g.round
           s == h.round
           week == g.week
<1>2. g.week = h.week => r = s
  <2>1. r \in 1..3 /\ s \in 1..3 /\ week \in Int /\ week \in WeekStart(r)..WeekEnd(r)
    BY <1>1
  <2>2. g.week = h.week => week \in WeekStart(s)..WeekEnd(s)
    BY <1>1
  <2> HIDE DEF r, s, week
  <2>. QED BY <2>1, <2>2, WeekOfOneRound
<1>. QED BY <1>1, <1>2

\* A round of two weeks, in its second week, with all its games final.
Over(n, week) ==
    /\ WeeksOf(n) = 2 /\ week = WeekEnd(n)
    /\ \A g \in matchups : g.round = n => g.final

\* A completed series of a week of a round is one of its lines.
LEMMA CompletedOf ==
    ASSUME Good(matchups), NEW bt \in {"WINNERS", "CONSOLATION"}, NEW n, NEW week,
           InRound(bt, n, week), NEW s \in CompletedSeries(bt, week)
    PROVE  \E g \in matchups : /\ g.bt = bt /\ g.round = n /\ g.week = week /\ g.final
                               /\ HasSeries(g) /\ g.game = g.len
                               /\ s = SeriesOf(g) /\ IsComplete(s)
<1>1. PICK g \in matchups : /\ g.bt = bt /\ g.week = week /\ HasSeries(g) /\ g.final
                            /\ g.game = g.len /\ s = SeriesOf(g) /\ IsComplete(s)
  BY DEF CompletedSeries
<1>2. RowOK(g)
  BY DEF Good
<1>3. g.round \in 1..3 /\ n \in 1..3 /\ WeekStart(g.round) \in Int /\ WeekStart(n) \in Int
      /\ WeeksOf(g.round) \in {1, 2} /\ WeeksOf(n) \in {1, 2}
  BY <1>1, <1>2, BracketConfig DEF RowOK, InRound
<1>4. week \in WeekStart(g.round)..WeekEnd(g.round) /\ week \in Int
  BY <1>1, <1>2, <1>3 DEF RowOK, WeekEnd
<1>5. g.round = n
  BY <1>3, <1>4, WeekOfOneRound DEF InRound
<1>. QED BY <1>1, <1>5

\* The winner of a completed series has won it.
LEMMA CompletedWinnerWon ==
    ASSUME Good(matchups), Scored(matchups),
           NEW bt \in {"WINNERS", "CONSOLATION"}, NEW n, NEW week,
           InRound(bt, n, week), NEW s \in CompletedSeries(bt, week)
    PROVE  WonIn(matchups, bt, n, SeriesWinner(s))
<1>1. PICK g \in matchups : /\ g.bt = bt /\ g.round = n
                            /\ HasSeries(g) /\ s = SeriesOf(g) /\ IsComplete(s)
  BY CompletedOf
<1>. QED BY <1>1, WinnerWon

\* The series of a round count as complete when the round is over, and then
\* every position has one.
LEMMA RoundReady ==
    ASSUME Good(matchups), Scored(matchups), Whole(matchups), Uniform(matchups),
           NEW bt \in {"WINNERS", "CONSOLATION"}, NEW n, NEW week,
           InRound(bt, n, week), n < RoundsOf(bt)
    PROVE  /\ CompletedSeries(bt, week) # {} /\ AllSeriesComplete(bt, n) <=>
                  HasRound(matchups, bt, n) /\ Over(n, week)
           /\ HasRound(matchups, bt, n) /\ Over(n, week) =>
                  \A pos \in Positions(bt, n) :
                      \E s \in CompletedSeries(bt, week) : SomeGame(s).pos = pos
<1>1. n \in 1..2 /\ WeeksOf(n) \in {1, 2} /\ WeekStart(n) \in Int /\ 1 \in Positions(bt, n)
      /\ WeekEnd(n) = WeekStart(n) + WeeksOf(n) - 1
  BY BracketConfig DEF InRound, Positions, WeekEnd
<1>2. \A g \in matchups : /\ RowOK(g) /\ g.len = WeeksOf(g.round)
                          /\ g.final \in BOOLEAN /\ g.game \in 1..g.len
                          /\ g.week = WeekStart(g.round) + g.game - 1
  BY DEF Good, RowOK, Scored
<1>3. ASSUME NEW g \in matchups, g.bt = bt, g.round = n, HasSeries(g)
      PROVE  /\ g.len = 2 /\ WeeksOf(n) = 2
             /\ SeriesOf(g) # {}
             /\ \A h \in SeriesOf(g) : /\ h \in matchups /\ h.bt = bt /\ h.round = n
                                       /\ h.pos = g.pos /\ h.game \in 1..2 /\ h.len = 2
             /\ IsComplete(SeriesOf(g)) <=>
                    /\ \A h \in SeriesOf(g) : h.final
                    /\ \A k \in 1..2 : \E h \in SeriesOf(g) : h.game = k
             /\ \A h \in matchups : h.bt = bt /\ h.round = n /\ h.pos = g.pos => h \in SeriesOf(g)
             /\ SomeGame(SeriesOf(g)).pos = g.pos
  <2> DEFINE S == SeriesOf(g)
  <2>1. S = Line(matchups, bt, n, g.pos) /\ g.len = 2 /\ WeeksOf(n) = 2
    BY <1>3, SeriesIsLine
  <2>2. /\ \A h \in S : h \in matchups /\ h.game \in 1..2 /\ h.len = 2
        /\ \A h, i \in S : h.game = i.game => h = i
    BY <2>1, LineGames
  <2>3. g \in S
    BY <1>3, <2>1 DEF Line
  <2>4. SomeGame(S).pos = g.pos
    BY <1>3, SeriesTeams
  <2> HIDE DEF S
  <2>5. IsComplete(S) <=> /\ \A h \in S : h.final
                          /\ \A k \in 1..2 : \E h \in S : h.game = k
    BY <1>2, <2>2, <2>3, CompleteSeries
  <2>. QED BY <2>1, <2>2, <2>3, <2>4, <2>5 DEF Line, S
<1>4. ASSUME CompletedSeries(bt, week) # {}, AllSeriesComplete(bt, n)
      PROVE  HasRound(matchups, bt, n) /\ Over(n, week)
  <2>1. PICK s \in CompletedSeries(bt, week) : TRUE
    BY <1>4
  <2>2. PICK g \in matchups : /\ g.bt = bt /\ g.round = n /\ g.week = week
                              /\ HasSeries(g) /\ g.game = g.len
                              /\ s = SeriesOf(g) /\ IsComplete(s)
    BY CompletedOf
  <2>3. WeeksOf(n) = 2 /\ g.len = 2
    BY <1>3, <2>2
  <2>4. week = WeekEnd(n)
    BY <1>1, <1>2, <2>2, <2>3
  <2>5. /\ \A h \in s : h.final
        /\ \A k \in 1..2 : \E h \in s : h.game = k
        /\ \A h \in s : h \in matchups /\ h.round = n
    BY <1>3, <2>2
  <2>6. ASSUME NEW i \in matchups, i.round = n
        PROVE  i.final
    <3>1. i.game \in 1..2
      BY <1>2, <2>3, <2>6
    <3>2. PICK h \in s : h.game = i.game
      BY <2>5, <3>1
    <3>3. h \in matchups /\ h.round = n /\ h.final
      BY <2>5
    <3>4. h.week = i.week
      BY <2>6, <3>2, <3>3, SameWeek
    <3>. QED BY <1>2, <3>3, <3>4 DEF Uniform
  <2>. QED BY <2>2, <2>3, <2>4, <2>6 DEF Over, HasRound
<1>5. ASSUME HasRound(matchups, bt, n), Over(n, week)
      PROVE  /\ CompletedSeries(bt, week) # {} /\ AllSeriesComplete(bt, n)
             /\ \A pos \in Positions(bt, n) :
                    \E s \in CompletedSeries(bt, week) : SomeGame(s).pos = pos
  <2>1. WeeksOf(n) = 2 /\ week = WeekEnd(n) /\ \A g \in matchups : g.round = n => g.final
    BY <1>5 DEF Over
  <2>2. \A pos \in Positions(bt, n), k \in 1..2 :
            \E g \in matchups : g.bt = bt /\ g.round = n /\ g.pos = pos /\ g.game = k
    BY <1>1, <1>5, <2>1 DEF Whole
  <2>3. \A g \in matchups : g.round = n => HasSeries(g)
    BY <1>2, <2>1 DEF HasSeries
  <2>4. ASSUME NEW g \in matchups, g.bt = bt, g.round = n
        PROVE  IsComplete(SeriesOf(g))
    <3>1. HasSeries(g) /\ g.pos \in Positions(bt, n)
      BY <1>2, <2>3, <2>4 DEF RowOK
    <3>2. \A h \in SeriesOf(g) : h.final
      BY <1>3, <2>1, <2>4, <3>1
    <3>3. \A k \in 1..2 : \E h \in SeriesOf(g) : h.game = k
      <4>1. \A k \in 1..2 : \E h \in matchups : h.bt = bt /\ h.round = n /\ h.pos = g.pos /\ h.game = k
        BY <2>2, <3>1
      <4>2. \A h \in matchups : h.bt = bt /\ h.round = n /\ h.pos = g.pos => h \in SeriesOf(g)
        BY <1>3, <2>4, <3>1
      <4>. QED BY <4>1, <4>2
    <3>. QED BY <1>3, <2>4, <3>1, <3>2, <3>3
  <2>5. ASSUME NEW pos \in Positions(bt, n)
        PROVE  \E s \in CompletedSeries(bt, week) : SomeGame(s).pos = pos
    <3>1. PICK g \in matchups : g.bt = bt /\ g.round = n /\ g.pos = pos /\ g.game = 2
      BY <2>2
    <3>2. HasSeries(g) /\ g.len = 2 /\ g.final
      BY <1>3, <2>1, <2>3, <3>1
    <3>3. g.week = week
      BY <1>1, <1>2, <2>1, <3>1
    <3>4. SeriesOf(g) \in CompletedSeries(bt, week)
      BY <2>4, <3>1, <3>2, <3>3 DEF CompletedSeries
    <3>5. SomeGame(SeriesOf(g)).pos = pos
      BY <1>3, <3>1, <3>2
    <3>. QED BY <3>4, <3>5
  <2>6. CompletedSeries(bt, week) # {}
    BY <1>1, <2>5
  <2>7. AllSeriesComplete(bt, n)
    BY <1>5, <2>3, <2>4 DEF AllSeriesComplete, HasRound
  <2>. QED BY <2>5, <2>6, <2>7
<1>. QED BY <1>4, <1>5

-----------------------------------------------------------------------------
(* The next round                                                          *)

\* Positions of a round that is created whole: the last has its final.
Slots(bt, n) == IF n = RoundsOf(bt) THEN {1} ELSE Positions(bt, n)
FullRound(G, bt, n) ==
    \A pos \in Slots(bt, n), k \in 1..WeeksOf(n) :
        \E g \in G : g.bt = bt /\ g.round = n /\ g.pos = pos /\ g.game = k

\* A row that was just created by a request for bracket bid.
NewRow(g, bid, n) == g.bid = bid /\ g.round = n /\ g.final = FALSE /\ g.pa = 0 /\ g.pb = 0

LEMMA PairRowsAre ==
    ASSUME NEW bid, NEW bt, NEW n, NEW pos, NEW x, NEW y
    PROVE  /\ \A g \in PairRows(bid, bt, n, pos, x, y) :
                  /\ NewRow(g, bid, n) /\ g.bt = bt /\ g.pos = pos
                  /\ g.a = x.roster /\ g.b = y.roster
           /\ \A k \in 1..WeeksOf(n) : \E g \in PairRows(bid, bt, n, pos, x, y) : g.game = k
<1> DEFINE R == PairRows(bid, bt, n, pos, x, y)
           nth(k) == [bid |-> bid, bt |-> bt, round |-> n, pos |-> pos, game |-> k,
                      len |-> WeeksOf(n), week |-> WeekStart(n) + k - 1,
                      a |-> x.roster, sa |-> x.seed, b |-> y.roster, sb |-> y.seed,
                      final |-> FALSE, pa |-> 0, pb |-> 0]
<1>1. R = {nth(k) : k \in 1..WeeksOf(n)}
  BY DEF PairRows, SeriesRows
<1>2. \A k : /\ NewRow(nth(k), bid, n) /\ nth(k).bt = bt /\ nth(k).pos = pos
             /\ nth(k).a = x.roster /\ nth(k).b = y.roster /\ nth(k).game = k
  BY DEF NewRow
<1> HIDE DEF R, nth
<1>3. \A g \in R : \E k \in 1..WeeksOf(n) : g = nth(k)
  BY <1>1
<1>4. \A k \in 1..WeeksOf(n) : nth(k) \in R
  BY <1>1
<1>. QED
  <2>1. \A g \in R : /\ NewRow(g, bid, n) /\ g.bt = bt /\ g.pos = pos
                      /\ g.a = x.roster /\ g.b = y.roster
    BY <1>2, <1>3
  <2>2. \A k \in 1..WeeksOf(n) : \E g \in R : g.game = k
    BY <1>2, <1>4
  <2>. QED BY <2>1, <2>2 DEF R

\* Teams of the next round: winners of the last, or those with a bye.
Admitted(bt, n, C, t) == (\E w \in Winners(C) : t = w.roster) \/ HadBye(bt, n, t)

LEMMA NextRoundTeams ==
    ASSUME NEW bid, NEW bt, NEW n, NEW C, NEW g \in NextRoundRows(bid, bt, n, C)
    PROVE  /\ NewRow(g, bid, n) /\ g.bt = bt
           /\ Admitted(bt, n, C, g.a) /\ Admitted(bt, n, C, g.b)
<1> DEFINE W == Winners(C)
<1>1. CASE TeamsOf(bt) = 6 /\ n = 2 /\ {1, 2} \subseteq {w.pos : w \in W}
  <2> DEFINE At(p) == CHOOSE w \in W : w.pos = p
  <2>1. At(1) \in W /\ At(2) \in W
    <3>1. (\E w \in W : w.pos = 1) /\ (\E w \in W : w.pos = 2)
      BY <1>1
    <3>. QED BY <3>1
  <2>2. g \in PairRows(bid, bt, 2, 1, SeedRow(bt, 1), At(2))
              \union PairRows(bid, bt, 2, 2, SeedRow(bt, 2), At(1))
    BY <1>1 DEF NextRoundRows, ByeRows
  <2>3. HadBye(bt, n, SeedRow(bt, 1).roster) /\ HadBye(bt, n, SeedRow(bt, 2).roster)
    BY <1>1 DEF HadBye, ByeSeeds, SeedRow
  <2> HIDE DEF At
  <2>4. /\ NewRow(g, bid, 2) /\ g.bt = bt
        /\ \/ g.a = SeedRow(bt, 1).roster /\ g.b = At(2).roster
           \/ g.a = SeedRow(bt, 2).roster /\ g.b = At(1).roster
    BY <2>2, PairRowsAre
  <2>. QED BY <1>1, <2>1, <2>3, <2>4 DEF Admitted
<1>2. CASE ~(TeamsOf(bt) = 6 /\ n = 2 /\ {1, 2} \subseteq {w.pos : w \in W})
  <2>1. NextRoundRows(bid, bt, n, C) =
          UNION {PairRows(bid, bt, n, (Place(x[1], W) \div 2) + 1, x[1], x[2]) : x \in Pairs(W)}
    BY <1>2 DEF NextRoundRows
  <2>2. PICK x \in Pairs(W) :
            g \in PairRows(bid, bt, n, (Place(x[1], W) \div 2) + 1, x[1], x[2])
    BY <2>1
  <2>3. x[1] \in W /\ x[2] \in W
    BY DEF Pairs
  <2>4. NewRow(g, bid, n) /\ g.bt = bt /\ g.a = x[1].roster /\ g.b = x[2].roster
    BY <2>2, PairRowsAre
  <2>. QED BY <2>3, <2>4 DEF Admitted
<1>. QED BY <1>1, <1>2

\* As many teams as a bracket of two or of three rounds has.
LEMMA RoundsAndTeams ==
    ASSUME NEW bt \in {"WINNERS", "CONSOLATION"}, TeamsOf(bt) # 0
    PROVE  \/ TeamsOf(bt) = 4 /\ RoundsOf(bt) = 2
           \/ TeamsOf(bt) \in {6, 8} /\ RoundsOf(bt) = 3
BY BracketConfig, BracketAssumption DEF RoundsOf, TeamsOf, TotalRounds, CalculateTotalRounds

\* Winners of every position take their places in order.
LEMMA PlacesInOrder ==
    ASSUME NEW W, NEW m \in {2, 4}, {w.pos : w \in W} = 1..m, NEW w \in W
    PROVE  Place(w, W) = w.pos - 1
<1>1. w.pos \in 1..m
  OBVIOUS
<1>2. {v.pos : v \in W} \cap (1..(w.pos - 1)) = 1..(w.pos - 1)
  BY <1>1
<1>3. w.pos - 1 \in 0..3
  BY <1>1
<1>4. Cardinality(1..(w.pos - 1)) = w.pos - 1
  BY <1>3, FS_Interval
<1>. QED BY <1>2, <1>4 DEF Place

\* From a round with a winner at every position comes a full round.
LEMMA NextRoundFull ==
    ASSUME NEW bid, NEW bt \in {"WINNERS", "CONSOLATION"}, NEW n \in 1..(RoundsOf(bt) - 1),
           TeamsOf(bt) # 0, NEW C, Contests(bt, n, C),
           \A pos \in Positions(bt, n) : \E s \in C : SomeGame(s).pos = pos
    PROVE  FullRound(NextRoundRows(bid, bt, n + 1, C), bt, n + 1)
<1> DEFINE W == Winners(C)
           rows == NextRoundRows(bid, bt, n + 1, C)
<1>1. \/ TeamsOf(bt) = 4 /\ RoundsOf(bt) = 2
      \/ TeamsOf(bt) \in {6, 8} /\ RoundsOf(bt) = 3
  BY RoundsAndTeams
<1>2. n \in 1..2
  BY <1>1
<1>3. {w.pos : w \in W} = Positions(bt, n)
  <2>1. \A w \in W : w.pos \in Positions(bt, n)
    BY WinnersAndLosers
  <2>2. W = {Won(s) : s \in C} /\ \A s : Won(s).pos = SomeGame(s).pos
    BY DEF Winners, Won
  <2> HIDE DEF W
  <2>. QED BY <2>1, <2>2
<1>4. CASE TeamsOf(bt) = 6 /\ n + 1 = 2
  <2> DEFINE At(p) == CHOOSE w \in W : w.pos = p
  <2>1. {1, 2} \subseteq {w.pos : w \in W}
    BY <1>3, <1>4 DEF Positions
  <2>2. rows = PairRows(bid, bt, 2, 1, SeedRow(bt, 1), At(2))
               \union PairRows(bid, bt, 2, 2, SeedRow(bt, 2), At(1))
    BY <1>4, <2>1 DEF NextRoundRows, ByeRows
  <2>3. Slots(bt, n + 1) = 1..2
    BY <1>1, <1>4 DEF Slots, Positions
  <2> HIDE DEF rows, At
  <2>4. ASSUME NEW pos \in 1..2, NEW k \in 1..WeeksOf(2)
        PROVE  \E g \in rows : g.bt = bt /\ g.round = 2 /\ g.pos = pos /\ g.game = k
    <3>1. CASE pos = 1
      <4>1. PICK g \in PairRows(bid, bt, 2, 1, SeedRow(bt, 1), At(2)) : g.game = k
        BY PairRowsAre
      <4>2. NewRow(g, bid, 2) /\ g.bt = bt /\ g.pos = 1
        BY <4>1, PairRowsAre
      <4>3. g.round = 2
        BY <4>2 DEF NewRow
      <4>. QED BY <2>2, <3>1, <4>1, <4>2, <4>3
    <3>2. CASE pos = 2
      <4>1. PICK g \in PairRows(bid, bt, 2, 2, SeedRow(bt, 2), At(1)) : g.game = k
        BY PairRowsAre
      <4>2. NewRow(g, bid, 2) /\ g.bt = bt /\ g.pos = 2
        BY <4>1, PairRowsAre
      <4>3. g.round = 2
        BY <4>2 DEF NewRow
      <4>. QED BY <2>2, <3>2, <4>1, <4>2, <4>3
    <3>. QED BY <3>1, <3>2
  <2>5. FullRound(rows, bt, n + 1)
    BY <1>4, <2>3, <2>4 DEF FullRound
  <2>. QED BY <2>5 DEF rows
<1>5. CASE ~(TeamsOf(bt) = 6 /\ n + 1 = 2)
  <2>1. rows = UNION {PairRows(bid, bt, n + 1, (Place(x[1], W) \div 2) + 1, x[1], x[2])
                        : x \in Pairs(W)}
    BY <1>5 DEF NextRoundRows
  <2> DEFINE m == IF TeamsOf(bt) = 8 /\ n = 1 THEN 4 ELSE 2
  <2>2. Positions(bt, n) = 1..m /\ m \in {2, 4}
    BY DEF Positions
  <2>3. \A pos \in Slots(bt, n + 1) : pos \in 1..2 /\ 2 * pos \in 1..m
    BY <1>1, <1>2, <1>5 DEF Slots, Positions
  <2>9. \A i \in 1..m : \E w \in W : w.pos = i
    <3>1. {w.pos : w \in W} = 1..m
      BY <1>3, <2>2
    <3> HIDE DEF W, m
    <3>. QED BY <3>1
  <2> HIDE DEF W, rows, m
  <2>4. \A w \in W : Place(w, W) = w.pos - 1 /\ w.pos \in 1..m
    BY <1>3, <2>2, PlacesInOrder
  <2>5. ASSUME NEW pos \in Slots(bt, n + 1), NEW k \in 1..WeeksOf(n + 1)
        PROVE  \E g \in rows : g.bt = bt /\ g.round = n + 1 /\ g.pos = pos /\ g.game = k
    <3>0. pos \in 1..2 /\ 2 * pos \in 1..m
      BY <2>3
    <3>1. pos \in 1..2 /\ 2 * pos \in 1..m /\ 2 * pos - 1 \in 1..m
      BY <2>2, <3>0
    <3>2. PICK v \in W : v.pos = 2 * pos - 1
      BY <2>9, <3>1
    <3>3. PICK w \in W : w.pos = 2 * pos
      BY <2>9, <3>1
    <3>4. Place(v, W) = 2 * pos - 2 /\ Place(w, W) = 2 * pos - 1
      BY <2>4, <3>1, <3>2, <3>3
    <3>5. (2 * pos - 2) % 2 = 0 /\ ((2 * pos - 2) \div 2) + 1 = pos
      BY <3>1
    <3>6. <<v, w>> \in Pairs(W)
      <4>1. Place(v, W) % 2 = 0 /\ Place(w, W) = Place(v, W) + 1
        BY <3>1, <3>4, <3>5
      <4>. QED BY <4>1 DEF Pairs
    <3>7. PICK g \in PairRows(bid, bt, n + 1, pos, v, w) : g.game = k
      BY PairRowsAre
    <3>8. g.bt = bt /\ g.round = n + 1 /\ g.pos = pos
      <4>1. NewRow(g, bid, n + 1) /\ g.bt = bt /\ g.pos = pos
        BY <3>7, PairRowsAre
      <4>. QED BY <4>1 DEF NewRow
    <3>9. g \in rows
      <4>1. (Place(v, W) \div 2) + 1 = pos
        BY <3>4, <3>5
      <4>. QED BY <2>1, <3>6, <3>7, <4>1
    <3>. QED BY <3>7, <3>8, <3>9
  <2>6. FullRound(rows, bt, n + 1)
    BY <2>5 DEF FullRound
  <2>. QED BY <2>6 DEF rows
<1>. QED BY <1>4, <1>5

\* A game for the third place of the round.
LEMMA ThirdPlaceRowsAre ==
    ASSUME NEW bid, NEW C, NEW g \in ThirdPlaceRows(bid, C)
    PROVE  NewRow(g, bid, TotalRounds) /\ g.bt = "THIRD_PLACE"
<1>1. PICK x : g \in PairRows(bid, "THIRD_PLACE", TotalRounds, 2, x[1], x[2])
  BY DEF ThirdPlaceRows
<1>. QED BY <1>1, PairRowsAre

-----------------------------------------------------------------------------
(* What an advancement creates                                             *)

\* Of a bracket: whether round n is over and its next round is still to come.
Due(bt, n, week) ==
    /\ n # 0 /\ n < RoundsOf(bt) /\ HasRound(matchups, bt, n) /\ Over(n, week)
    /\ ~HasRound(matchups, bt, n + 1)

\* The rows for a bracket whose next round is due, and none otherwise.
CreatedOK(bid, bt, n, week, rows) ==
    /\ rows # {} => Due(bt, n, week)
    /\ Due(bt, n, week) => FullRound(rows, bt, n + 1)
    /\ \A g \in rows : NewRow(g, bid, n + 1) /\ g.bt \in {bt, "THIRD_PLACE"}
    /\ \A g \in rows : g.bt = bt =>
          \A t \in {g.a, g.b} : WonIn(matchups, bt, n, t) \/ HadBye(bt, n + 1, t)

LEMMA CreatedRows ==
    ASSUME PInv, Whole(matchups), Uniform(matchups), Scored(matchups),
           NEW bid, NEW bt \in {"WINNERS", "CONSOLATION"}, NEW n, NEW week,
           n = 0 \/ InRound(bt, n, week)
    PROVE  CreatedOK(bid, bt, n, week, CreatedBy(bid, bt, n, week))
<1> DEFINE C == CompletedSeries(bt, week)
           third == bt = "WINNERS" /\ n = TotalRounds - 1 /\ EnableThirdPlace
           T == IF third THEN ThirdPlaceRows(bid, C) ELSE {}
           N == IF RoundExists(bt, n + 1) THEN {} ELSE NextRoundRows(bid, bt, n + 1, C)
           rows == CreatedBy(bid, bt, n, week)
<1>0. /\ Good(matchups) /\ ThirdWithFinal(matchups)
      /\ \A b, r : RoundExists(b, r) <=> HasRound(matchups, b, r)
      /\ bt # "THIRD_PLACE"
  BY DEF PInv, RoundExists, HasRound, GamesOfType
<1>1. CASE n = 0 \/ n = RoundsOf(bt) \/ C = {} \/ ~AllSeriesComplete(bt, n)
  <2>1. rows = {}
    BY <1>1 DEF CreatedBy
  <2>2. ~Due(bt, n, week)
    <3>1. CASE n = 0 \/ n = RoundsOf(bt)
      BY <3>1, BracketConfig DEF Due
    <3>2. CASE ~(n = 0 \/ n = RoundsOf(bt))
      <4>1. InRound(bt, n, week) /\ n < RoundsOf(bt)
        BY <3>2, BracketConfig DEF InRound
      <4>. QED BY <1>0, <1>1, <3>2, <4>1, RoundReady DEF Due
    <3>. QED BY <3>1, <3>2
  <2> HIDE DEF rows
  <2>3. CreatedOK(bid, bt, n, week, rows)
    BY <2>1, <2>2 DEF CreatedOK
  <2>. QED BY <2>3 DEF rows
<1>2. CASE ~(n = 0 \/ n = RoundsOf(bt) \/ C = {} \/ ~AllSeriesComplete(bt, n))
  <2>1. rows = T \union N
    BY <1>2 DEF CreatedBy
  <2>2. InRound(bt, n, week) /\ n \in 1..(RoundsOf(bt) - 1) /\ n # 0 /\ n < RoundsOf(bt)
        /\ RoundsOf(bt) \in {2, 3}
    BY <1>2, BracketConfig DEF InRound
  <2>3. Contests(bt, n, C)
    BY <1>0, <2>2, CompletedAreContests
  <2>4. /\ HasRound(matchups, bt, n) /\ Over(n, week)
        /\ \A pos \in Positions(bt, n) : \E s \in C : SomeGame(s).pos = pos
    BY <1>0, <1>2, <2>2, RoundReady
  <2>5. TeamsOf(bt) # 0
    <3>1. PICK g \in matchups : g.bt = bt /\ g.round = n
      BY <2>4 DEF HasRound
    <3>2. g.sa \in 1..TeamsOf(bt)
      BY <1>0, <3>1, SeedsArePlaces DEF Good, RowOK
    <3>. QED BY <3>2
  <2>6. \A w \in Winners(C) : WonIn(matchups, bt, n, w.roster)
    <3>1. \A s \in C : WonIn(matchups, bt, n, SeriesWinner(s))
      BY <1>0, <2>2, CompletedWinnerWon
    <3> HIDE DEF C
    <3>2. ASSUME NEW w \in Winners(C)
          PROVE  \E s \in C : w.roster = SeriesWinner(s)
      BY DEF Winners
    <3>. QED BY <3>1, <3>2
  <2>7. FullRound(NextRoundRows(bid, bt, n + 1, C), bt, n + 1)
    <3> HIDE DEF C
    <3>. QED BY <2>2, <2>3, <2>4, <2>5, NextRoundFull
  <2>8. \A g \in N : NewRow(g, bid, n + 1) /\ g.bt = bt
                     /\ \A t \in {g.a, g.b} : WonIn(matchups, bt, n, t) \/ HadBye(bt, n + 1, t)
    <3> HIDE DEF C
    <3>1. ASSUME NEW g \in N
          PROVE  g \in NextRoundRows(bid, bt, n + 1, C)
      OBVIOUS
    <3> HIDE DEF N
    <3>. QED BY <2>6, <3>1, NextRoundTeams DEF Admitted
  <2>9. \A g \in T : NewRow(g, bid, n + 1) /\ g.bt = "THIRD_PLACE"
    <3> HIDE DEF C
    <3>1. ASSUME NEW g \in T
          PROVE  g \in ThirdPlaceRows(bid, C) /\ n + 1 = TotalRounds
      <4>1. third
        OBVIOUS
      <4>. QED BY <4>1, BracketConfig
    <3> HIDE DEF T
    <3>. QED BY <3>1, ThirdPlaceRowsAre
  <2>10. T # {} => ~HasRound(matchups, bt, n + 1)
    <3>1. T # {} => third /\ ~HasRound(matchups, "THIRD_PLACE", TotalRounds)
      BY <1>0 DEF ThirdPlaceRows
    <3>2. third => n + 1 = TotalRounds /\ bt = "WINNERS" /\ EnableThirdPlace
      BY BracketConfig
    <3> HIDE DEF T, third
    <3>. QED BY <1>0, <3>1, <3>2 DEF ThirdWithFinal
  <2>11. N # {} => ~HasRound(matchups, bt, n + 1)
    BY <1>0
  <2>12. ~HasRound(matchups, bt, n + 1) => N = NextRoundRows(bid, bt, n + 1, C)
    BY <1>0
  <2> HIDE DEF T, N, C, third, rows
  <2>13. rows # {} => Due(bt, n, week)
    BY <2>1, <2>2, <2>4, <2>10, <2>11 DEF Due
  <2>14. Due(bt, n, week) => FullRound(rows, bt, n + 1)
    BY <2>1, <2>7, <2>12 DEF Due, FullRound
  <2>15. CreatedOK(bid, bt, n, week, rows)
    BY <1>0, <2>1, <2>8, <2>9, <2>13, <2>14 DEF CreatedOK
  <2>. QED BY <2>15 DEF rows
<1>. QED BY <1>1, <1>2

-----------------------------------------------------------------------------
(* The steps of a bracket that is finalised one week at a time             *)

LEMMA WInvInit == BracketInit => WInv
<1> SUFFICES ASSUME BracketInit PROVE WInv
  OBVIOUS
<1>1. matchups = {} /\ bracket = Null /\ \A op : Pending(op) = {}
  BY DEF BracketInit, Pending
<1>. QED
  BY <1>1 DEF WInv, Whole, Together, Uniform, Scored, Numbered, Finalizers, Earned, TitleWon,
              HasRound

\* Who is pending after one request was carried out.
LEMMA PendingAfter ==
    ASSUME PInv, NEW p \in Requests, req' = [req EXCEPT ![p] = Null]
    PROVE  \A op : \A q \in Pending(op)' : q # p /\ q \in Pending(op) /\ req'[q] = req[q]
BY DEF PInv, Pending

\* A request that reads, and what it has read.
LEMMA ReadStep ==
    ASSUME PInv, WInv, NEW p \in Requests, NEW r, req' = [req EXCEPT ![p] = r],
           UNCHANGED <<bracket, matchups, made>>,
           r.op = "advance" => r.id \in 1..made /\ ReadsBoth(r),
           r.op = "finalize" => /\ Pending("finalize") = {} /\ AsRead(matchups, r)
                                /\ \A i \in r.ids : i[1] \in 1..made
    PROVE  WInv'
<1>1. bracket' = bracket /\ matchups' = matchups /\ made' = made
  OBVIOUS
<1>2. /\ Whole(matchups) /\ Together(matchups) /\ Uniform(matchups) /\ Scored(matchups)
      /\ Numbered /\ Finalizers
      /\ \A q \in Pending("advance") : ReadsBoth(req[q])
      /\ Earned(matchups) /\ TitleWon(bracket, matchups)
  BY DEF WInv
<1>0. ASSUME NEW op, NEW q \in Pending(op)'
      PROVE  \/ q = p /\ r # Null /\ r.op = op /\ req'[q] = r
             \/ q # p /\ q \in Pending(op) /\ req'[q] = req[q]
  <2>1. q \in Requests /\ req'[q] # Null /\ req'[q].op = op
    BY DEF Pending
  <2>2. req'[p] = r /\ (q # p => req'[q] = req[q])
    BY <2>1 DEF PInv
  <2>. QED BY <2>1, <2>2 DEF Pending
<1>3. ASSUME NEW q \in Pending("advance")'
      PROVE  ReadsBoth(req'[q]) /\ req'[q].id \in 1..made
  <2>1. \/ q = p /\ r.op = "advance" /\ req'[q] = r
        \/ q \in Pending("advance") /\ req'[q] = req[q]
    BY <1>0
  <2>. QED BY <1>2, <2>1 DEF Numbered
<1>4. ASSUME NEW q \in Pending("finalize")'
      PROVE  /\ \A i \in req'[q].ids : i[1] \in 1..made
             /\ AsRead(matchups, req'[q]) \/ Fresh(matchups, req'[q])
  <2>1. \/ q = p /\ r.op = "finalize" /\ req'[q] = r
        \/ q \in Pending("finalize") /\ req'[q] = req[q]
    BY <1>0
  <2>. QED BY <1>2, <2>1 DEF Numbered, Finalizers
<1>5. \A q1, q2 \in Pending("finalize")' : q1 = q2
  BY <1>0, <1>2 DEF Finalizers
<1>6. Numbered'
  BY <1>1, <1>2, <1>3, <1>4 DEF Numbered
<1>7. Finalizers'
  BY <1>1, <1>4, <1>5 DEF Finalizers
<1>. QED BY <1>1, <1>2, <1>3, <1>6, <1>7 DEF WInv

\* A finalisation that starts alone reads a week none of whose games is final.
LEMMA FinalizeStartWins ==
    ASSUME MaxFinalizers = 1, PInv, WInv, NEW p \in Requests, NEW week, FinalizeStart(p, week)
    PROVE  WInv'
<1> DEFINE rows == {g \in matchups : g.week = week}
           r == [op |-> "finalize", week |-> week, ids |-> {<<g.bid, SlotOf(g)>> : g \in rows}]
           others == {q \in Requests : req[q] # Null /\ req[q].op = "finalize"}
<1>1. /\ rows # {} /\ (\E g \in rows : ~g.final) /\ Cardinality(others) < MaxFinalizers
      /\ req' = [req EXCEPT ![p] = r] /\ UNCHANGED <<bracket, matchups, made>>
  BY DEF FinalizeStart
<1>2. Pending("finalize") = {}
  <2>1. IsFiniteSet(others)
    BY BracketAssumption, FS_Subset
  <2>2. Cardinality(others) = 0
    <3> HIDE DEF others
    <3>. QED BY <1>1, <2>1, MaxFinalizers = 1, FS_CardinalityType
  <2>3. others = {}
    BY <2>1, <2>2, FS_EmptySet
  <2>. QED BY <2>3 DEF Pending
<1>3. AsRead(matchups, r)
  <2>1. r.ids = {IdOf(g) : g \in {h \in matchups : h.week = r.week}}
    BY DEF IdOf
  <2>2. \E g \in matchups : g.week = r.week
    BY <1>1
  <2>3. \A g \in matchups : g.week = r.week => ~g.final
    BY <1>1 DEF WInv, Uniform
  <2> HIDE DEF r
  <2>. QED BY <2>1, <2>2, <2>3 DEF AsRead
<1>4. \A i \in r.ids : i[1] \in 1..made
  BY DEF WInv, Numbered
<1>5. r.op = "finalize"
  OBVIOUS
<1> HIDE DEF r
<1>. QED BY <1>1, <1>2, <1>3, <1>4, <1>5, ReadStep

\* The round an advancement reads is one with final games in that week.
LEMMA FinalRoundIs ==
    ASSUME Good(matchups), NEW bt \in {"WINNERS", "CONSOLATION"}, NEW week, NEW n \in 1..3
    PROVE  FinalRound(bt, week) = n <=>
              \E g \in matchups : g.bt = bt /\ g.week = week /\ g.final /\ g.round = n
<1> DEFINE rows == {g \in matchups : g.bt = bt /\ g.week = week /\ g.final}
           h == SomeGame(rows)
<1>1. rows # {} => h \in rows /\ FinalRound(bt, week) = h.round
  BY DEF SomeGame, FinalRound
<1>2. rows = {} => FinalRound(bt, week) = 0
  BY DEF FinalRound
<1>3. \A g, i \in rows : g.round = i.round
  BY SameWeek
<1> HIDE DEF h
<1>. QED BY <1>1, <1>2, <1>3

LEMMA AdvanceStartWins ==
    ASSUME PInv, WInv, NEW p \in Requests, NEW week, AdvanceStart(p, week)
    PROVE  WInv'
<1> DEFINE third == {g \in matchups : IsThirdPlaceGame(g) /\ g.week = week /\ g.final}
           r == [op |-> "advance", week |-> week, id |-> bracket.id,
                 pending |-> bracket.status = "pending",
                 winners |-> FinalRound("WINNERS", week),
                 consolation |-> FinalRound("CONSOLATION", week),
                 third |-> IF third = {} \/ ~EnableThirdPlace THEN Null
                           ELSE GameWinner(SomeGame(third))]
<1>1. req' = [req EXCEPT ![p] = r] /\ bracket # Null /\ UNCHANGED <<bracket, matchups, made>>
  BY Zenon DEF AdvanceStart
<1>2. r.id \in 1..made /\ r.op = "advance"
  BY <1>1 DEF WInv, Numbered
<1>3. ASSUME NEW bt \in {"WINNERS", "CONSOLATION"}, NEW bu \in {"WINNERS", "CONSOLATION"},
             NEW n \in 1..2, n < RoundsOf(bu), ConsolationTeams # 0,
             n <= RoundsOf("CONSOLATION"), n <= TotalRounds,
             FinalRound(bt, week) = n
      PROVE  FinalRound(bu, week) = n
  <2>1. PICK g \in matchups : g.bt = bt /\ g.week = week /\ g.final /\ g.round = n
    BY <1>3, FinalRoundIs DEF PInv
  <2>2. HasRound(matchups, bu, n)
    <3>1. HasRound(matchups, bt, n)
      BY <2>1 DEF HasRound
    <3>2. HasRound(matchups, "WINNERS", n) <=> HasRound(matchups, "CONSOLATION", n)
      BY <1>3 DEF WInv, Together
    <3>. QED BY <3>1, <3>2
  <2>3. g.game \in 1..WeeksOf(n) /\ 1 \in Positions(bu, n)
    BY <2>1 DEF PInv, Good, RowOK, Positions
  <2>4. PICK h \in matchups : h.bt = bu /\ h.round = n /\ h.pos = 1 /\ h.game = g.game
    BY <1>3, <2>2, <2>3 DEF WInv, Whole
  <2>5. h.week = week
    BY <2>1, <2>4, SameWeek DEF PInv
  <2>6. h.final
    BY <2>1, <2>4, <2>5 DEF WInv, Uniform
  <2>. QED BY <2>4, <2>5, <2>6, FinalRoundIs DEF PInv
<1>4. ReadsBoth(r)
  <2>1. r.winners = FinalRound("WINNERS", week) /\ r.consolation = FinalRound("CONSOLATION", week)
    OBVIOUS
  <2> HIDE DEF r
  <2>2. RoundsOf("WINNERS") = TotalRounds /\ TotalRounds \in Int /\ RoundsOf("CONSOLATION") \in Int
    BY BracketConfig
  <2>. QED BY <1>3, <2>1, <2>2 DEF ReadsBoth
<1> HIDE DEF r
<1>. QED BY <1>1, <1>2, <1>4, ReadStep

\* Deleting leaves a finalisation that is under way with nothing to do.
LEMMA DeleteWins ==
    ASSUME PInv, WInv, NEW p \in Requests, DeleteCommit(p)
    PROVE  WInv'
<1>1. /\ matchups' = {} /\ made' = made /\ (bracket' = bracket \/ bracket' = Null)
      /\ req' = [req EXCEPT ![p] = Null]
  BY DEF DeleteCommit
<1>2. \A op : \A q \in Pending(op)' : q \in Pending(op) /\ req'[q] = req[q]
  BY <1>1, PendingAfter
<1>3. Numbered'
  BY <1>1, <1>2 DEF WInv, Numbered
<1>4. Finalizers'
  BY <1>1, <1>2 DEF WInv, Finalizers, Fresh
<1>. QED
  BY <1>1, <1>2, <1>3, <1>4
     DEF WInv, Whole, Together, Uniform, Scored, Earned, TitleWon, HasRound

\* The first round of both brackets, in full.
LEMMA FirstRoundFull ==
    ASSUME NEW bid, NEW bt \in {"WINNERS", "CONSOLATION"}, TeamsOf(bt) # 0
    PROVE  /\ FullRound(FirstRoundRows(bid, bt), bt, 1)
           /\ \A g \in FirstRoundRows(bid, bt) : NewRow(g, bid, 1) /\ g.bt = bt
<1> DEFINE Z == FirstRound(TeamsOf(bt))
           rows == FirstRoundRows(bid, bt)
           ofPair(x) == PairRows(bid, bt, 1, x[1], SeedRow(bt, x[2]), SeedRow(bt, x[3]))
<1>1. rows = UNION {ofPair(x) : x \in Z}
  BY DEF FirstRoundRows
<1>2. \A pos \in Slots(bt, 1) : \E x \in Z : x[1] = pos
  <2>0. TeamsOf(bt) \in {4, 6, 8} /\ RoundsOf(bt) # 1
    BY BracketConfig
  <2>1. CASE TeamsOf(bt) = 4
    <3>1. Z = {<<1, 1, 4>>, <<2, 2, 3>>} /\ Slots(bt, 1) = 1..2
      BY <2>0, <2>1 DEF FirstRound, Slots, Positions
    <3> HIDE DEF Z
    <3>. QED BY <3>1
  <2>2. CASE TeamsOf(bt) = 6
    <3>1. Z = {<<1, 3, 6>>, <<2, 4, 5>>} /\ Slots(bt, 1) = 1..2
      BY <2>0, <2>2 DEF FirstRound, Slots, Positions
    <3> HIDE DEF Z
    <3>. QED BY <3>1
  <2>3. CASE TeamsOf(bt) = 8
    <3>1. /\ Z = {<<1, 1, 8>>, <<2, 4, 5>>, <<3, 3, 6>>, <<4, 2, 7>>}
          /\ Slots(bt, 1) = 1..4
      BY <2>0, <2>3 DEF FirstRound, Slots, Positions
    <3> HIDE DEF Z
    <3>. QED BY <3>1
  <2>. QED BY <2>0, <2>1, <2>2, <2>3
<1>3. \A x : /\ \A g \in ofPair(x) : NewRow(g, bid, 1) /\ g.bt = bt /\ g.pos = x[1]
             /\ \A k \in 1..WeeksOf(1) : \E g \in ofPair(x) : g.game = k
  BY PairRowsAre
<1> HIDE DEF Z, rows, ofPair
<1>4. FullRound(rows, bt, 1)
  <2>1. ASSUME NEW pos \in Slots(bt, 1), NEW k \in 1..WeeksOf(1)
        PROVE  \E g \in rows : g.bt = bt /\ g.round = 1 /\ g.pos = pos /\ g.game = k
    <3>1. PICK x \in Z : x[1] = pos
      BY <1>2
    <3>2. PICK g \in ofPair(x) : g.game = k
      BY <1>3
    <3>3. g \in rows
      BY <1>1
    <3>4. NewRow(g, bid, 1) /\ g.bt = bt /\ g.pos = pos
      BY <1>3, <3>1, <3>2
    <3>. QED BY <3>2, <3>3, <3>4 DEF NewRow
  <2>. QED BY <2>1 DEF FullRound
<1>5. \A g \in rows : NewRow(g, bid, 1) /\ g.bt = bt
  BY <1>1, <1>3
<1>. QED BY <1>4, <1>5 DEF rows

LEMMA GenerateWins ==
    ASSUME PInv, WInv, NEW p \in Requests, GenerateCommit(p)
    PROVE  WInv'
<1>1. req' = [req EXCEPT ![p] = Null]
  BY DEF GenerateCommit
<1>2. \A op : \A q \in Pending(op)' : q \in Pending(op) /\ req'[q] = req[q]
  BY <1>1, PendingAfter
<1>3. CASE UNCHANGED <<bracket, matchups, made>>
  <2>1. Numbered' /\ Finalizers'
    BY <1>2, <1>3 DEF WInv, Numbered, Finalizers
  <2>. QED BY <1>2, <1>3, <2>1 DEF WInv
<1>4. CASE ~UNCHANGED <<bracket, matchups, made>>
  <2> DEFINE A == FirstRoundRows(made', "WINNERS")
             B == IF ConsolationTeams = 0 THEN {} ELSE FirstRoundRows(made', "CONSOLATION")
  <2>1. /\ bracket = Null /\ made' = made + 1 /\ bracket' = NewBracket(made')
        /\ matchups' = WithRows(WithRows(matchups, A), B)
    BY <1>4 DEF GenerateCommit
  <2>2. matchups = {} /\ made \in Nat
    BY <2>1, BracketAssumption DEF PInv, GamesHaveBracket
  <2>3. FullRound(A, "WINNERS", 1) /\ \A g \in A : NewRow(g, made', 1) /\ g.bt = "WINNERS"
    <3>1. TeamsOf("WINNERS") # 0
      BY BracketAssumption, BracketConfig
    <3>. QED BY <3>1, FirstRoundFull
  <2>4. /\ ConsolationTeams # 0 => FullRound(B, "CONSOLATION", 1)
        /\ \A g \in B : NewRow(g, made', 1) /\ g.bt = "CONSOLATION" /\ ConsolationTeams # 0
    <3>1. CASE ConsolationTeams = 0
      BY <3>1
    <3>2. CASE ConsolationTeams # 0
      <4>1. TeamsOf("CONSOLATION") # 0 /\ B = FirstRoundRows(made', "CONSOLATION")
        BY <3>2, BracketConfig
      <4> HIDE DEF B
      <4>. QED BY <3>2, <4>1, FirstRoundFull
    <3>. QED BY <3>1, <3>2
  <2> HIDE DEF A, B
  <2>5. matchups' = A \union B
    <3>1. WithRows(matchups, A) = A
      BY <2>2 DEF WithRows
    <3>2. \A g \in B, h \in A : SlotOf(h) # SlotOf(g)
      BY <2>3, <2>4 DEF SlotOf
    <3>3. WithRows(A, B) = A \union B
      BY <3>2 DEF WithRows
    <3>. QED BY <2>1, <3>1, <3>3
  <2>6. \A g \in matchups' : NewRow(g, made', 1)
    BY <2>3, <2>4, <2>5
  <2>7. Uniform(matchups') /\ Scored(matchups') /\ Earned(matchups')
    <3>1. \A g \in matchups' : g.final = FALSE /\ g.round = 1 /\ g.pa = 0 /\ g.pb = 0
      BY <2>6 DEF NewRow
    <3>2. Uniform(matchups')
      BY <3>1, Zenon DEF Uniform
    <3>4. Scored(matchups')
      <4>1. \A g \in matchups' : g.final \in BOOLEAN
        BY <3>1
      <4>2. \A g \in matchups' : g.pa \in Int /\ g.pb \in Int
        BY <3>1
      <4>. QED BY <4>1, <4>2, Zenon DEF Scored
    <3>3. Earned(matchups')
      BY <3>1 DEF Earned
    <3>. QED BY <3>2, <3>3, <3>4
  <2>8. Whole(matchups')
    <3> SUFFICES ASSUME NEW bt \in {"WINNERS", "CONSOLATION"}, NEW n \in 1..2,
                        n < RoundsOf(bt), HasRound(matchups', bt, n),
                        NEW pos \in Positions(bt, n), NEW k \in 1..WeeksOf(n)
                 PROVE  \E g \in matchups' :
                            g.bt = bt /\ g.round = n /\ g.pos = pos /\ g.game = k
      BY DEF Whole
    <3>1. n = 1
      BY <2>6 DEF HasRound, NewRow
    <3>2. pos \in Slots(bt, 1)
      BY <3>1, BracketConfig DEF Slots
    <3>3. bt = "CONSOLATION" => ConsolationTeams # 0
      BY <2>3, <2>4, <2>5 DEF HasRound
    <3>. QED BY <2>3, <2>4, <2>5, <3>1, <3>2, <3>3 DEF FullRound
  <2>9. Together(matchups')
    <3> SUFFICES ASSUME NEW n \in 1..3, ConsolationTeams # 0
                 PROVE  HasRound(matchups', "WINNERS", n) <=> HasRound(matchups', "CONSOLATION", n)
      BY DEF Together
    <3>1. n # 1 => ~HasRound(matchups', "WINNERS", n) /\ ~HasRound(matchups', "CONSOLATION", n)
      BY <2>6 DEF HasRound, NewRow
    <3>2. \A bt : 1 \in Slots(bt, 1) /\ 1 \in 1..WeeksOf(1)
      BY BracketConfig DEF Slots, Positions
    <3>3. HasRound(matchups', "WINNERS", 1) /\ HasRound(matchups', "CONSOLATION", 1)
      BY <2>3, <2>4, <2>5, <3>2 DEF FullRound, HasRound
    <3>. QED BY <3>1, <3>3
  <2>10. TitleWon(bracket', matchups')
    BY <2>1 DEF TitleWon, NewBracket
  <2>11. made' \in 1..made' /\ 1..made \subseteq 1..made' /\ made' \notin 1..made
    BY <2>1, <2>2
  <2>12. Numbered'
    <3>1. bracket' # Null => bracket'.id \in 1..made'
      BY <2>1, <2>11 DEF NewBracket
    <3>2. \A g \in matchups' : g.bid \in 1..made'
      BY <2>6, <2>11 DEF NewRow
    <3>. QED BY <1>2, <2>11, <3>1, <3>2 DEF WInv, Numbered
  <2>13. ASSUME NEW q \in Pending("finalize")'
         PROVE  Fresh(matchups', req'[q])
    <3>1. q \in Pending("finalize") /\ req'[q] = req[q]
      BY <1>2
    <3>2. \A i \in req'[q].ids : i[1] # made'
      BY <2>11, <3>1 DEF WInv, Numbered
    <3>. QED BY <2>6, <3>2 DEF Fresh, IdOf, NewRow
  <2>14. Finalizers'
    BY <1>2, <2>13 DEF WInv, Finalizers
  <2>. QED BY <1>2, <2>7, <2>8, <2>9, <2>10, <2>12, <2>14 DEF WInv
<1>. QED BY <1>3, <1>4

\* What a finalisation of a week makes of a row.
Becomes(g, h, week) ==
    /\ SameFixture(g, h) /\ h.bid = g.bid
    /\ g.week # week => h = g
    /\ g.week = week => h.final = TRUE /\ h.pa \in Int /\ h.pb \in Int

LEMMA FinalizedWins ==
    ASSUME NEW G, NEW H, NEW week, Good(G),
           \A h \in H : \E g \in G : Becomes(g, h, week),
           \A g \in G : \E h \in H : Becomes(g, h, week),
           \A g \in G : g.week = week => ~g.final,
           Whole(G), Together(G), Uniform(G), Scored(G), Earned(G)
    PROVE  /\ Whole(H) /\ Together(H) /\ Uniform(H) /\ Scored(H) /\ Earned(H)
           /\ \A b : TitleWon(b, G) => TitleWon(b, H)
<1>1. \A bt, n : HasRound(H, bt, n) <=> HasRound(G, bt, n)
  BY DEF HasRound, Becomes, SameFixture
<1>2. Whole(H)
  <2> SUFFICES ASSUME NEW bt \in {"WINNERS", "CONSOLATION"}, NEW n \in 1..2,
                      n < RoundsOf(bt), HasRound(H, bt, n),
                      NEW pos \in Positions(bt, n), NEW k \in 1..WeeksOf(n)
               PROVE  \E h \in H : h.bt = bt /\ h.round = n /\ h.pos = pos /\ h.game = k
    BY DEF Whole
  <2>1. PICK g \in G : g.bt = bt /\ g.round = n /\ g.pos = pos /\ g.game = k
    BY <1>1 DEF Whole
  <2>2. PICK h \in H : Becomes(g, h, week)
    OBVIOUS
  <2>. QED BY <2>1, <2>2 DEF Becomes, SameFixture
<1>3. Together(H)
  BY <1>1 DEF Together
<1>4. Uniform(H)
  <2> SUFFICES ASSUME NEW h \in H, NEW i \in H, h.week = i.week
               PROVE  h.final = i.final
    BY DEF Uniform
  <2>1. PICK g \in G : Becomes(g, h, week)
    OBVIOUS
  <2>2. PICK j \in G : Becomes(j, i, week)
    OBVIOUS
  <2>3. g.week = j.week
    BY <2>1, <2>2 DEF Becomes, SameFixture
  <2>4. CASE g.week = week
    BY <2>1, <2>2, <2>3, <2>4 DEF Becomes
  <2>5. CASE g.week # week
    <3>1. h = g /\ i = j
      BY <2>1, <2>2, <2>3, <2>5 DEF Becomes
    <3>. QED BY <2>3, <3>1 DEF Uniform
  <2>. QED BY <2>4, <2>5
<1>5. Scored(H)
  <2> SUFFICES ASSUME NEW h \in H
               PROVE  h.final \in BOOLEAN /\ h.pa \in Int /\ h.pb \in Int
    BY DEF Scored
  <2>1. PICK g \in G : Becomes(g, h, week)
    OBVIOUS
  <2>2. CASE g.week = week
    BY <2>1, <2>2 DEF Becomes
  <2>3. CASE g.week # week
    BY <2>1, <2>3 DEF Becomes, Scored
  <2>. QED BY <2>2, <2>3
<1>6. ASSUME NEW bt, NEW n, NEW t, WonIn(G, bt, n, t)
      PROVE  WonIn(H, bt, n, t)
  <2>1. \A g \in G : g.bt = bt /\ g.round = n /\ g.final => g \in H
    BY DEF Becomes
  <2>2. \A h \in H : h.bt = bt /\ h.round = n =>
            \E g \in G : g.bt = bt /\ g.round = n /\ g.pos = h.pos /\ (g.final => g = h)
    BY DEF Becomes, SameFixture
  <2>. QED BY <1>6, <2>1, <2>2, WonStays
<1>7. Earned(H)
  <2> SUFFICES ASSUME NEW h \in H, h.bt \in {"WINNERS", "CONSOLATION"}, h.round > 1,
                      NEW t \in {h.a, h.b}
               PROVE  WonIn(H, h.bt, h.round - 1, t) \/ HadBye(h.bt, h.round, t)
    BY DEF Earned
  <2>1. PICK g \in G : Becomes(g, h, week)
    OBVIOUS
  <2>2. g.bt = h.bt /\ g.round = h.round /\ g.a = h.a /\ g.b = h.b
    BY <2>1 DEF Becomes, SameFixture
  <2>3. WonIn(G, h.bt, h.round - 1, t) \/ HadBye(h.bt, h.round, t)
    BY <2>2 DEF Earned
  <2>. QED BY <1>6, <2>3
<1>8. \A b : TitleWon(b, G) => TitleWon(b, H)
  BY <1>6 DEF TitleWon
<1>. QED BY <1>2, <1>3, <1>4, <1>5, <1>7, <1>8

\* A finalisation, when points are whole numbers.
LEMMA FinalizeWins ==
    ASSUME \A g : Outcomes(g) \subseteq Int \X Int,
           PInv, WInv, NEW p \in Requests, FinalizeCommit(p)
    PROVE  WInv'
<1> DEFINE hit == {g \in matchups : <<g.bid, SlotOf(g)>> \in req[p].ids}
           upd(points, g) == [g EXCEPT !.final = TRUE, !.pa = points[g][1], !.pb = points[g][2]]
           week == req[p].week
<1>1. /\ req' = [req EXCEPT ![p] = Null] /\ bracket' = bracket /\ made' = made
      /\ p \in Pending("finalize")
  BY DEF FinalizeCommit, Pending
<1>2. PICK points : /\ matchups' = (matchups \ hit) \union {upd(points, g) : g \in hit}
                    /\ \A g \in hit : points[g] \in Outcomes(g)
  BY DEF FinalizeCommit
<1>3. \A op : \A q \in Pending(op)' : q # p /\ q \in Pending(op) /\ req'[q] = req[q]
  BY <1>1, PendingAfter
<1>4. Pending("finalize")' = {}
  BY <1>1, <1>3 DEF WInv, Finalizers
<1>5. Finalizers'
  BY <1>4 DEF Finalizers
<1>6. AsRead(matchups, req[p]) \/ Fresh(matchups, req[p])
  BY <1>1 DEF WInv, Finalizers
<1>7. CASE Fresh(matchups, req[p])
  <2>1. hit = {}
    BY <1>7 DEF Fresh, IdOf
  <2> HIDE DEF hit
  <2>2. matchups' = matchups
    BY <1>2, <2>1
  <2>3. Numbered'
    BY <1>1, <1>3, <2>2 DEF WInv, Numbered
  <2>. QED BY <1>1, <1>3, <1>5, <2>2, <2>3 DEF WInv
<1>8. CASE AsRead(matchups, req[p])
  <2>0. Good(matchups)
    BY DEF PInv
  <2>1. hit = {g \in matchups : g.week = week} /\ \A g \in matchups : g.week = week => ~g.final
    <3>1. \A g \in matchups : g.week = week => g \in hit
      BY <1>8 DEF AsRead, IdOf
    <3>2. ASSUME NEW g \in hit PROVE g.week = week
      <4>1. g \in matchups /\ IdOf(g) \in req[p].ids
        BY DEF IdOf
      <4>2. PICK h \in matchups : h.week = week /\ IdOf(g) = IdOf(h)
        BY <1>8, <4>1 DEF AsRead
      <4>3. g = h
        BY <2>0, <4>1, <4>2 DEF IdOf, Good, RowsAgree
      <4>. QED BY <4>2, <4>3
    <3>. QED BY <1>8, <3>1, <3>2 DEF AsRead
  <2>2. ASSUME NEW g \in matchups
        PROVE  /\ g \in hit => g.week = week /\ Becomes(g, upd(points, g), week)
               /\ g \notin hit => g.week # week /\ Becomes(g, g, week)
    <3>1. DOMAIN g = RowColumns
      BY <2>0 DEF Good, RowOK
    <3>2. ASSUME g \in hit
          PROVE  Becomes(g, upd(points, g), week)
      <4>1. points[g][1] \in Int /\ points[g][2] \in Int
        <5>1. points[g] \in Int \X Int
          BY <1>2, <3>2
        <5>. QED BY <5>1
      <4>2. SameFixture(g, upd(points, g)) /\ upd(points, g).bid = g.bid
        BY <3>1 DEF SameFixture, RowColumns
      <4>3. /\ upd(points, g).final = TRUE
            /\ upd(points, g).pa = points[g][1] /\ upd(points, g).pb = points[g][2]
        BY <3>1 DEF RowColumns
      <4>4. g.week = week
        BY <2>1, <3>2
      <4> HIDE DEF upd, hit, week
      <4>. QED BY <4>1, <4>2, <4>3, <4>4 DEF Becomes
    <3>3. g.week # week => Becomes(g, g, week)
      BY DEF Becomes, SameFixture
    <3>. QED BY <2>1, <3>2, <3>3
  <2> HIDE DEF upd, hit, week
  <2>3. \A h \in matchups' : \E g \in matchups : Becomes(g, h, week)
    <3> SUFFICES ASSUME NEW h \in matchups' PROVE \E g \in matchups : Becomes(g, h, week)
      OBVIOUS
    <3>1. CASE h \in matchups \ hit
      BY <2>2, <3>1
    <3>2. CASE h \notin matchups \ hit
      <4>1. PICK g \in hit : h = upd(points, g)
        BY <1>2, <3>2
      <4>2. g \in matchups
        BY <4>1 DEF hit
      <4>. QED BY <2>2, <4>1, <4>2
    <3>. QED BY <3>1, <3>2
  <2>4. \A g \in matchups : \E h \in matchups' : Becomes(g, h, week)
    BY <1>2, <2>2
  <2>5. /\ Whole(matchups') /\ Together(matchups') /\ Uniform(matchups')
        /\ Scored(matchups') /\ Earned(matchups')
        /\ \A b : TitleWon(b, matchups) => TitleWon(b, matchups')
    BY <2>0, <2>1, <2>3, <2>4, FinalizedWins DEF WInv
  <2>6. Numbered'
    <3>1. \A h \in matchups' : h.bid \in 1..made'
      BY <1>1, <2>3 DEF WInv, Numbered, Becomes
    <3>. QED BY <1>1, <1>3, <3>1 DEF WInv, Numbered
  <2>. QED BY <1>1, <1>3, <1>5, <2>5, <2>6 DEF WInv
<1>. QED BY <1>6, <1>7, <1>8

LEMMA AdvanceKeepsId ==
    ASSUME PInv, NEW p \in Requests, AdvanceCommit(p), bracket' # Null
    PROVE  bracket # Null /\ bracket'.id = bracket.id
<1> DEFINE r == req[p]
           first == DecidedBy("WINNERS", r.winners, r.week)
           cons == DecidedBy("CONSOLATION", r.consolation, r.week)
           set == WithWinners(bracket, first, cons, r.third)
           ended == IF first # Null \/ cons # Null \/ r.third # Null
                    THEN FinalizedIfComplete(set) ELSE set
           after == IF r.pending THEN [ended EXCEPT !.status = "active"] ELSE ended
<1>1. bracket' = IF bracket = Null \/ bracket.id # r.id THEN bracket ELSE after
  BY Zenon DEF AdvanceCommit
<1>2. bracket # Null /\ bracket \in Bracket
  <2> HIDE DEF after
  <2>. QED BY <1>1 DEF PInv
<1> HIDE DEF r, first, cons
<1>3. set.id = bracket.id /\ DOMAIN set = {"id", "status", "champion", "third", "consolation"}
  BY <1>2 DEF WithWinners, Bracket
<1>4. ended.id = set.id /\ DOMAIN ended = {"id", "status", "champion", "third", "consolation"}
  <2> HIDE DEF set
  <2>. QED BY <1>3 DEF FinalizedIfComplete
<1>5. after.id = ended.id
  <2> HIDE DEF ended
  <2>. QED BY <1>4
<1> HIDE DEF set, ended, after
<1>. QED BY <1>1, <1>2, <1>3, <1>4, <1>5

\* The title is only given to the winner of the final.
LEMMA AdvanceTitle ==
    ASSUME PInv, WInv, NEW p \in Requests, AdvanceCommit(p),
           bracket' # Null, bracket'.champion # Null, matchups # {}
    PROVE  WonIn(matchups, "WINNERS", TotalRounds, bracket'.champion)
<1> DEFINE r == req[p]
           first == DecidedBy("WINNERS", r.winners, r.week)
           cons == DecidedBy("CONSOLATION", r.consolation, r.week)
           set == WithWinners(bracket, first, cons, r.third)
           ended == IF first # Null \/ cons # Null \/ r.third # Null
                    THEN FinalizedIfComplete(set) ELSE set
           after == IF r.pending THEN [ended EXCEPT !.status = "active"] ELSE ended
           C == CompletedSeries("WINNERS", r.week)
           s == CHOOSE x \in C : TRUE
<1>1. /\ r # Null /\ r.op = "advance"
      /\ bracket' = IF bracket = Null \/ bracket.id # r.id THEN bracket ELSE after
  BY Zenon DEF AdvanceCommit
<1>2. r.winners = 0 \/ InRound("WINNERS", r.winners, r.week)
  BY <1>1 DEF PInv, AdvanceOK
<1>3. first # Null => WonIn(matchups, "WINNERS", TotalRounds, first)
  <2> SUFFICES ASSUME first # Null PROVE WonIn(matchups, "WINNERS", TotalRounds, first)
    OBVIOUS
  <2>1. r.winners = TotalRounds /\ C # {} /\ first = SeriesWinner(s)
    BY BracketConfig DEF DecidedBy
  <2>2. s \in C
    BY <2>1
  <2>3. InRound("WINNERS", TotalRounds, r.week)
    BY <1>2, <2>1, BracketConfig
  <2> HIDE DEF r, s, first
  <2>. QED BY <2>1, <2>2, <2>3, CompletedWinnerWon DEF PInv, WInv
<1>4. bracket # Null /\ bracket \in Bracket
  <2> HIDE DEF after
  <2>. QED BY <1>1 DEF PInv
<1>5. TitleWon(bracket, matchups)
  BY DEF WInv
<1> HIDE DEF r, first, cons
<1>6. bracket'.champion \in {bracket.champion, first} /\ (bracket'.champion = first => first # Null)
  <2>1. CASE bracket = Null \/ bracket.id # r.id
    <3> HIDE DEF after
    <3>1. bracket' = bracket
      BY <1>1, <2>1
    <3>2. bracket'.champion # Null
      OBVIOUS
    <3>. QED BY <3>1, <3>2
  <2>2. CASE ~(bracket = Null \/ bracket.id # r.id)
    <3>1. set.champion = IF first # Null THEN first ELSE bracket.champion
      BY <1>4 DEF WithWinners, Bracket
    <3>2. set \in [DOMAIN bracket -> UNION {{set[x]} : x \in DOMAIN bracket}]
          /\ DOMAIN set = {"id", "status", "champion", "third", "consolation"}
      BY <1>4 DEF WithWinners, Bracket
    <3>3. ended.champion = set.champion
          /\ DOMAIN ended = {"id", "status", "champion", "third", "consolation"}
      <4> HIDE DEF set
      <4>. QED BY <3>2 DEF FinalizedIfComplete
    <3>4. after.champion = ended.champion
      <4> HIDE DEF ended
      <4>. QED BY <3>3
    <3> HIDE DEF set, ended, after
    <3>5. bracket' = after
      BY <1>1, <2>2
    <3>. QED BY <3>1, <3>3, <3>4, <3>5
  <2>. QED BY <2>1, <2>2
<1>. QED BY <1>3, <1>4, <1>5, <1>6 DEF TitleWon

\* The rows of an advancement, as far as the invariant is about them: they are
\* a round that no bracket has yet.
LEMMA AdvanceRounds ==
    ASSUME PInv, WInv, NEW r, AdvanceOK(r), ReadsBoth(r),
           NEW A, CreatedOK(r.id, "WINNERS", r.winners, r.week, A),
           NEW B, CreatedOK(r.id, "CONSOLATION", r.consolation, r.week, B),
           Good(B), A # {} \/ B # {}
    PROVE  \E n \in 1..2 :
              /\ \A g \in matchups : g.round # n + 1
              /\ \A g \in A \union B : NewRow(g, r.id, n + 1)
              /\ \E g \in matchups : g.round = n /\ g.final
              /\ A # {} => r.winners = n
              /\ B # {} => r.consolation = n
              /\ ConsolationTeams # 0 /\ n + 1 <= RoundsOf("CONSOLATION") /\ n + 1 <= TotalRounds =>
                    Due("WINNERS", n, r.week) /\ Due("CONSOLATION", n, r.week)
                    /\ r.winners = n /\ r.consolation = n
<1>0. /\ Good(matchups) /\ ThirdWithFinal(matchups) /\ Whole(matchups) /\ Together(matchups)
      /\ TotalRounds \in {2, 3} /\ RoundsOf("CONSOLATION") \in {2, 3}
      /\ RoundsOf("WINNERS") = TotalRounds /\ RoundsOf("THIRD_PLACE") = TotalRounds
  BY BracketConfig DEF PInv, WInv
<1>1. A # {} => /\ Due("WINNERS", r.winners, r.week) /\ r.winners \in 1..2
                /\ InRound("WINNERS", r.winners, r.week)
  BY <1>0 DEF CreatedOK, AdvanceOK, InRound, Due
<1>2. B # {} => /\ Due("CONSOLATION", r.consolation, r.week) /\ r.consolation \in 1..2
                /\ InRound("CONSOLATION", r.consolation, r.week)
  BY <1>0 DEF CreatedOK, AdvanceOK, InRound, Due
<1>3. A # {} /\ B # {} => r.winners = r.consolation
  <2> SUFFICES ASSUME A # {}, B # {} PROVE r.winners = r.consolation
    OBVIOUS
  <2> DEFINE m == r.winners
             k == r.consolation
             week == r.week
  <2>1. /\ m \in 1..3 /\ k \in 1..3 /\ week \in WeekStart(m)..WeekEnd(m)
        /\ week \in WeekStart(k)..WeekEnd(k)
    BY <1>1, <1>2 DEF InRound
  <2>2. week \in Int
    BY <1>1, BracketConfig DEF Due, Over, WeekEnd
  <2> HIDE DEF m, k, week
  <2>3. m = k
    BY <2>1, <2>2, WeekOfOneRound
  <2>. QED BY <2>3 DEF m, k
<1>4. B # {} => ConsolationTeams # 0
  <2>1. ASSUME NEW g \in B PROVE ConsolationTeams # 0
    <3>1. RowOK(g) /\ g.bt \in {"CONSOLATION", "THIRD_PLACE"}
      BY DEF Good, CreatedOK
    <3>2. HasRound(matchups, "CONSOLATION", r.consolation)
      BY <1>2, <2>1 DEF Due
    <3>3. PICK h \in matchups : h.bt = "CONSOLATION"
      BY <3>2 DEF HasRound
    <3>4. h.sa \in 1..TeamsOf("CONSOLATION")
      BY <1>0, <3>3, SeedsArePlaces DEF Good, RowOK
    <3>. QED BY <3>4, BracketConfig
  <2>. QED BY <2>1
<1> DEFINE n == IF A # {} THEN r.winners ELSE r.consolation
           shared == /\ ConsolationTeams # 0
                     /\ n + 1 <= RoundsOf("CONSOLATION") /\ n + 1 <= TotalRounds
<1>5. n \in 1..2 /\ (A # {} => r.winners = n) /\ (B # {} => r.consolation = n)
  BY <1>1, <1>2, <1>3
<1> HIDE DEF n
<1>6. shared => /\ HasRound(matchups, "WINNERS", n) <=> HasRound(matchups, "CONSOLATION", n)
                /\ HasRound(matchups, "WINNERS", n + 1) <=> HasRound(matchups, "CONSOLATION", n + 1)
                /\ r.winners = n /\ r.consolation = n
  <2> SUFFICES ASSUME shared
               PROVE  /\ HasRound(matchups, "WINNERS", n) <=> HasRound(matchups, "CONSOLATION", n)
                      /\ HasRound(matchups, "WINNERS", n + 1)
                            <=> HasRound(matchups, "CONSOLATION", n + 1)
                      /\ r.winners = n /\ r.consolation = n
    OBVIOUS
  <2>1. /\ n \in 1..3 /\ n + 1 \in 1..3 /\ n < TotalRounds /\ n < RoundsOf("CONSOLATION")
        /\ n <= TotalRounds /\ n <= RoundsOf("CONSOLATION")
    BY <1>0, <1>5
  <2>2. r.winners = n <=> r.consolation = n
    BY <1>5, <2>1 DEF ReadsBoth
  <2>3. r.winners = n \/ r.consolation = n
    BY <1>5
  <2>. QED BY <1>0, <2>1, <2>2, <2>3 DEF Together
<1>7. shared => Due("WINNERS", n, r.week) /\ Due("CONSOLATION", n, r.week)
  <2> SUFFICES ASSUME shared PROVE Due("WINNERS", n, r.week) /\ Due("CONSOLATION", n, r.week)
    OBVIOUS
  <2>1. n # 0 /\ n < TotalRounds /\ n < RoundsOf("CONSOLATION")
    BY <1>0, <1>5
  <2>2. Due("WINNERS", n, r.week) \/ Due("CONSOLATION", n, r.week)
    BY <1>1, <1>2, <1>5
  <2>. QED BY <1>0, <1>6, <2>1, <2>2 DEF Due
<1>8. \A g \in matchups : g.round # n + 1
  <2> SUFFICES ASSUME NEW g \in matchups, g.round = n + 1 PROVE FALSE
    OBVIOUS
  <2>1. /\ g.bt \in {"WINNERS", "CONSOLATION", "THIRD_PLACE"} /\ g.round <= RoundsOf(g.bt)
        /\ g.bt = "THIRD_PLACE" => g.round = TotalRounds /\ EnableThirdPlace
        /\ g.sa \in 1..TeamsOf(g.bt)
    <3>1. RowOK(g)
      BY <1>0 DEF Good
    <3>2. RoundsOf(g.bt) \in Int
      BY BracketConfig
    <3>. QED BY <3>1, <3>2, SeedsArePlaces DEF RowOK, BracketTypes
  <2>2. HasRound(matchups, g.bt, n + 1)
    BY DEF HasRound
  <2>3. g.bt = "THIRD_PLACE" => HasRound(matchups, "WINNERS", n + 1)
    BY <1>0, <2>1, <2>2 DEF ThirdWithFinal
  <2>4. HasRound(matchups, "WINNERS", n + 1) \/ HasRound(matchups, "CONSOLATION", n + 1)
    BY <2>1, <2>2, <2>3
  <2>5. g.bt = "CONSOLATION" => ConsolationTeams # 0
    BY <2>1, BracketConfig
  <2>6. CASE A # {}
    <3>1. Due("WINNERS", n, r.week)
      BY <1>1, <1>5, <2>6
    <3>2. ~HasRound(matchups, "WINNERS", n + 1) /\ n < TotalRounds
      BY <1>0, <3>1 DEF Due
    <3>3. g.bt = "CONSOLATION" /\ HasRound(matchups, "CONSOLATION", n + 1)
      BY <2>1, <2>2, <2>3, <3>2
    <3>4. shared
      BY <1>0, <1>5, <2>1, <2>5, <3>2, <3>3
    <3>. QED BY <1>6, <3>2, <3>3, <3>4
  <2>7. CASE B # {}
    <3>1. Due("CONSOLATION", n, r.week)
      BY <1>2, <1>5, <2>7
    <3>2. ~HasRound(matchups, "CONSOLATION", n + 1) /\ n < RoundsOf("CONSOLATION")
      BY <3>1 DEF Due
    <3>3. g.bt # "CONSOLATION" /\ HasRound(matchups, "WINNERS", n + 1)
      BY <2>1, <2>2, <2>3, <3>2
    <3>4. shared
      BY <1>0, <1>4, <1>5, <2>1, <2>7, <3>2, <3>3
    <3>. QED BY <1>6, <3>2, <3>3, <3>4
  <2>. QED BY <2>6, <2>7
<1>9. \A g \in A \union B : NewRow(g, r.id, n + 1)
  BY <1>5 DEF CreatedOK
<1>10. \E g \in matchups : g.round = n /\ g.final
  <2>1. Due("WINNERS", n, r.week) \/ Due("CONSOLATION", n, r.week)
    BY <1>1, <1>2, <1>5
  <2>. QED BY <2>1 DEF Due, Over, HasRound
<1>. QED
  <2> HIDE DEF shared
  <2>1. shared <=> /\ ConsolationTeams # 0
                   /\ n + 1 <= RoundsOf("CONSOLATION") /\ n + 1 <= TotalRounds
    BY DEF shared
  <2>. QED BY <1>5, <1>6, <1>7, <1>8, <1>9, <1>10, <2>1

\* Rows of a round that was not there do not touch what was won.
LEMMA WonGrows ==
    ASSUME NEW G, NEW N, NEW m, \A g \in G : g.round # m, \A h \in N : h.round = m,
           NEW bt, NEW n, NEW roster, WonIn(G, bt, n, roster)
    PROVE  WonIn(G \union N, bt, n, roster)
<1>1. PICK g \in G : g.bt = bt /\ g.round = n
  BY DEF WonIn
<1>2. n # m
  BY <1>1
<1>3. \A h \in G \union N : h.bt = bt /\ h.round = n => h \in G
  BY <1>2
<1> DEFINE H == G \union N
<1>4. /\ \A i \in G : i.bt = bt /\ i.round = n /\ i.final => i \in H
      /\ \A h \in H : h.bt = bt /\ h.round = n =>
             \E i \in G : i.bt = bt /\ i.round = n /\ i.pos = h.pos /\ (i.final => i = h)
  BY <1>3
<1> HIDE DEF H
<1>5. WonIn(H, bt, n, roster)
  BY <1>4, WonStays
<1>. QED BY <1>5 DEF H

LEMMA AdvanceWins ==
    ASSUME PInv, WInv, NEW p \in Requests, AdvanceCommit(p)
    PROVE  WInv'
<1> DEFINE r == req[p]
           A == CreatedBy(r.id, "WINNERS", r.winners, r.week)
           B == CreatedBy(r.id, "CONSOLATION", r.consolation, r.week)
<1>1. /\ r # Null /\ r.op = "advance" /\ p \in Pending("advance")
      /\ req' = [req EXCEPT ![p] = Null] /\ made' = made
      /\ bracket' # Null => bracket'.id \in 1..made
  <2>1. /\ r # Null /\ r.op = "advance" /\ made' = made /\ req' = [req EXCEPT ![p] = Null]
    BY Zenon DEF AdvanceCommit
  <2>2. bracket' # Null => bracket'.id \in 1..made
    BY AdvanceKeepsId DEF WInv, Numbered
  <2>. QED BY <2>1, <2>2 DEF Pending
<1>2. /\ matchups' = (matchups \union A) \union B
      /\ NewRows("WINNERS", A) /\ NewRows("CONSOLATION", B) /\ AdvanceOK(r)
  <2> HIDE DEF r
  <2>1. r = req[p]
    BY DEF r
  <2>. QED BY <2>1, AdvanceAdds
<1>3. /\ CreatedOK(r.id, "WINNERS", r.winners, r.week, A)
      /\ CreatedOK(r.id, "CONSOLATION", r.consolation, r.week, B)
  <2> HIDE DEF r
  <2>. QED BY <1>2, CreatedRows DEF AdvanceOK, WInv
<1>4. ReadsBoth(r) /\ r.id \in 1..made
  BY <1>1 DEF WInv, Numbered
<1>5. /\ Good(matchups) /\ Good(matchups') /\ Good(B)
      /\ matchups' # {} => matchups # {}
  <2>1. PInv'
    BY AdvanceStep
  <2> HIDE DEF A, B, r
  <2>. QED BY <1>2, <2>1 DEF PInv, NewRows
<1>6. \A op : \A q \in Pending(op)' : q # p /\ q \in Pending(op) /\ req'[q] = req[q]
  BY <1>1, PendingAfter
<1>7. TitleWon(bracket', matchups)
  BY AdvanceTitle DEF TitleWon
<1> HIDE DEF A, B, r
<1>8. CASE A = {} /\ B = {}
  <2>1. matchups' = matchups
    BY <1>2, <1>8
  <2>2. Numbered' /\ Finalizers'
    BY <1>1, <1>6, <2>1 DEF WInv, Numbered, Finalizers
  <2>. QED BY <1>6, <1>7, <2>1, <2>2 DEF WInv
<1>9. CASE A # {} \/ B # {}
  <2>1. PICK n \in 1..2 :
          /\ \A g \in matchups : g.round # n + 1
          /\ \A g \in A \union B : NewRow(g, r.id, n + 1)
          /\ \E g \in matchups : g.round = n /\ g.final
          /\ A # {} => r.winners = n
          /\ B # {} => r.consolation = n
          /\ ConsolationTeams # 0 /\ n + 1 <= RoundsOf("CONSOLATION") /\ n + 1 <= TotalRounds =>
                Due("WINNERS", n, r.week) /\ Due("CONSOLATION", n, r.week)
                /\ r.winners = n /\ r.consolation = n
    BY <1>2, <1>3, <1>4, <1>5, <1>9, AdvanceRounds
  <2> DEFINE N == A \union B
  <2>2. /\ matchups' = matchups \union N
        /\ \A g \in matchups : g.round # n + 1
        /\ \A g \in N : /\ g.round = n + 1 /\ g.final = FALSE /\ g.pa = 0 /\ g.pb = 0
                        /\ g.bid = r.id
    BY <1>2, <2>1 DEF NewRow
  <2>3. \A bt, m : HasRound(matchups', bt, m) <=>
                      HasRound(matchups, bt, m) \/ HasRound(A, bt, m) \/ HasRound(B, bt, m)
    BY <1>2 DEF HasRound
  <2>4. \A g \in A : g.bt # "CONSOLATION"
    BY <1>3 DEF CreatedOK
  <2>5. \A g \in B : g.bt # "WINNERS"
    BY <1>3 DEF CreatedOK
  <2>6. Whole(matchups')
    <3> SUFFICES ASSUME NEW bt \in {"WINNERS", "CONSOLATION"}, NEW m \in 1..2,
                        m < RoundsOf(bt), HasRound(matchups', bt, m),
                        NEW pos \in Positions(bt, m), NEW k \in 1..WeeksOf(m)
                 PROVE  \E g \in matchups' :
                            g.bt = bt /\ g.round = m /\ g.pos = pos /\ g.game = k
      BY DEF Whole
    <3>1. CASE HasRound(matchups, bt, m)
      <4>1. \E g \in matchups : g.bt = bt /\ g.round = m /\ g.pos = pos /\ g.game = k
        BY <3>1 DEF WInv, Whole
      <4>. QED BY <2>2, <4>1
    <3>2. CASE ~HasRound(matchups, bt, m)
      <4>1. HasRound(A, bt, m) \/ HasRound(B, bt, m)
        BY <2>3, <3>2
      <4>2. m = n + 1
        BY <2>2, <4>1 DEF HasRound
      <4>3. /\ bt = "WINNERS" => A # {} /\ FullRound(A, bt, m)
            /\ bt = "CONSOLATION" => B # {} /\ FullRound(B, bt, m)
        BY <1>3, <2>1, <2>4, <2>5, <4>1, <4>2 DEF HasRound, CreatedOK
      <4>4. pos \in Slots(bt, m)
        BY DEF Slots
      <4>5. \E g \in N : g.bt = bt /\ g.round = m /\ g.pos = pos /\ g.game = k
        BY <4>3, <4>4 DEF FullRound
      <4>. QED BY <2>2, <4>5
    <3>. QED BY <3>1, <3>2
  <2>7. Together(matchups')
    <3> SUFFICES ASSUME NEW m \in 1..3, ConsolationTeams # 0,
                        m <= RoundsOf("CONSOLATION"), m <= TotalRounds
                 PROVE  HasRound(matchups', "WINNERS", m)
                            <=> HasRound(matchups', "CONSOLATION", m)
      BY DEF Together
    <3>1. HasRound(matchups, "WINNERS", m) <=> HasRound(matchups, "CONSOLATION", m)
      BY DEF WInv, Together
    <3>2. CASE m # n + 1
      <4>1. \A bt : ~HasRound(A, bt, m) /\ ~HasRound(B, bt, m)
        BY <2>2, <3>2 DEF HasRound
      <4>. QED BY <2>3, <3>1, <4>1
    <3>3. CASE m = n + 1
      <4>1. FullRound(A, "WINNERS", m) /\ FullRound(B, "CONSOLATION", m)
        BY <1>3, <2>1, <3>3 DEF CreatedOK
      <4>2. 1 \in Slots("WINNERS", m) /\ 1 \in Slots("CONSOLATION", m) /\ 1 \in 1..WeeksOf(m)
        BY BracketConfig DEF Slots, Positions
      <4>3. HasRound(A, "WINNERS", m) /\ HasRound(B, "CONSOLATION", m)
        BY <4>1, <4>2 DEF FullRound, HasRound
      <4>. QED BY <2>3, <4>3
    <3>. QED BY <3>2, <3>3
  <2>8. \A g, h \in matchups' : g.week = h.week => (g \in matchups <=> h \in matchups)
    <3> SUFFICES ASSUME NEW g \in matchups', NEW h \in matchups', g.week = h.week,
                        g \in matchups
                 PROVE  h \in matchups
      OBVIOUS
    <3>1. g.round = h.round
      BY <1>5, SameWeek
    <3> HIDE DEF N
    <3>. QED BY <2>2, <3>1
  <2> HIDE DEF N
  <2>9. Uniform(matchups')
    <3> SUFFICES ASSUME NEW g \in matchups', NEW h \in matchups', g.week = h.week
                 PROVE  g.final = h.final
      BY DEF Uniform
    <3>1. CASE g \in matchups
      BY <2>8, <3>1 DEF WInv, Uniform
    <3>2. CASE g \notin matchups
      <4>1. g \in N /\ h \in N
        BY <2>2, <2>8, <3>2
      <4>. QED BY <2>2, <4>1
    <3>. QED BY <3>1, <3>2
  <2>10. Scored(matchups')
    <3> SUFFICES ASSUME NEW g \in matchups'
                 PROVE  g.final \in BOOLEAN /\ g.pa \in Int /\ g.pb \in Int
      BY DEF Scored
    <3>1. CASE g \in matchups
      BY <3>1 DEF WInv, Scored
    <3>2. CASE g \in N
      <4>1. g.final = FALSE /\ g.pa = 0 /\ g.pb = 0
        BY <2>2, <3>2
      <4>2. g.final \in BOOLEAN
        BY <4>1
      <4>3. g.pa \in Int /\ g.pb \in Int
        BY <4>1
      <4>. QED BY <4>2, <4>3
    <3>. QED BY <2>2, <3>1, <3>2
  <2>11. ASSUME NEW bt, NEW m, NEW t, WonIn(matchups, bt, m, t)
         PROVE  WonIn(matchups', bt, m, t)
    <3> DEFINE k == n + 1
    <3>1. (\A g \in matchups : g.round # k) /\ (\A h \in N : h.round = k)
      BY <2>2
    <3> HIDE DEF k
    <3>2. WonIn(matchups \union N, bt, m, t)
      BY <2>11, <3>1, WonGrows
    <3>. QED BY <2>2, <3>2
  <2>12. Earned(matchups')
    <3> SUFFICES ASSUME NEW g \in matchups', g.bt \in {"WINNERS", "CONSOLATION"}, g.round > 1,
                        NEW t \in {g.a, g.b}
                 PROVE  WonIn(matchups', g.bt, g.round - 1, t) \/ HadBye(g.bt, g.round, t)
      BY DEF Earned
    <3>1. CASE g \in matchups
      <4>1. WonIn(matchups, g.bt, g.round - 1, t) \/ HadBye(g.bt, g.round, t)
        BY <3>1 DEF WInv, Earned
      <4>. QED BY <2>11, <4>1
    <3>2. CASE g \in N
      <4>1. g.round = n + 1 /\ g.round - 1 = n
        BY <2>2, <3>2
      <4>2. WonIn(matchups, g.bt, n, t) \/ HadBye(g.bt, n + 1, t)
        <5>1. CASE g \in A
          <6>1. g.bt = "WINNERS" /\ r.winners = n
            BY <2>1, <2>4, <5>1
          <6>. QED BY <1>3, <5>1, <6>1 DEF CreatedOK
        <5>2. CASE g \in B
          <6>1. g.bt = "CONSOLATION" /\ r.consolation = n
            BY <2>1, <2>5, <5>2
          <6>. QED BY <1>3, <5>2, <6>1 DEF CreatedOK
        <5>. QED BY <3>2, <5>1, <5>2 DEF N
      <4>. QED BY <2>11, <4>1, <4>2
    <3>. QED BY <2>2, <3>1, <3>2
  <2>13. TitleWon(bracket', matchups')
    BY <1>5, <1>7, <2>11 DEF TitleWon
  <2>14. Numbered'
    <3>1. \A g \in matchups' : g.bid \in 1..made
      BY <1>4, <2>2 DEF WInv, Numbered
    <3>. QED BY <1>1, <1>6, <3>1 DEF WInv, Numbered
  <2>15. ASSUME NEW q \in Pending("finalize")'
         PROVE  AsRead(matchups', req'[q])
    <3>1. /\ q \in Pending("finalize") /\ req'[q] = req[q]
          /\ AsRead(matchups, req[q]) \/ Fresh(matchups, req[q])
      BY <1>6 DEF WInv, Finalizers
    <3>2. ~Fresh(matchups, req[q])
      BY <2>1 DEF Fresh
    <3> DEFINE i == req[q]
    <3>3. AsRead(matchups, i)
      BY <3>1, <3>2
    <3>4. {h \in matchups' : h.week = i.week} = {h \in matchups : h.week = i.week}
      <4>1. PICK g \in matchups : g.week = i.week
        BY <3>3 DEF AsRead
      <4>. QED BY <2>2, <2>8, <4>1
    <3> HIDE DEF i
    <3>5. AsRead(matchups', i)
      BY <3>3, <3>4 DEF AsRead
    <3>. QED BY <3>1, <3>5 DEF i
  <2>16. Finalizers'
    BY <1>6, <2>15 DEF WInv, Finalizers
  <2>. QED BY <1>6, <2>6, <2>7, <2>9, <2>10, <2>12, <2>13, <2>14, <2>16 DEF WInv
<1>. QED BY <1>8, <1>9

-----------------------------------------------------------------------------
LEMMA WInvStep ==
    ASSUME MaxFinalizers = 1, \A g : Outcomes(g) \subseteq Int \X Int,
           PInv, WInv, [BracketNext]_bracketVars
    PROVE  WInv'
<1>1. ASSUME NEW p \in Requests, GenerateStart(p) PROVE WInv'
  <2>1. [op |-> "generate"].op = "generate"
    OBVIOUS
  <2>. QED BY <1>1, <2>1, ReadStep DEF GenerateStart
<1>2. ASSUME NEW p \in Requests, DeleteStart(p) PROVE WInv'
  <2>1. [op |-> "delete", id |-> bracket.id].op = "delete"
    OBVIOUS
  <2>. QED BY <1>2, <2>1, ReadStep DEF DeleteStart
<1>3. CASE UNCHANGED bracketVars
  BY <1>3 DEF bracketVars, WInv, Numbered, Finalizers, Pending
<1>. QED
  BY <1>1, <1>2, <1>3, FinalizeStartWins, AdvanceStartWins, GenerateWins, DeleteWins,
     FinalizeWins, AdvanceWins DEF BracketNext

LEMMA WInvImplies ==
    ASSUME PInv, WInv
    PROVE  ShownTeamsWon
<1>1. ASSUME NEW bt \in {"WINNERS", "CONSOLATION"}, NEW n, n \in Int, n > 1,
             NEW g \in RoundShown(bt, n).matchups, NEW t \in {g.a, g.b}
      PROVE  \/ WonSeries(bt, n - 1, t)
             \/ n = 2 /\ \E s \in ByeSeeds(TeamsOf(bt)) : t = SeedRoster(bt, s)
  <2>1. PICK h \in matchups : h.bt = bt /\ h.round = n /\ g.a = h.a /\ g.b = h.b
    BY DEF RoundShown, Shown, GamesOfType
  <2>2. WonIn(matchups, bt, n - 1, t) \/ HadBye(bt, n, t)
    BY <1>1, <2>1 DEF WInv, Earned
  <2>. QED BY <2>2, WonSeriesIn DEF HadBye
<1>2. ASSUME NEW n \in DOMAIN BracketView.rounds, n > 1,
             NEW g \in BracketView.rounds[n].matchups, NEW t \in {g.a, g.b}
      PROVE  \/ WonSeries("WINNERS", n - 1, t)
             \/ n = 2 /\ \E s \in ByeSeeds(TeamsOf("WINNERS")) : t = SeedRoster("WINNERS", s)
  <2>1. n \in 1..TotalRounds /\ BracketView.rounds[n] = RoundShown("WINNERS", n)
    BY DEF BracketView
  <2>. QED BY <1>1, <1>2, <2>1
<1>3. ASSUME NEW n \in DOMAIN BracketView.consolation, n > 1,
             NEW g \in BracketView.consolation[n].matchups, NEW t \in {g.a, g.b}
      PROVE  \/ WonSeries("CONSOLATION", n - 1, t)
             \/ n = 2 /\ \E s \in ByeSeeds(TeamsOf("CONSOLATION")) :
                            t = SeedRoster("CONSOLATION", s)
  <2>1. ConsolationTeams # 0
    BY DEF BracketView, ConsolationShown
  <2>2. n \in 1..RoundsOf("CONSOLATION")
        /\ BracketView.consolation[n] = RoundShown("CONSOLATION", n)
    BY <2>1 DEF BracketView, ConsolationShown
  <2>. QED BY <1>1, <1>3, <2>2
<1>4. BracketView.champion # Null /\ matchups # {} =>
         WonSeries("WINNERS", TotalRounds, BracketView.champion)
  BY WonSeriesIn DEF BracketView, WInv, TitleWon
<1>. QED BY <1>2, <1>3, <1>4 DEF ShownTeamsWon

\* Whatever the order in which requests commit, a team stands in a later round
\* of the bracket that is shown because it won its series of the round before
\* or had the bye, and the champion won the final: provided that finalisations
\* do not overlap (a second one rewrites the points of final games) and points
\* are whole numbers.
THEOREM TeamsShownHaveWon ==
    ASSUME MaxFinalizers = 1, \A g : Outcomes(g) \subseteq Int \X Int
    PROVE  BracketSpec => []ShownTeamsWon
<1>1. BracketInit => PInv /\ WInv
  BY PInvInit, WInvInit
<1>2. PInv /\ WInv /\ [BracketNext]_bracketVars => PInv' /\ WInv'
  BY PInvStep, WInvStep
<1>3. PInv /\ WInv => ShownTeamsWon
  BY WInvImplies
<1>. QED BY <1>1, <1>2, <1>3, PTL DEF BracketSpec
=============================================================================
