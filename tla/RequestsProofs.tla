--------------------------- MODULE RequestsProofs ---------------------------
(***************************************************************************)
(* What every request relies on, for any number of callers, clients, lock  *)
(* sets, events and attempts.                                              *)
(* The runners: IInv is the inductive invariant, where LockPart says what  *)
(* a caller holds at each point and that it acquired it in order,          *)
(* HeldDisjoint that PostgreSQL grants a number to one session at a time,  *)
(* and EventPart where its events are.                                     *)
(* The middleware: OnceInv says that what may carry a success implies      *)
(* committed work, and that a calm call has let one attempt through.       *)
(***************************************************************************)
EXTENDS Requests, WellFoundedInduction, TLAPS

HasLocks(c) == pc[c] = "locking" \/ InCallback(c)

LockPart(c) ==
  /\ todo[c] \subseteq want[c]
  /\ pc[c] = "connect" => todo[c] = want[c]
  /\ InCallback(c) => todo[c] = {}
  /\ HasLocks(c) => held[c] = {LockNo(s) : s \in want[c] \ todo[c]}
  /\ ~HasLocks(c) => held[c] = {}
  /\ pc[c] = "locking" => \A u \in want[c] \ todo[c], s \in todo[c] : LockBefore(u, s)

HeldDisjoint == \A c, d \in Caller : c # d => held[c] \cap held[d] = {}

EventPart(c) ==
  /\ pc[c] \in {"idle", "connect", "locking"} \/ InCallback(c) =>
       dispatched[c] = {} /\ outcome[c] = "none"
  /\ pc[c] \in {"idle", "connect", "locking"} => published[c] = {}
  /\ InCallback(c) => pending[c] = published[c]
  /\ pc[c] = "committed" =>
       outcome[c] = "committed" /\ pending[c] = published[c] /\ dispatched[c] = {}
  /\ ~InCallback(c) /\ pc[c] # "committed" => pending[c] = {}
  /\ dispatched[c] # {} => outcome[c] = "committed" /\ dispatched[c] = published[c]
  /\ outcome[c] = "committed" /\ pc[c] # "committed" => dispatched[c] = published[c]

ClientPart(c) == pc[c] \in {"idle", "connect", "done"} => conn[c] = {}

IInv ==
  /\ TypeOK
  /\ \A c \in Caller : LockPart(c) /\ EventPart(c) /\ ClientPart(c)
  /\ HeldDisjoint

-----------------------------------------------------------------------------
(* Arithmetic of lock numbers, and extrema of sets of naturals             *)

\* Distinct specifications have distinct numbers, and the numbers are ordered
\* as the comparator orders the specifications: getLockId's namespaces do not
\* collide for ids below their width.
THEOREM LockNumbers ==
  ASSUME NEW s \in LockSpec, NEW u \in LockSpec
  PROVE  /\ LockNo(s) \in Nat
         /\ LockNo(s) <= 12 * NamespaceWidth
         /\ LockNo(s) = LockNo(u) => s = u
         /\ LockBefore(s, u) => LockNo(s) <= LockNo(u)
         /\ LockBefore(s, u) \/ LockBefore(u, s)
<1>1. /\ s.domain \in Domain /\ s.id \in 0 .. NamespaceWidth - 1
      /\ u.domain \in Domain /\ u.id \in 0 .. NamespaceWidth - 1
  BY DEF LockSpec
<1>2. s = [domain |-> s.domain, id |-> s.id] /\ u = [domain |-> u.domain, id |-> u.id]
  BY DEF LockSpec
<1> DEFINE W == NamespaceWidth
<1>3. W \in Nat \ {0}
  BY NamespaceAssumption
<1>4. \A d \in Domain : d * W \in Nat /\ d * W + W <= 12 * W
  <2> HIDE DEF W
  <2> QED BY <1>3 DEF Domain
<1>5. \A d, e \in Domain : d < e => d * W + W <= e * W
  <2> HIDE DEF W
  <2> QED BY <1>3 DEF Domain
<1>6. \A d, e \in Domain : d < e \/ d = e \/ e < d
  BY DEF Domain
<1>7. Domain \subseteq Nat
  BY DEF Domain
<1>8. ASSUME LockNo(s) = LockNo(u) PROVE s = u
  <2> HIDE DEF W
  <2>1. /\ ~(s.domain < u.domain) /\ ~(u.domain < s.domain)
    <3>1. s.domain * W + s.id = u.domain * W + u.id
      BY <1>8 DEF LockNo, W
    <3>2. s.domain * W \in Nat /\ u.domain * W \in Nat /\ s.id \in 0 .. W - 1 /\ u.id \in 0 .. W - 1
      BY <1>1, <1>4 DEF W
    <3> QED BY <1>1, <1>3, <1>5, <3>1, <3>2
  <2>2. s.domain = u.domain
    BY <1>1, <1>6, <2>1
  <2>3. s.id = u.id
    BY <1>1, <1>3, <1>4, <1>8, <2>2 DEF LockNo, W
  <2> QED BY <1>2, <2>2, <2>3
<1>9. LockNo(s) \in Nat /\ LockNo(s) <= 12 * NamespaceWidth
  BY <1>1, <1>3, <1>4 DEF LockNo, W
<1>10. LockBefore(s, u) => LockNo(s) <= LockNo(u)
  <2>1. CASE s.domain < u.domain
    BY <1>1, <1>3, <1>4, <1>5, <2>1 DEF LockNo, W
  <2>2. CASE s.domain = u.domain /\ s.id <= u.id
    BY <1>1, <1>3, <1>4, <2>2 DEF LockNo, W
  <2> QED BY <2>1, <2>2 DEF LockBefore
<1>11. LockBefore(s, u) \/ LockBefore(u, s)
  BY <1>1, <1>3, <1>6 DEF LockBefore
<1> QED BY <1>8, <1>9, <1>10, <1>11

-----------------------------------------------------------------------------
(* The invariant                                                           *)

\* Every variable stays in its type.
LEMMA TypeInvariant == Spec => []TypeOK
<1>1. Init => TypeOK
  BY MaxNestedAssumption DEF Init, TypeOK, PC, Outcome
<1>2. TypeOK /\ [Next]_vars => TypeOK'
  <2> SUFFICES ASSUME TypeOK, [Next]_vars PROVE TypeOK'
    OBVIOUS
  <2> USE DEF TypeOK, PC, Outcome
  <2>1. ASSUME NEW c \in Caller, NEW L \in WantSets, NEW m \in {"block", "try"}, Request(c, L, m)
        PROVE  TypeOK'
    BY <2>1, WantSetsAssumption DEF Request
  <2>2. ASSUME NEW c \in Caller, NEW k \in Client,
               Connect(c, k) \/ NestedConnect(c, k) \/ NestedReturn(c, k)
        PROVE  TypeOK'
    BY <2>2 DEF Connect, NestedConnect, NestedReturn, FreeClients
  <2>3. ASSUME NEW c \in Caller, NEW s \in todo[c], Acquire(c, s)
        PROVE  TypeOK'
    <3>1. s \in LockSpec
      BY <2>3
    <3>2. LockNo(s) \in Nat
      BY <3>1, LockNumbers
    <3> QED BY <2>3, <3>2 DEF Acquire
  <2>4. ASSUME NEW c \in Caller, RollBack(c), pc[c] \in PC
        PROVE  TypeOK'
    BY <2>4 DEF RollBack
  <2>5. ASSUME NEW c \in Caller,
               ConnectTimeout(c) \/ StartBody(c) \/ Commit(c) \/ CommitUnacknowledged(c)
                 \/ Dispatch(c) \/ Release(c) \/ Reset(c)
        PROVE  TypeOK'
    BY <2>5, MaxNestedAssumption
       DEF ConnectTimeout, StartBody, Commit, CommitUnacknowledged, Dispatch, Release, Reset
  <2>6. ASSUME NEW c \in Caller, NEW e \in Event, Publish(c, e)
        PROVE  TypeOK'
    BY <2>6 DEF Publish
  <2>7. ASSUME NEW c \in Caller, NestedWait(c)
        PROVE  TypeOK'
    BY <2>7, MaxNestedAssumption DEF NestedWait
  <2>8. CASE Crash
    BY <2>8, MaxNestedAssumption DEF Crash
  <2>9. CASE UNCHANGED vars
    BY <2>9 DEF vars
  <2>10. ASSUME NEW c \in Caller, Step(c)
         PROVE  TypeOK'
    <3>1. CASE \E s \in todo[c] : TryLockFails(c, s) \/ LockTimeout(c, s)
      BY <3>1, <2>4 DEF TryLockFails, LockTimeout
    <3>2. CASE NestedTimeout(c) \/ Fail(c)
      BY <3>2, <2>4 DEF NestedTimeout, Fail
    <3> QED BY <2>2, <2>3, <2>5, <2>6, <2>7, <2>10, <3>1, <3>2 DEF Step
  <2> QED BY <2>1, <2>5, <2>8, <2>9, <2>10 DEF Next
<1> QED BY <1>1, <1>2, PTL DEF Spec

\* The steps of one caller, sorted by what they do to its locks.
KeepsLocks(c) ==
  \/ \E k \in Client : NestedConnect(c, k) \/ NestedReturn(c, k)
  \/ \E e \in Event : Publish(c, e)
  \/ NestedWait(c)

DropsLocks(c) ==
  \/ RollBack(c) /\ pc[c] \in PC
  \/ Commit(c) \/ CommitUnacknowledged(c)

NoLocks(c) ==
  \/ ConnectTimeout(c) \/ Dispatch(c) \/ Release(c) \/ Reset(c)
  \/ \E L \in WantSets, m \in {"block", "try"} : Request(c, L, m)

LEMMA NextCases ==
  ASSUME TypeOK, [Next]_vars
  PROVE  \/ \E c \in Caller : KeepsLocks(c) \/ DropsLocks(c) \/ NoLocks(c) \/ StartBody(c)
         \/ \E c \in Caller, k \in Client : Connect(c, k)
         \/ \E c \in Caller, s \in LockSpec : Acquire(c, s)
         \/ Crash
         \/ UNCHANGED vars
<1>1. ASSUME NEW c \in Caller, Step(c)
      PROVE  \/ KeepsLocks(c) \/ DropsLocks(c) \/ NoLocks(c) \/ StartBody(c)
             \/ \E k \in Client : Connect(c, k)
             \/ \E s \in LockSpec : Acquire(c, s)
  <2>1. ASSUME NEW s \in todo[c], Acquire(c, s) \/ TryLockFails(c, s) \/ LockTimeout(c, s)
        PROVE  (\E u \in LockSpec : Acquire(c, u)) \/ DropsLocks(c)
    BY <2>1 DEF TypeOK, TryLockFails, LockTimeout, DropsLocks
  <2>2. ASSUME NestedTimeout(c) \/ Fail(c) PROVE DropsLocks(c)
    BY <2>2 DEF TypeOK, NestedTimeout, Fail, DropsLocks
  <2> QED BY <1>1, <2>1, <2>2 DEF Step, KeepsLocks, DropsLocks, NoLocks
<1> QED BY <1>1 DEF Next, NoLocks

\* Locks are held as far as the acquisition has come, in order, and never by
\* two callers.
LEMMA LockStep ==
  ASSUME IInv, [Next]_vars
  PROVE  (\A c \in Caller : LockPart(c))' /\ HeldDisjoint'
<1> USE DEF TypeOK, HasLocks, InCallback
<1>1. ASSUME NEW c \in Caller, KeepsLocks(c)
      PROVE  (\A d \in Caller : LockPart(d))' /\ HeldDisjoint'
  <2>1. /\ pc[c] \in {"body", "nestedWait", "nestedQuery"}
        /\ pc' \in [Caller -> PC] /\ pc'[c] \in {"body", "nestedWait", "nestedQuery"}
        /\ \A d \in Caller \ {c} : pc'[d] = pc[d]
        /\ UNCHANGED <<want, todo, held>>
    BY <1>1 DEF IInv, KeepsLocks, NestedConnect, NestedReturn, Publish, NestedWait, PC
  <2> QED BY <2>1 DEF IInv, LockPart, HeldDisjoint
<1>2. ASSUME NEW c \in Caller, DropsLocks(c)
      PROVE  (\A d \in Caller : LockPart(d))' /\ HeldDisjoint'
  <2>1. /\ pc'[c] \in {"release", "committed"}
        /\ held'[c] = {}
        /\ \A d \in Caller \ {c} : pc'[d] = pc[d] /\ held'[d] = held[d]
        /\ UNCHANGED <<want, todo>>
    BY <1>2 DEF IInv, DropsLocks, RollBack, Commit, CommitUnacknowledged
  <2> QED BY <2>1 DEF IInv, LockPart, HeldDisjoint
<1>3. ASSUME NEW c \in Caller, NoLocks(c)
      PROVE  (\A d \in Caller : LockPart(d))' /\ HeldDisjoint'
  <2>1. /\ ~HasLocks(c) /\ pc'[c] \in {"done", "release", "idle", "connect"}
        /\ held' = held
        /\ todo'[c] \subseteq want'[c] /\ (pc'[c] = "connect" => todo'[c] = want'[c])
        /\ \A d \in Caller \ {c} : pc'[d] = pc[d] /\ want'[d] = want[d] /\ todo'[d] = todo[d]
    BY <1>3 DEF IInv, LockPart, NoLocks, ConnectTimeout, Dispatch, Release, Reset, Request
  <2> QED BY <2>1 DEF IInv, LockPart, HeldDisjoint
<1>4. ASSUME NEW c \in Caller, StartBody(c)
      PROVE  (\A d \in Caller : LockPart(d))' /\ HeldDisjoint'
  BY <1>4 DEF IInv, LockPart, HeldDisjoint, StartBody
<1>5. ASSUME NEW c \in Caller, NEW k \in Client, Connect(c, k)
      PROVE  (\A d \in Caller : LockPart(d))' /\ HeldDisjoint'
  BY <1>5 DEF IInv, LockPart, HeldDisjoint, Connect
<1>6. ASSUME NEW c \in Caller, NEW s \in LockSpec, Acquire(c, s)
      PROVE  (\A d \in Caller : LockPart(d))' /\ HeldDisjoint'
  <2>1. /\ pc[c] = "locking" /\ s \in todo[c] /\ s \in want[c]
        /\ \A u \in todo[c] : LockBefore(s, u)
        /\ \A d \in Caller \ {c} : LockNo(s) \notin held[d]
    BY <1>6 DEF IInv, LockPart, Acquire, NextLock, LockFree
  <2>2. /\ pc' = pc /\ want' = want
        /\ held' = [held EXCEPT ![c] = @ \cup {LockNo(s)}]
        /\ todo' = [todo EXCEPT ![c] = @ \ {s}]
    BY <1>6 DEF Acquire
  <2>3. HeldDisjoint'
    BY <2>1, <2>2 DEF IInv, HeldDisjoint
  <2>4. want[c] \ todo'[c] = (want[c] \ todo[c]) \cup {s}
    BY <2>1, <2>2 DEF IInv
  <2>5. held'[c] = {LockNo(u) : u \in want[c] \ todo'[c]}
    <3>1. held[c] = {LockNo(u) : u \in want[c] \ todo[c]}
      BY <2>1 DEF IInv, LockPart
    <3>2. held'[c] = held[c] \cup {LockNo(s)}
      BY <2>2 DEF IInv
    <3> QED BY <2>4, <3>1, <3>2
  <2>6. \A u \in want[c] \ todo'[c], t \in todo'[c] : LockBefore(u, t)
    BY <2>1, <2>2, <2>4 DEF IInv, LockPart
  <2>7. LockPart(c)'
    BY <2>1, <2>2, <2>5, <2>6 DEF IInv, LockPart
  <2>8. ASSUME NEW d \in Caller, d # c PROVE LockPart(d)'
    BY <2>2, <2>8 DEF IInv, LockPart
  <2> QED BY <2>3, <2>7, <2>8
<1>7. CASE Crash
  BY <1>7 DEF LockPart, HeldDisjoint, Crash
<1>8. CASE UNCHANGED vars
  BY <1>8 DEF IInv, LockPart, HeldDisjoint, vars
<1>9. TypeOK
  BY DEF IInv
<1> HIDE DEF TypeOK
<1> QED BY <1>1, <1>2, <1>3, <1>4, <1>5, <1>6, <1>7, <1>8, <1>9, NextCases

\* Events stay queued until the COMMIT answers, then go out together.
LEMMA EventStep ==
  ASSUME IInv, [Next]_vars
  PROVE  (\A c \in Caller : EventPart(c) /\ ClientPart(c))'
<1> USE DEF TypeOK, InCallback
<1>0. TypeOK
  BY DEF IInv
<1>1. ASSUME NEW c \in Caller,
             \/ \E L \in WantSets, m \in {"block", "try"} : Request(c, L, m)
             \/ \E k \in Client : Connect(c, k) \/ NestedConnect(c, k) \/ NestedReturn(c, k)
             \/ ConnectTimeout(c) \/ StartBody(c) \/ NestedWait(c) \/ Release(c)
      PROVE  (\A d \in Caller : EventPart(d) /\ ClientPart(d))'
  <2>1. /\ UNCHANGED <<published, pending, dispatched, outcome>>
        /\ \A d \in Caller \ {c} : pc'[d] = pc[d] /\ conn'[d] = conn[d]
    BY <1>1 DEF IInv, Request, Connect, NestedConnect, NestedReturn, ConnectTimeout,
                StartBody, NestedWait, Release
  <2>2. \A d \in Caller \ {c} : (EventPart(d) /\ ClientPart(d))'
    BY <2>1 DEF IInv, EventPart, ClientPart
  <2>3. (EventPart(c) /\ ClientPart(c))'
    BY <1>1 DEF IInv, EventPart, ClientPart, Request, Connect, NestedConnect, NestedReturn,
                ConnectTimeout, StartBody, NestedWait, Release
  <2> QED BY <2>2, <2>3
<1>2. ASSUME NEW c \in Caller,
             \/ RollBack(c) /\ (pc[c] = "locking" \/ InCallback(c))
             \/ Commit(c) \/ CommitUnacknowledged(c) \/ Dispatch(c)
      PROVE  (\A d \in Caller : EventPart(d) /\ ClientPart(d))'
  <2>1. /\ UNCHANGED <<published, conn>>
        /\ \A d \in Caller \ {c} : /\ pc'[d] = pc[d] /\ pending'[d] = pending[d]
                                  /\ dispatched'[d] = dispatched[d] /\ outcome'[d] = outcome[d]
    BY <1>2 DEF IInv, RollBack, Commit, CommitUnacknowledged, Dispatch
  <2>2. \A d \in Caller \ {c} : (EventPart(d) /\ ClientPart(d))'
    BY <2>1 DEF IInv, EventPart, ClientPart
  <2>3. (EventPart(c) /\ ClientPart(c))'
    <3>1. CASE RollBack(c) /\ (pc[c] = "locking" \/ InCallback(c))
      BY <3>1 DEF IInv, EventPart, ClientPart, RollBack
    <3>2. CASE Commit(c) \/ CommitUnacknowledged(c)
      BY <3>2 DEF IInv, EventPart, ClientPart, Commit, CommitUnacknowledged
    <3>3. CASE Dispatch(c)
      BY <3>3 DEF IInv, EventPart, ClientPart, Dispatch
    <3> QED BY <1>2, <3>1, <3>2, <3>3
  <2> QED BY <2>2, <2>3
<1>3. ASSUME NEW c \in Caller, NEW e \in Event, Publish(c, e)
      PROVE  (\A d \in Caller : EventPart(d) /\ ClientPart(d))'
  <2>1. /\ UNCHANGED <<pc, conn, dispatched, outcome>>
        /\ published'[c] = published[c] \cup {e} /\ pending'[c] = pending[c] \cup {e}
        /\ \A d \in Caller \ {c} : published'[d] = published[d] /\ pending'[d] = pending[d]
    BY <1>3 DEF IInv, Publish
  <2>2. \A d \in Caller \ {c} : (EventPart(d) /\ ClientPart(d))'
    BY <2>1 DEF IInv, EventPart, ClientPart
  <2>3. pc[c] = "body" /\ InCallback(c) /\ pending[c] = published[c] /\ dispatched[c] = {}
        /\ outcome[c] = "none"
    BY <1>3 DEF IInv, EventPart, Publish
  <2>4. (EventPart(c) /\ ClientPart(c))'
    BY <2>1, <2>3 DEF EventPart, ClientPart
  <2> QED BY <2>2, <2>4
<1>4. ASSUME NEW c \in Caller, Reset(c)
      PROVE  (\A d \in Caller : EventPart(d) /\ ClientPart(d))'
  BY <1>4 DEF IInv, EventPart, ClientPart, Reset
<1>5. ASSUME NEW c \in Caller, NEW s \in todo[c], Acquire(c, s)
      PROVE  (\A d \in Caller : EventPart(d) /\ ClientPart(d))'
  BY <1>5 DEF IInv, EventPart, ClientPart, Acquire
<1>6. CASE Crash
  BY <1>6 DEF EventPart, ClientPart, Crash
<1>7. CASE UNCHANGED vars
  BY <1>7 DEF IInv, EventPart, ClientPart, vars
<1>8. ASSUME NEW c \in Caller, Step(c)
      PROVE  (\A d \in Caller : EventPart(d) /\ ClientPart(d))'
  <2>1. ASSUME NEW s \in todo[c], TryLockFails(c, s) \/ LockTimeout(c, s)
        PROVE  RollBack(c) /\ pc[c] = "locking"
    BY <2>1 DEF TryLockFails, LockTimeout
  <2>2. ASSUME NestedTimeout(c) \/ Fail(c)
        PROVE  RollBack(c) /\ InCallback(c)
    BY <2>2 DEF NestedTimeout, Fail
  <2> HIDE DEF TypeOK, InCallback
  <2> QED BY <1>1, <1>2, <1>3, <1>5, <1>8, <2>1, <2>2 DEF Step
<1> HIDE DEF TypeOK, InCallback
<1> QED BY <1>1, <1>4, <1>6, <1>7, <1>8 DEF Next

THEOREM Invariance == Spec => []IInv
<1>1. Init => IInv
  BY MaxNestedAssumption
     DEF Init, IInv, TypeOK, PC, Outcome, LockPart, HasLocks, InCallback, EventPart,
         ClientPart, HeldDisjoint
<1>2. TypeOK' /\ IInv /\ [Next]_vars => IInv'
  BY LockStep, EventStep DEF IInv
<1> QED BY <1>1, <1>2, TypeInvariant, PTL DEF Spec

-----------------------------------------------------------------------------
(* The properties                                                          *)

\* Callbacks whose calls name a common lock never overlap: each holds the
\* numbers of all the locks it named, and a number has one holder.
THEOREM MutualExclusion == Spec => []BodiesExclusive
<1>1. IInv => BodiesExclusive
  <2> SUFFICES ASSUME IInv, NEW c \in Caller, NEW d \in Caller, c # d,
                      InCallback(c), InCallback(d), NEW s \in want[c] \cap want[d]
               PROVE  FALSE
    BY DEF BodiesExclusive
  <2>1. ASSUME NEW b \in Caller, InCallback(b), s \in want[b]
        PROVE  LockNo(s) \in held[b]
    BY <2>1 DEF IInv, LockPart, HasLocks
  <2>2. LockNo(s) \in held[c] \cap held[d]
    BY <2>1
  <2> QED BY <2>2 DEF IInv, HeldDisjoint
<1> QED BY <1>1, Invariance, PTL

\* Events follow the outcome of their transaction.
THEOREM EventDelivery == Spec => []EventsFollowOutcome
<1>1. IInv => EventsFollowOutcome
  BY DEF IInv, EventPart, EventsFollowOutcome
<1> QED BY <1>1, Invariance, PTL

\* A finished call keeps nothing.
THEOREM Cleanup == Spec => []NothingLeaks
<1>1. IInv => NothingLeaks
  BY DEF IInv, LockPart, HasLocks, InCallback, EventPart, ClientPart, NothingLeaks
<1> QED BY <1>1, Invariance, PTL

\* A nonempty set of naturals with an upper bound has a greatest element.
LEMMA GreatestNatural ==
  ASSUME NEW b \in Nat, NEW T \in SUBSET Nat, T # {}, \A x \in T : x <= b
  PROVE  \E x \in T : \A y \in T : y <= x
<1>. DEFINE D == {b - x : x \in T}
            R == {p \in Nat \X Nat : p[1] < p[2]}
<1>1. D \subseteq Nat /\ D # {}
  <2>. SUFFICES ASSUME NEW x \in T PROVE b - x \in Nat
    OBVIOUS
  <2>1. x \in Nat /\ x <= b
    OBVIOUS
  <2>. QED BY <2>1
<1>2. IsWellFoundedOn(R, Nat)
  BY NatLessThanWellFounded DEF OpToRel
<1>3. PICK e \in D : \A y \in D : ~(<<y, e>> \in R)
  <2>. HIDE DEF D, R
  <2>. QED BY <1>1, <1>2, WFMin
<1>4. PICK x \in T : e = b - x
  OBVIOUS
<1>5. ASSUME NEW y \in T PROVE y <= x
  <2>1. b - y \in D /\ ~(b - y < e)
    BY <1>1, <1>3
  <2>2. x \in Int /\ y \in Int /\ b \in Int
    OBVIOUS
  <2>. HIDE DEF D, R
  <2>. QED BY <1>4, <2>1, <2>2
<1>. QED BY <1>5

\* A caller that waits for another one asks for a number above all it holds.
LEMMA WaitsUpward ==
  ASSUME IInv, NEW c \in Caller, NEW d \in Caller, WaitsFor(c, d)
  PROVE  \E s \in LockSpec : /\ NextLock(c, s) /\ LockNo(s) \in held[d]
                            /\ \A n \in held[c] : n < LockNo(s)
<1>1. PICK s \in todo[c] : NextLock(c, s) /\ LockNo(s) \in held[d]
  BY DEF WaitsFor
<1>2. s \in LockSpec /\ want[c] \subseteq LockSpec /\ todo[c] \subseteq LockSpec
  BY DEF IInv, TypeOK
<1>3. ASSUME NEW n \in held[c] PROVE n < LockNo(s)
  <2>1. PICK u \in want[c] \ todo[c] : n = LockNo(u)
    BY DEF IInv, LockPart, HasLocks, WaitsFor
  <2>2. LockBefore(u, s) /\ u # s
    BY <1>1, <2>1 DEF IInv, LockPart, WaitsFor
  <2>3. LockNo(u) <= LockNo(s) /\ LockNo(u) # LockNo(s) /\ LockNo(u) \in Nat /\ LockNo(s) \in Nat
    BY <1>2, <2>2, LockNumbers
  <2> QED BY <2>1, <2>3
<1> QED BY <1>1, <1>2, <1>3

\* Advisory locks cannot deadlock.  In a set of callers each waiting for
\* another, let c wait for the greatest number; whoever holds it waits for a
\* number above it.
THEOREM DeadlockFreedom == Spec => []NoWaitCycle
<1>1. IInv => NoWaitCycle
  <2> SUFFICES ASSUME IInv, NEW S \in SUBSET Caller, S # {},
                      \A c \in S : \E d \in S : WaitsFor(c, d)
               PROVE  FALSE
    BY DEF NoWaitCycle
  <2> DEFINE Wanted(c, s) == s \in LockSpec /\ NextLock(c, s)
                               /\ \A n \in held[c] : n < LockNo(s)
             T == {LockNo(s) : s \in {u \in LockSpec : \E c, d \in S : Wanted(c, u) /\ LockNo(u) \in held[d]}}
  <2>1. \A c \in S : \E d \in S, s \in LockSpec : Wanted(c, s) /\ LockNo(s) \in held[d]
    BY WaitsUpward
  <2>2. T \in SUBSET Nat /\ \A n \in T : n <= 12 * NamespaceWidth
    BY LockNumbers
  <2>3. T # {}
    BY <2>1
  <2>4. 12 * NamespaceWidth \in Nat
    BY NamespaceAssumption
  <2>5. PICK n \in T : \A m \in T : m <= n
    <3> HIDE DEF T
    <3> QED BY <2>2, <2>3, <2>4, GreatestNatural
  <2>6. PICK d \in S : n \in held[d]
    BY <2>5
  <2>7. PICK e \in S, s \in LockSpec : Wanted(d, s) /\ LockNo(s) \in held[e]
    BY <2>1
  <2>8. n < LockNo(s) /\ LockNo(s) \in T
    BY <2>6, <2>7
  <2>9. n \in Nat /\ LockNo(s) \in Nat
    BY <2>2, <2>8
  <2> QED BY <2>5, <2>8, <2>9
<1> QED BY <1>1, Invariance, PTL

-----------------------------------------------------------------------------
(* The idempotency middleware                                              *)

\* Looser than TypeOK of Idempotency, which would need the stages too.
Row == [status : {"pending", "none"} \union Key!Answered, age : 0..2]

-----------------------------------------------------------------------------
(* A replayed success is real: whatever may carry a success - a row, a      *)
(* query on its way, a handler's result - implies a committed one.         *)

Types ==
  /\ row \in Row \union {NoRow}
  /\ effects \in Nat
  /\ told \in BOOLEAN
  /\ result \in [Key!Attempt -> {"none"} \union Key!Answered]
  /\ sent \subseteq [by : Key!Attempt, query : Key!Query, status : Key!Answered \union {"none"}]

RowIsReal == Key!Exists /\ row.status = "ok" => effects > 0
SentIsReal == \A w \in sent : w.status = "ok" => effects > 0
ResultIsReal == \A a \in Key!Attempt : result[a] = "ok" => effects > 0

RealInv == Types /\ RowIsReal /\ SentIsReal /\ ResultIsReal /\ Key!ReplayedSuccessIsReal

LEMMA RealInit == Key!Init => RealInv
<1>. SUFFICES ASSUME Key!Init PROVE RealInv
  OBVIOUS
<1>1. Types
  BY DEF Key!Init, Types
<1>2. RowIsReal /\ SentIsReal /\ ResultIsReal /\ Key!ReplayedSuccessIsReal
  BY DEF Key!Init, RowIsReal, SentIsReal, ResultIsReal, Key!ReplayedSuccessIsReal, Key!Exists
<1>. QED BY <1>1, <1>2 DEF RealInv

\* The wrapped answers carry what the handler has made of the request.
LEMMA RealStep == RealInv /\ [Key!Next]_keyVars => RealInv'
<1>. SUFFICES ASSUME RealInv, [Key!Next]_keyVars PROVE RealInv'
  OBVIOUS
<1>. USE DEF RealInv, Types, RowIsReal, SentIsReal, ResultIsReal, Key!ReplayedSuccessIsReal
<1>1. ASSUME NEW a \in Key!Attempt, Key!Claim(a) \/ Key!Reclaim(a) PROVE RealInv'
  BY <1>1 DEF Key!Claim, Key!Reclaim, Key!Insert, Key!Exists, Key!NewRow, Row, Key!Go
<1>2. ASSUME NEW a \in Key!Attempt, Key!Look(a) \/ Key!Recheck(a) PROVE RealInv'
  <2>1. UNCHANGED <<row, result, effects, sent>>
    BY <1>2 DEF Key!Look, Key!Recheck, Key!EndWith
  <2>2. CASE UNCHANGED told
    BY <2>1, <2>2 DEF Key!Exists
  <2>3. CASE \E what : told' = (told \/ what = "ok") /\ (what = "ok" => Key!Completed /\ row.status = "ok")
    BY <2>1, <2>3 DEF Key!Exists, Key!Completed
  <2>4. UNCHANGED told \/ \E what : told' = (told \/ what = "ok") /\ (what = "ok" => Key!Completed /\ row.status = "ok")
    <3>1. CASE Key!Look(a)
      BY <3>1 DEF Key!Look, Key!EndWith
    <3>2. CASE Key!Recheck(a)
      BY <3>2, Zenon DEF Key!Recheck, Key!EndWith
    <3>. QED BY <1>2, <3>1, <3>2
  <2>. QED BY <2>2, <2>3, <2>4
<1>3. ASSUME NEW a \in Key!Attempt, Key!Clean(a) \/ Key!PassThrough(a) PROVE RealInv'
  BY <1>3 DEF Key!Clean, Key!PassThrough, Key!Exists
<1>4. ASSUME NEW a \in Key!Attempt, Key!Work(a) PROVE RealInv'
  BY <1>4 DEF Key!Work, Key!Exists, Key!Answered
<1>5. ASSUME NEW a \in Key!Attempt, Key!Answer(a) \/ Key!Finish(a) PROVE RealInv'
  <2>1. UNCHANGED <<row, effects>>
    BY <1>5 DEF Key!Answer, Key!Finish
  <2>2. result' = result \/ result' = [result EXCEPT ![a] = "none"]
    BY <1>5 DEF Key!Answer, Key!Finish, Key!End
  <2>3. told' \in BOOLEAN /\ (told' => told \/ result[a] = "ok")
    BY <1>5 DEF Key!Answer, Key!Finish, Key!End
  <2>4. sent' = sent \/ \E q \in Key!Query : Key!Issue(a, q)
    BY <1>5 DEF Key!Answer, Key!Finish, Key!Query
  <2>5. Types' /\ ResultIsReal' /\ Key!ReplayedSuccessIsReal' /\ RowIsReal'
    <3>1. result[a] \in Key!Answered \union {"none"}
      OBVIOUS
    <3>2. sent' \subseteq [by : Key!Attempt, query : Key!Query, status : Key!Answered \union {"none"}]
      BY <2>4, <3>1 DEF Key!Issue
    <3>. QED BY <2>1, <2>2, <2>3, <3>2 DEF Key!Exists
  <2>6. SentIsReal'
    BY <2>1, <2>4 DEF Key!Issue
  <2>. QED BY <2>1, <2>5, <2>6
<1>6. ASSUME NEW a \in Key!Attempt, Key!Close(a) PROVE RealInv'
  BY <1>6 DEF Key!Close, Key!Exists, Key!Answered, Key!Query
<1>7. ASSUME NEW w \in sent, Key!Run(w) PROVE RealInv'
  <2>1. UNCHANGED <<result, effects, told>> /\ sent' \subseteq sent
    BY <1>7 DEF Key!Run
  <2>2. row' = row \/ row' = NoRow \/ (Key!Exists /\ row' = [row EXCEPT !.status = w.status])
    BY <1>7 DEF Key!Run, Key!Written, Key!Pending
  <2>3. w.status \in Key!Answered \union {"none"} /\ (w.status = "ok" => effects > 0)
    OBVIOUS
  <2>. QED BY <2>1, <2>2, <2>3 DEF Key!Exists, Row
<1>8. CASE Key!Crash
  BY <1>8 DEF Key!Crash, Key!Exists
<1>9. CASE Key!Elapse \/ Key!Cleanup
  BY <1>9 DEF Key!Elapse, Key!Cleanup, Key!Exists, Row
<1>10. CASE UNCHANGED keyVars
  BY <1>10 DEF keyVars, Key!Exists
<1>. QED BY <1>1, <1>2, <1>3, <1>4, <1>5, <1>6, <1>7, <1>8, <1>9, <1>10 DEF Key!Next

-----------------------------------------------------------------------------
(* Once: while nothing is disturbed, the row of the first attempt stays, so *)
(* that no second one is ever let through.                                 *)

NotStarted == effects = 0 /\ sent = {} /\ stage = [a \in Key!Attempt |-> "unsent"]
RowStays ==
  /\ IF Key!Exists THEN row.age < 2 /\ (Key!Pending => row.age = 0) ELSE NotStarted
  /\ \A w \in sent : w.query \in {"store", "finish"}
OneRuns ==
  /\ \A a \in Key!Attempt : stage[a] \in {"unsent", "look", "running", "worked", "ending", "done"}
  /\ \A a, b \in Key!Attempt : stage[a] = "running" /\ stage[b] = "running" => a = b
  /\ \A a \in Key!Attempt : stage[a] = "running" => effects = 0 /\ a \in claimed
  /\ effects <= 1

Calm == RowStays /\ OneRuns
OnceInv == RealInv /\ stage \in [Key!Attempt -> Key!Stage] /\ (disturbed \/ Calm)

\* The types alone, for the steps of a call that is disturbed.
LEMMA StageType ==
  ASSUME stage \in [Key!Attempt -> Key!Stage], [Key!Next]_keyVars
  PROVE  stage' \in [Key!Attempt -> Key!Stage]
<1>. USE DEF Key!Stage, Key!Go
<1>1. ASSUME NEW a \in Key!Attempt,
             Key!Claim(a) \/ Key!Look(a) \/ Key!Clean(a) \/ Key!Reclaim(a) \/ Key!Recheck(a) \/ Key!PassThrough(a)
      PROVE  stage' \in [Key!Attempt -> Key!Stage]
  BY <1>1 DEF Key!Claim, Key!Look, Key!Clean, Key!Reclaim, Key!Recheck, Key!PassThrough, Key!Insert, Key!EndWith
<1>2. ASSUME NEW a \in Key!Attempt, Key!Work(a) \/ Key!Answer(a) \/ Key!Finish(a) \/ Key!Close(a)
      PROVE  stage' \in [Key!Attempt -> Key!Stage]
  BY <1>2 DEF Key!Work, Key!Answer, Key!Finish, Key!Close, Key!End
<1>3. CASE \E w \in sent : Key!Run(w)
  BY <1>3 DEF Key!Run
<1>4. CASE Key!Crash
  BY <1>4 DEF Key!Crash
<1>5. CASE Key!Elapse \/ Key!Cleanup \/ UNCHANGED keyVars
  BY <1>5 DEF Key!Elapse, Key!Cleanup, keyVars
<1>. QED BY <1>1, <1>2, <1>3, <1>4, <1>5 DEF Key!Next

\* A step that disturbs nothing leaves a calm call calm.
LEMMA CalmStep ==
  ASSUME NoRow \notin Row, RealInv, stage \in [Key!Attempt -> Key!Stage],
         Calm, [Key!Next]_keyVars, ~disturbed'
  PROVE  Calm'
<1>. USE DEF Calm, RowStays, OneRuns, NotStarted
<1>0. row \in Row \union {NoRow} 
  BY DEF RealInv, Types
<1>1. ASSUME NEW a \in Key!Attempt, Key!Claim(a) PROVE Calm'
  <2>1. CASE Key!Exists
    BY <1>1, <2>1 DEF Key!Claim, Key!Insert, Key!Exists, Key!Pending, Key!Go
  <2>2. CASE ~Key!Exists
    BY <1>1, <2>2 DEF Key!Claim, Key!Insert, Key!Exists, Key!Pending, Key!Go, Key!NewRow, Row, Key!Answered
  <2>. QED BY <2>1, <2>2
<1>2. ASSUME NEW a \in Key!Attempt, Key!Look(a) PROVE Calm'
  BY <1>2 DEF Key!Look, Key!EndWith, Key!Go, Key!Exists, Key!Pending, Key!Expired
<1>3. ASSUME NEW a \in Key!Attempt, Key!Clean(a) \/ Key!Reclaim(a) \/ Key!Recheck(a) \/ Key!PassThrough(a) PROVE Calm'
  BY <1>3 DEF Key!Clean, Key!Reclaim, Key!Recheck, Key!PassThrough
<1>4. ASSUME NEW a \in Key!Attempt, Key!Work(a) PROVE Calm'
  <2>1. effects = 0 /\ Key!Exists /\ Key!Exists' /\ UNCHANGED <<row, claimed, sent>>
    BY <1>4 DEF Key!Work, Key!Exists
  <2>2. effects' <= 1 /\ stage' = [stage EXCEPT ![a] = "worked"]
    BY <1>4, <2>1 DEF Key!Work, Key!Go
  <2>. QED BY <1>4, <2>1, <2>2 DEF Key!Pending, Key!Work
<1>5. ASSUME NEW a \in Key!Attempt, Key!Answer(a) \/ Key!Finish(a) PROVE Calm'
  BY <1>5 DEF Key!Answer, Key!Finish, Key!End, Key!Issue, Key!Go, Key!Exists, Key!Pending
<1>6. ASSUME NEW a \in Key!Attempt, Key!Close(a) PROVE Calm'
  BY <1>6 DEF Key!Close, Key!Go, Key!Exists, Key!Pending
<1>7. ASSUME NEW w \in sent, Key!Run(w) PROVE Calm'
  <2>1. Key!Exists /\ w.status \in Key!Answered \union {"none"} /\ w.query \in {"store", "finish"}
    BY DEF RealInv, Types
  <2>2. row' = row \/ row' = [row EXCEPT !.status = w.status]
    BY <1>7, <2>1 DEF Key!Run, Key!Written
  <2>3. row' \in Row /\ row'.age = row.age
    BY <1>0, <2>1, <2>2 DEF Key!Exists, Row, Key!Answered
  <2>4. Key!Exists' /\ (Key!Pending' => Key!Pending)
    BY <2>1, <2>2, <2>3, <1>0 DEF Key!Exists, Key!Pending, Row, Key!Answered
  <2>. QED BY <1>7, <2>1, <2>3, <2>4 DEF Key!Run
<1>8. CASE Key!Crash
  <2>1. PICK a \in Key!Attempt : stage[a] \notin {"unsent", "done"}
    BY <1>8 DEF Key!Crash
  <2>2. Key!Exists /\ Key!Exists' /\ UNCHANGED <<row, effects>> /\ sent' = {}
    BY <1>8, <2>1 DEF Key!Crash, Key!Exists
  <2>3. \A b \in Key!Attempt : stage'[b] \in {"unsent", "done"}
    BY <1>8 DEF Key!Crash
  <2>. QED BY <2>2, <2>3 DEF Key!Pending
<1>9. CASE Key!Elapse
  <2>1. Key!Exists /\ ~Key!Pending /\ row \in Row /\ row.age # 1 /\ row.age < 2
    BY <1>0, <1>9 DEF Key!Elapse, Key!Exists
  <2>2. row' \in Row /\ row'.age = 1 /\ row'.status = row.status
    BY <1>9, <2>1 DEF Key!Elapse, Row
  <2>. QED BY <1>9, <2>1, <2>2 DEF Key!Elapse, Key!Exists, Key!Pending
<1>10. CASE Key!Cleanup
  BY <1>10 DEF Key!Cleanup, Key!Expired
<1>11. CASE UNCHANGED keyVars
  BY <1>11 DEF keyVars, Key!Exists, Key!Pending
<1>. QED BY <1>1, <1>2, <1>3, <1>4, <1>5, <1>6, <1>7, <1>8, <1>9, <1>10, <1>11 DEF Key!Next

LEMMA StaysDisturbed == disturbed /\ [Key!Next]_keyVars => disturbed'
<1>. SUFFICES ASSUME disturbed, [Key!Next]_keyVars PROVE disturbed'
  OBVIOUS
<1>1. ASSUME NEW a \in Key!Attempt,
             Key!Claim(a) \/ Key!Look(a) \/ Key!Clean(a) \/ Key!Reclaim(a) \/ Key!Recheck(a) \/ Key!PassThrough(a)
      PROVE  disturbed'
  BY <1>1 DEF Key!Claim, Key!Look, Key!Clean, Key!Reclaim, Key!Recheck, Key!PassThrough, Key!EndWith
<1>2. ASSUME NEW a \in Key!Attempt, Key!Work(a) \/ Key!Answer(a) \/ Key!Finish(a) \/ Key!Close(a)
      PROVE  disturbed'
  BY <1>2 DEF Key!Work, Key!Answer, Key!Finish, Key!Close
<1>3. CASE \E w \in sent : Key!Run(w)
  BY <1>3 DEF Key!Run
<1>4. CASE Key!Crash \/ Key!Elapse \/ Key!Cleanup \/ UNCHANGED keyVars
  BY <1>4 DEF Key!Crash, Key!Elapse, Key!Cleanup, keyVars
<1>. QED BY <1>1, <1>2, <1>3, <1>4 DEF Key!Next

-----------------------------------------------------------------------------
(* Requests: middleware and runners leave each other alone.                *)

LEMMA OnceStep == OnceInv /\ [RequestsNext]_<<part, vars, keyVars>> => OnceInv'
<1>. SUFFICES ASSUME OnceInv, [RequestsNext]_<<part, vars, keyVars>> PROVE OnceInv'
  OBVIOUS
<1>1. [Key!Next]_keyVars
  BY DEF RequestsNext
<1>2. NoRow \notin Row
  BY NoRowAssumption DEF Row, Key!Answered
<1>. QED BY <1>1, <1>2, RealStep, StageType, CalmStep, StaysDisturbed DEF OnceInv

LEMMA OnceInvariance == RequestsSpec => []OnceInv
<1>1. RequestsInit => OnceInv
  <2>. SUFFICES ASSUME Key!Init PROVE OnceInv
    BY DEF RequestsInit
  <2>1. RealInv
    BY RealInit
  <2>2. stage \in [Key!Attempt -> Key!Stage]
    BY DEF Key!Init, Key!Stage
  <2>3. Calm
    BY DEF Key!Init, Calm, RowStays, OneRuns, NotStarted, Key!Exists
  <2>. QED BY <2>1, <2>2, <2>3 DEF OnceInv
<1>. QED BY <1>1, OnceStep, PTL DEF RequestsSpec

\* A client that is told "done" by a stored answer can rely on it, whoever's
\* row the answer was stored in (idempotency.middleware).
THEOREM ReplayIsReal == RequestsSpec => []ReplayedSuccessIsReal
<1>. OnceInv => ReplayedSuccessIsReal
  BY DEF OnceInv, RealInv, ReplayedSuccessIsReal
<1>. QED BY OnceInvariance, PTL

\* However many attempts of one call there are and however their queries
\* interleave, its work is committed once, unless a handler takes longer than
\* 30 seconds, a client hangs up, an answer is too large to store, a query of
\* the middleware fails or 24 hours pass (idempotency.middleware).
THEOREM OnceWhileCalm == RequestsSpec => []OnceUnlessDisturbed
<1>. OnceInv => OnceUnlessDisturbed
  BY DEF OnceInv, Calm, OneRuns, OnceUnlessDisturbed, Key!OnceUnlessDisturbed
<1>. QED BY OnceInvariance, PTL

\* Nor does the middleware touch the runners: what holds of them alone holds
\* of every request.
THEOREM RunnersUndisturbed == RequestsSpec => Spec
<1>1. RequestsInit => Init
  BY DEF RequestsInit
<1>2. [RequestsNext]_<<part, vars, keyVars>> => [Next]_vars
  BY DEF RequestsNext
<1>. QED BY <1>1, <1>2, PTL DEF RequestsSpec, Spec
=============================================================================
