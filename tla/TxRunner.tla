------------------------------ MODULE TxRunner ------------------------------
(***************************************************************************)
(* The transaction runners of src/shared: a caller takes a client from the *)
(* pool, BEGINs, takes its advisory locks in (domain, id) order, runs its  *)
(* callback, COMMITs, dispatches the domain events the callback queued and *)
(* gives the client back; any error discards the events and rolls back.    *)
(* Operators whose name ends in _Faulty are wrong on purpose: the mutation *)
(* tests put them in the place of the operator they precede.               *)
(*                                                                         *)
(* A lock request is a specification [domain, id]; PostgreSQL only sees    *)
(* the number LockNo computes from it, and a session waits when another    *)
(* session holds that number.                                              *)
(***************************************************************************)
EXTENDS Integers, FiniteSets

CONSTANTS Caller,      \* concurrent requests and job ticks of one process
          Client,      \* the connections of the pg pool
          WantSets,    \* the sets of lock specifications callers ask for
          Event,       \* the domain events a callback may publish
          MaxNested,   \* bound: pool queries a callback issues
          NamespaceWidth   \* ids per lock domain: 100 million in the code

Domain == {1, 2, 3, 4, 5, 6, 7, 9, 10, 11}

LockSpec == [domain : Domain, id : 0 .. NamespaceWidth - 1]

ASSUME NamespaceAssumption == NamespaceWidth \in Nat \ {0}
ASSUME WantSetsAssumption == WantSets \subseteq SUBSET LockSpec
ASSUME MaxNestedAssumption == MaxNested \in Nat

VARIABLES
  pc,          \* where each caller stands in the runner
  mode,        \* "block": runWithLock(s) and runInTransaction; "try": runWithTryLock
  want,        \* the distinct lock specifications of the call
  todo,        \* those not yet acquired
  conn,        \* the pool clients the caller has checked out
  held,        \* the advisory lock numbers its transaction holds
  nested,      \* pool queries its callback has issued so far
  published,   \* events its callback has published
  pending,     \* the pendingEvents of its AsyncLocalStorage context
  dispatched,  \* events handed to the subscribers
  outcome      \* what the database made of the transaction

vars == <<pc, mode, want, todo, conn, held, nested,
          published, pending, dispatched, outcome>>

PC == {"idle", "connect", "locking", "body", "nestedWait", "nestedQuery",
       "committed", "release", "done"}

Outcome == {"none", "committed", "unacknowledged", "aborted"}

TypeOK ==
  /\ pc \in [Caller -> PC]
  /\ mode \in [Caller -> {"block", "try"}]
  /\ want \in [Caller -> SUBSET LockSpec]
  /\ todo \in [Caller -> SUBSET LockSpec]
  /\ conn \in [Caller -> SUBSET Client]
  /\ held \in [Caller -> SUBSET Nat]
  /\ nested \in [Caller -> 0 .. MaxNested]
  /\ published \in [Caller -> SUBSET Event]
  /\ pending \in [Caller -> SUBSET Event]
  /\ dispatched \in [Caller -> SUBSET Event]
  /\ outcome \in [Caller -> Outcome]

-----------------------------------------------------------------------------
(* Lock numbers and lock order                                             *)

\* getLockId.
LockNo(s) == s.domain * NamespaceWidth + s.id

\* The comparator every runner sorts with.
LockBefore(s, u) == s.domain < u.domain \/ (s.domain = u.domain /\ s.id <= u.id)

\* Locks are taken in the order in which the caller happened to list them.
NextLock_Faulty(c, s) == s \in todo[c]

\* The lock the for-loop over the sorted, deduplicated list asks for next.
NextLock(c, s) == s \in todo[c] /\ \A u \in todo[c] : LockBefore(s, u)

LockFree(c, s) == \A d \in Caller \ {c} : LockNo(s) \notin held[d]

FreeClients == {k \in Client : \A c \in Caller : k \notin conn[c]}

-----------------------------------------------------------------------------
Init ==
  /\ pc = [c \in Caller |-> "idle"]
  /\ mode = [c \in Caller |-> "block"]
  /\ want = [c \in Caller |-> {}]
  /\ todo = [c \in Caller |-> {}]
  /\ conn = [c \in Caller |-> {}]
  /\ held = [c \in Caller |-> {}]
  /\ nested = [c \in Caller |-> 0]
  /\ published = [c \in Caller |-> {}]
  /\ pending = [c \in Caller |-> {}]
  /\ dispatched = [c \in Caller |-> {}]
  /\ outcome = [c \in Caller |-> "none"]

\* A handler or a job calls one of the runners: `await pool.connect()`.
Request(c, L, m) ==
  /\ pc[c] = "idle"
  /\ m = "try" => \E s \in L : L = {s}
  /\ pc' = [pc EXCEPT ![c] = "connect"]
  /\ mode' = [mode EXCEPT ![c] = m]
  /\ want' = [want EXCEPT ![c] = L]
  /\ todo' = [todo EXCEPT ![c] = L]
  /\ UNCHANGED <<conn, held, nested, published, pending, dispatched, outcome>>

\* The pool has a client: an empty event context is entered and BEGIN runs.
Connect(c, k) ==
  /\ pc[c] = "connect"
  /\ k \in FreeClients
  /\ conn' = [conn EXCEPT ![c] = {k}]
  /\ pc' = [pc EXCEPT ![c] = "locking"]
  /\ UNCHANGED <<mode, want, todo, held, nested, published, pending, dispatched, outcome>>

\* connectionTimeoutMillis passes: connect() rejects before the try block.
ConnectTimeout(c) ==
  /\ pc[c] = "connect"
  /\ FreeClients = {}
  /\ pc' = [pc EXCEPT ![c] = "done"]
  /\ UNCHANGED <<mode, want, todo, conn, held, nested, published, pending, dispatched, outcome>>

\* pg_advisory_xact_lock, or a pg_try_advisory_xact_lock that succeeds.
Acquire(c, s) ==
  /\ pc[c] = "locking"
  /\ NextLock(c, s)
  /\ LockFree(c, s)
  /\ held' = [held EXCEPT ![c] = @ \cup {LockNo(s)}]
  /\ todo' = [todo EXCEPT ![c] = @ \ {s}]
  /\ UNCHANGED <<pc, mode, want, conn, nested, published, pending, dispatched, outcome>>

\* The loop over the locks is not awaited.
StartBody_Faulty(c) ==
  /\ pc[c] = "locking"
  /\ pc' = [pc EXCEPT ![c] = "body"]
  /\ UNCHANGED <<mode, want, todo, conn, held, nested, published, pending, dispatched, outcome>>

\* All locks are held: the callback starts.
StartBody(c) ==
  /\ pc[c] = "locking"
  /\ todo[c] = {}
  /\ pc' = [pc EXCEPT ![c] = "body"]
  /\ UNCHANGED <<mode, want, todo, conn, held, nested, published, pending, dispatched, outcome>>

\* What every path out of the try block that does not commit has in common:
\* pending events are dropped and ROLLBACK releases the transaction's locks.
RollBack(c) ==
  /\ pc' = [pc EXCEPT ![c] = "release"]
  /\ pending' = [pending EXCEPT ![c] = {}]
  /\ held' = [held EXCEPT ![c] = {}]
  /\ outcome' = [outcome EXCEPT ![c] = "aborted"]
  /\ UNCHANGED <<mode, want, todo, conn, nested, published, dispatched>>

\* The lock is taken by another session and the call was a try-lock.
TryLockFails(c, s) ==
  /\ pc[c] = "locking"
  /\ mode[c] = "try"
  /\ NextLock(c, s)
  /\ ~LockFree(c, s)
  /\ RollBack(c)

\* statement_timeout cancels a pg_advisory_xact_lock that has waited 30 s.
LockTimeout(c, s) ==
  /\ pc[c] = "locking"
  /\ mode[c] = "block"
  /\ NextLock(c, s)
  /\ ~LockFree(c, s)
  /\ RollBack(c)

\* publish() outside the transaction's async context: dispatched at once.
Publish_Faulty(c, e) ==
  /\ pc[c] = "body"
  /\ e \notin published[c]
  /\ published' = [published EXCEPT ![c] = @ \cup {e}]
  /\ dispatched' = [dispatched EXCEPT ![c] = @ \cup {e}]
  /\ UNCHANGED <<pc, mode, want, todo, conn, held, nested, pending, outcome>>

\* The callback publishes an event: it is queued on the transaction context.
Publish(c, e) ==
  /\ pc[c] = "body"
  /\ e \notin published[c]
  /\ published' = [published EXCEPT ![c] = @ \cup {e}]
  /\ pending' = [pending EXCEPT ![c] = @ \cup {e}]
  /\ UNCHANGED <<pc, mode, want, todo, conn, held, nested, dispatched, outcome>>

\* The callback reads through the pool instead of through its own client.
NestedWait(c) ==
  /\ pc[c] = "body"
  /\ nested[c] < MaxNested
  /\ nested' = [nested EXCEPT ![c] = @ + 1]
  /\ pc' = [pc EXCEPT ![c] = "nestedWait"]
  /\ UNCHANGED <<mode, want, todo, conn, held, published, pending, dispatched, outcome>>

NestedConnect(c, k) ==
  /\ pc[c] = "nestedWait"
  /\ k \in FreeClients
  /\ conn' = [conn EXCEPT ![c] = @ \cup {k}]
  /\ pc' = [pc EXCEPT ![c] = "nestedQuery"]
  /\ UNCHANGED <<mode, want, todo, held, nested, published, pending, dispatched, outcome>>

\* The pool takes the second client back when the query has answered.
NestedReturn(c, k) ==
  /\ pc[c] = "nestedQuery"
  /\ k \in conn[c]
  /\ conn' = [conn EXCEPT ![c] = {k}]
  /\ pc' = [pc EXCEPT ![c] = "body"]
  /\ UNCHANGED <<mode, want, todo, held, nested, published, pending, dispatched, outcome>>

\* A pool without connectionTimeoutMillis waits for ever.
NestedTimeout_Faulty(c) == FALSE /\ UNCHANGED vars

\* No client within connectionTimeoutMillis: the callback's query rejects.
NestedTimeout(c) ==
  /\ pc[c] = "nestedWait"
  /\ FreeClients = {}
  /\ RollBack(c)

\* The callback throws, or COMMIT is refused.
Fail(c) ==
  /\ pc[c] = "body"
  /\ RollBack(c)

\* COMMIT succeeds; its locks are released before the events go out.
Commit(c) ==
  /\ pc[c] = "body"
  /\ pc' = [pc EXCEPT ![c] = "committed"]
  /\ held' = [held EXCEPT ![c] = {}]
  /\ outcome' = [outcome EXCEPT ![c] = "committed"]
  /\ UNCHANGED <<mode, want, todo, conn, nested, published, pending, dispatched>>

\* The database commits but the answer is lost: `await COMMIT` rejects, and
\* the catch block discards the events of a transaction that is in force.
CommitUnacknowledged(c) ==
  /\ pc[c] = "body"
  /\ pc' = [pc EXCEPT ![c] = "release"]
  /\ held' = [held EXCEPT ![c] = {}]
  /\ pending' = [pending EXCEPT ![c] = {}]
  /\ outcome' = [outcome EXCEPT ![c] = "unacknowledged"]
  /\ UNCHANGED <<mode, want, todo, conn, nested, published, dispatched>>

\* commitTransaction: one synchronous loop over the queued events.
Dispatch(c) ==
  /\ pc[c] = "committed"
  /\ pc' = [pc EXCEPT ![c] = "release"]
  /\ dispatched' = [dispatched EXCEPT ![c] = @ \cup pending[c]]
  /\ pending' = [pending EXCEPT ![c] = {}]
  /\ UNCHANGED <<mode, want, todo, conn, held, nested, published, outcome>>

\* client.release() after the try block instead of in a finally.
Release_Faulty(c) ==
  /\ pc[c] = "release"
  /\ pc' = [pc EXCEPT ![c] = "done"]
  /\ conn' = [conn EXCEPT ![c] = IF outcome[c] = "aborted" THEN @ ELSE {}]
  /\ UNCHANGED <<mode, want, todo, held, nested, published, pending, dispatched, outcome>>

\* finally { client.release() }
Release(c) ==
  /\ pc[c] = "release"
  /\ pc' = [pc EXCEPT ![c] = "done"]
  /\ conn' = [conn EXCEPT ![c] = {}]
  /\ UNCHANGED <<mode, want, todo, held, nested, published, pending, dispatched, outcome>>

\* The caller's next request starts from nothing.
Reset(c) ==
  /\ pc[c] = "done"
  /\ pc' = [pc EXCEPT ![c] = "idle"]
  /\ mode' = [mode EXCEPT ![c] = "block"]
  /\ want' = [want EXCEPT ![c] = {}]
  /\ todo' = [todo EXCEPT ![c] = {}]
  /\ nested' = [nested EXCEPT ![c] = 0]
  /\ published' = [published EXCEPT ![c] = {}]
  /\ dispatched' = [dispatched EXCEPT ![c] = {}]
  /\ outcome' = [outcome EXCEPT ![c] = "none"]
  /\ UNCHANGED <<conn, held, pending>>

\* The process dies: PostgreSQL ends every session, rolls open transactions
\* back and frees their locks; queued events are gone.
Crash ==
  /\ pc' = [c \in Caller |-> "idle"]
  /\ mode' = [c \in Caller |-> "block"]
  /\ want' = [c \in Caller |-> {}]
  /\ todo' = [c \in Caller |-> {}]
  /\ conn' = [c \in Caller |-> {}]
  /\ held' = [c \in Caller |-> {}]
  /\ nested' = [c \in Caller |-> 0]
  /\ published' = [c \in Caller |-> {}]
  /\ pending' = [c \in Caller |-> {}]
  /\ dispatched' = [c \in Caller |-> {}]
  /\ outcome' = [c \in Caller |-> "none"]

\* Everything a call does once it has been made.
Step(c) ==
  \/ \E k \in Client : Connect(c, k) \/ NestedConnect(c, k) \/ NestedReturn(c, k)
  \/ ConnectTimeout(c)
  \/ \E s \in todo[c] : Acquire(c, s) \/ TryLockFails(c, s) \/ LockTimeout(c, s)
  \/ StartBody(c)
  \/ \E e \in Event : Publish(c, e)
  \/ NestedWait(c) \/ NestedTimeout(c)
  \/ Fail(c) \/ Commit(c) \/ CommitUnacknowledged(c)
  \/ Dispatch(c) \/ Release(c)

Next ==
  \/ \E c \in Caller, L \in WantSets, m \in {"block", "try"} : Request(c, L, m)
  \/ \E c \in Caller : Step(c) \/ Reset(c)
  \/ Crash

Spec == Init /\ [][Next]_vars

\* Callbacks are finite and every wait in the runner carries a timeout, so a
\* call that has something to do eventually does it.
FairSpec == Spec /\ \A c \in Caller : WF_vars(Step(c))

-----------------------------------------------------------------------------
(* Properties                                                              *)

InCallback(c) == pc[c] \in {"body", "nestedWait", "nestedQuery"}

\* Two callbacks whose calls name a common lock never run at the same time:
\* what every "inside the lock" re-check of the services relies on.
BodiesExclusive ==
  \A c, d \in Caller : c # d /\ InCallback(c) /\ InCallback(d) => want[c] \cap want[d] = {}

\* c's pg_advisory_xact_lock waits for a lock that d's transaction holds.
WaitsFor(c, d) ==
  /\ pc[c] = "locking" /\ mode[c] = "block" /\ c # d
  /\ \E s \in todo[c] : NextLock(c, s) /\ LockNo(s) \in held[d]

\* The fixed acquisition order leaves no set of callers in which each waits
\* for another of them, however many locks they ask for and in which order.
NoWaitCycle ==
  \A S \in SUBSET Caller : S # {} => \E c \in S : \A d \in S : ~WaitsFor(c, d)

\* Subscribers hear all the events of a transaction or none: none before the
\* COMMIT, none of a rolled back transaction, all of an acknowledged one.
EventsFollowOutcome ==
  \A c \in Caller :
    /\ dispatched[c] # {} => outcome[c] = "committed" /\ dispatched[c] = published[c]
    /\ outcome[c] = "committed" /\ pc[c] # "committed" => dispatched[c] = published[c]

\* A finished call, however it ended, keeps no client, no lock and no event.
NothingLeaks ==
  \A c \in Caller :
    pc[c] \in {"idle", "connect", "done"} => conn[c] = {} /\ held[c] = {} /\ pending[c] = {}

\* Every call comes to an end, even when the callbacks that hold all the
\* clients of the pool each ask for one more (the hold-and-wait that nested
\* pool queries create): only the connection timeout resolves it.
CallsEnd == \A c \in Caller : pc[c] = "connect" ~> pc[c] \in {"done", "idle"}
=============================================================================
