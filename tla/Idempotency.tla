----------------------------- MODULE Idempotency -----------------------------
(***************************************************************************)
(* src/middleware/idempotency.middleware.ts and the clean-up job: the      *)
(* attempts of one client call that carry the same x-idempotency-key, the  *)
(* row of idempotency_keys they share, and the queries the middleware      *)
(* issues without awaiting them when a response is sent.                   *)
(*                                                                         *)
(* One key, one endpoint and one user: rows of different keys never meet.  *)
(* Every await of the middleware is a step of its own, so two attempts may *)
(* interleave between any two queries.  A row's age stands for created_at  *)
(* and expires_at: 0 is younger than 30 seconds, 1 older, 2 past 24 hours. *)
(***************************************************************************)
EXTENDS Naturals

CONSTANTS Attempts,  \* bound: HTTP requests the client sends with the key
          NoRow      \* the table holds no row for the key

\* The requests, numbered in the order in which they arrive.
Attempt == 1..Attempts

VARIABLES
  shape,       \* what a success looks like: "json", "large" (over 100 KB) or "empty" (204)
  row,         \* NoRow or the row: its response_status and its age
  stage,       \* where each attempt stands
  claimed,     \* running attempts whose response is captured (_idempotencyClaimed)
  closed,      \* running attempts whose connection the client has dropped
  result,      \* what the handler of a running attempt has made of it
  effects,     \* how many handlers have committed the call's work
  told,        \* the client has received a success
  sent,        \* queries issued and not awaited: who issued them and which
  disturbed    \* history: a row was too old to be trusted, dropped or never written

vars == <<shape, row, stage, claimed, closed, result, effects, told, sent, disturbed>>

Stage == {"unsent", "look", "clean", "reclaim", "recheck", "running", "worked", "ending", "done"}
Answered == {"ok", "error"}
Query == {"store", "finish", "drop", "discard"}

TypeOK ==
  /\ shape \in {"json", "large", "empty"}
  /\ row \in [status : {"pending"} \union Answered, age : 0..2] \union {NoRow}
  /\ stage \in [Attempt -> Stage]
  /\ claimed \subseteq Attempt /\ closed \subseteq Attempt
  /\ result \in [Attempt -> {"none"} \union Answered]
  /\ effects \in 0..Attempts
  /\ told \in BOOLEAN
  /\ sent \subseteq [by : Attempt, query : Query, status : Answered]
  /\ disturbed \in BOOLEAN

-----------------------------------------------------------------------------
Exists == row # NoRow
Pending == Exists /\ row.status = "pending"
Expired == Exists /\ row.age = 2
Completed == Exists /\ row.status \in Answered

NewRow == [status |-> "pending", age |-> 0]

Go(a, s) == stage' = [stage EXCEPT ![a] = s]

Init ==
  /\ shape \in {"json", "large", "empty"}
  /\ row = NoRow
  /\ stage = [a \in Attempt |-> "unsent"]
  /\ claimed = {} /\ closed = {} /\ sent = {}
  /\ result = [a \in Attempt |-> "none"]
  /\ effects = 0
  /\ told = FALSE
  /\ disturbed = FALSE

\* The key is inserted whether or not it is there.
Insert_Faulty(a, otherwise) ==
  /\ row' = NewRow
  /\ claimed' = claimed \union {a}
  /\ Go(a, "running")

\* INSERT ... ON CONFLICT DO NOTHING: the row is the attempt's, or it goes on.
Insert(a, otherwise) ==
  IF Exists
    THEN Go(a, otherwise) /\ UNCHANGED <<row, claimed>>
    ELSE row' = NewRow /\ claimed' = claimed \union {a} /\ Go(a, "running")

\* Retries, double clicks and duplicates arrive at any time.
Arrives(a) == stage[a] = "unsent" /\ \A b \in 1..(a - 1) : stage[b] # "unsent"

\* The attempt reaches the middleware and tries to claim its key.
Claim(a) ==
  /\ Arrives(a)
  /\ Insert(a, "look")
  /\ UNCHANGED <<shape, closed, result, effects, told, sent, disturbed>>

\* The attempt ends without running: a stored answer is replayed, or 409.
EndWith(a, what) ==
  /\ told' = (told \/ what = "ok")
  /\ Go(a, "done")
  /\ UNCHANGED <<shape, row, claimed, closed, result, effects, sent, disturbed>>

\* The row that refused the claim is read: an answer is replayed, a young
\* pending row is a conflict, anything else is to be cleaned up.
Look(a) ==
  /\ stage[a] = "look"
  /\ \/ Completed /\ ~Expired /\ EndWith(a, row.status)
     \/ Pending /\ row.age = 0 /\ EndWith(a, "conflict")
     \/ /\ ~Exists \/ Expired \/ (Pending /\ row.age = 1)
        /\ Go(a, "clean")
        /\ UNCHANGED <<shape, row, claimed, closed, result, effects, told, sent, disturbed>>

\* The DELETE removes an expired or a pending row, whoever it belongs to now.
Clean(a) ==
  /\ stage[a] = "clean"
  /\ row' = IF Expired \/ Pending THEN NoRow ELSE row
  /\ Go(a, "reclaim")
  /\ UNCHANGED <<shape, claimed, closed, result, effects, told, sent, disturbed>>

\* The second INSERT.
Reclaim(a) ==
  /\ stage[a] = "reclaim"
  /\ Insert(a, "recheck")
  /\ UNCHANGED <<shape, closed, result, effects, told, sent, disturbed>>

\* It failed too: an answer that has come in meanwhile is replayed, else 409.
Recheck(a) ==
  /\ stage[a] = "recheck"
  /\ EndWith(a, IF Completed THEN row.status ELSE "conflict")

\* A query of the middleware fails: the handler runs without protection.
PassThrough(a) ==
  /\ Arrives(a) \/ stage[a] \in {"look", "clean", "reclaim", "recheck"}
  /\ Go(a, "running")
  /\ disturbed' = TRUE
  /\ UNCHANGED <<shape, row, claimed, closed, result, effects, told, sent>>

-----------------------------------------------------------------------------
\* The handler's transaction commits or not, and the handler answers with a
\* success or with an error: an error may also follow work that is in force.
Work(a) ==
  /\ stage[a] = "running"
  /\ \/ effects' = effects + 1 /\ result' = [result EXCEPT ![a] = "ok"]
     \/ effects' = effects /\ result' = [result EXCEPT ![a] = "error"]
     \/ effects' = effects + 1 /\ result' = [result EXCEPT ![a] = "error"]
  /\ Go(a, "worked")
  /\ UNCHANGED <<shape, row, claimed, closed, told, sent, disturbed>>

\* Errors always have a small JSON body.
ShapeOf(a) == IF result[a] = "error" THEN "json" ELSE shape

Issue(a, q) == sent' = sent \union {[by |-> a, query |-> q, status |-> result[a]]}

\* The request is over; the client reads the answer if it is still there.
End(a) ==
  /\ told' = (told \/ (a \notin closed /\ result[a] = "ok"))
  /\ Go(a, "done")
  /\ claimed' = claimed \ {a}
  /\ closed' = closed \ {a}
  /\ result' = [result EXCEPT ![a] = "none"]

\* res.json, or res.end for an empty answer: the wrapper issues the query
\* that stores the answer, or drops a row whose answer is too large to store,
\* and sends the answer without waiting for it.
Answer(a) ==
  /\ stage[a] = "worked"
  /\ \/ a \notin claimed /\ End(a) /\ UNCHANGED <<sent, disturbed>>
     \/ a \in claimed /\ ShapeOf(a) = "json" /\ Issue(a, "store") /\ End(a) /\ UNCHANGED disturbed
     \/ a \in claimed /\ ShapeOf(a) = "large" /\ Issue(a, "discard") /\ End(a) /\ disturbed' = TRUE
     \/ /\ a \in claimed /\ ShapeOf(a) = "empty"
        /\ IF a \in closed
             THEN End(a)
             ELSE Go(a, "ending") /\ UNCHANGED <<claimed, closed, result, told>>
        /\ UNCHANGED <<sent, disturbed>>
  /\ UNCHANGED <<shape, row, effects>>

\* res 'finish': an answer that went past res.json is stored as its status.
Finish(a) ==
  /\ stage[a] = "ending"
  /\ Issue(a, "finish")
  /\ End(a)
  /\ UNCHANGED <<shape, row, effects, disturbed>>

\* res 'close' before the answer is out: a captured request's pending row is
\* to be dropped, while its handler goes on.
Close(a) ==
  /\ stage[a] \in {"running", "worked", "ending"}
  /\ a \notin closed
  /\ IF a \in claimed
       THEN sent' = sent \union {[by |-> a, query |-> "drop", status |-> "error"]} /\ disturbed' = TRUE
       ELSE UNCHANGED <<sent, disturbed>>
  /\ IF stage[a] = "ending"
       THEN /\ Go(a, "done") /\ claimed' = claimed \ {a} /\ result' = [result EXCEPT ![a] = "none"]
            /\ UNCHANGED closed
       ELSE closed' = closed \union {a} /\ UNCHANGED <<stage, claimed, result>>
  /\ UNCHANGED <<shape, row, effects, told>>

\* The fallback stores a success whatever the handler's status was.
Written_Faulty(w) ==
  CASE w.query = "store" /\ Exists  -> [row EXCEPT !.status = "ok"]
    [] w.query = "finish" /\ Pending -> [row EXCEPT !.status = "ok"]
    [] w.query = "drop" /\ Pending -> NoRow
    [] w.query = "discard" -> NoRow
    [] OTHER -> row

\* What a query does when it runs: it finds the row by its key, so it may
\* meet the row of a later attempt.
Written(w) ==
  CASE w.query = "store" /\ Exists -> [row EXCEPT !.status = w.status]
    [] w.query = "finish" /\ Pending -> [row EXCEPT !.status = w.status]
    [] w.query = "drop" /\ Pending -> NoRow
    [] w.query = "discard" -> NoRow
    [] OTHER -> row

\* An issued query runs, or fails and is only logged.
Run(w) ==
  /\ row' \in {Written(w), row}
  /\ sent' = sent \ {w}
  /\ UNCHANGED <<shape, stage, claimed, closed, result, effects, told, disturbed>>

\* The process dies: its attempts and unsent queries are gone, the row stays.
Crash ==
  /\ \E a \in Attempt : stage[a] \notin {"unsent", "done"}
  /\ stage' = [a \in Attempt |-> IF stage[a] = "unsent" THEN "unsent" ELSE "done"]
  /\ sent' = {} /\ claimed' = {} /\ closed' = {}
  /\ result' = [a \in Attempt |-> "none"]
  /\ UNCHANGED <<shape, row, effects, told, disturbed>>

\* Time passes: a row that is still pending after 30 seconds, or any row after
\* 24 hours, no longer stops an attempt.
Elapse ==
  /\ Exists /\ row.age < 2
  /\ row' = [row EXCEPT !.age = @ + 1]
  /\ disturbed' = (disturbed \/ Pending \/ row.age = 1)
  /\ UNCHANGED <<shape, stage, claimed, closed, result, effects, told, sent>>

\* cleanupExpiredKeys, every hour under its job lock.
Cleanup ==
  /\ Expired
  /\ row' = NoRow
  /\ UNCHANGED <<shape, stage, claimed, closed, result, effects, told, sent, disturbed>>

Next ==
  \/ \E a \in Attempt :
       \/ Claim(a) \/ Look(a) \/ Clean(a) \/ Reclaim(a) \/ Recheck(a) \/ PassThrough(a)
       \/ Work(a) \/ Answer(a) \/ Finish(a) \/ Close(a)
  \/ \E w \in sent : Run(w)
  \/ Crash \/ Elapse \/ Cleanup

Spec == Init /\ [][Next]_vars

\* Clocks run and the job is started with the process, again after a crash.
FairSpec == Spec /\ WF_vars(Elapse) /\ WF_vars(Cleanup)

-----------------------------------------------------------------------------
(* Properties                                                              *)

\* As long as every handler answers within 30 seconds, no client hangs up, no
\* answer is too large to store and 24 hours have not passed, the attempts of
\* one call commit its work once, in whatever order their queries run.
OnceUnlessDisturbed == effects <= 1 \/ disturbed

\* A client that is told "done" by a stored answer can rely on it: some
\* attempt of the call has committed, whoever's row the answer was stored in.
ReplayedSuccessIsReal == told => effects > 0

\* A stored answer of less than 24 hours leaves the table, or changes, only by
\* the query of a response: never by an attempt that decided to clean up when
\* it saw the row wedged, before the late answer came in, nor by the job.
StoredAnswersStand ==
  [][Completed /\ ~Expired /\ row' # row =>
       row' = [row EXCEPT !.age = @ + 1] \/ \E w \in sent : w \notin sent']_vars

\* No call blocks its own retries for ever: the row that a dead or hung
\* handler leaves behind goes away.
RowsSettle == Pending ~> ~Pending
=============================================================================
