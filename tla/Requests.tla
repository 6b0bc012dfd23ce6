------------------------------ MODULE Requests ------------------------------
(***************************************************************************)
(* The two things every mutating request passes through: the idempotency   *)
(* middleware, which decides whether the handler runs at all, and the      *)
(* transaction runner the handler's service calls.  They share no state,   *)
(* so each behaviour exercises one of them while the other stays as it     *)
(* started.                                                                *)
(***************************************************************************)
EXTENDS TxRunner

CONSTANTS Attempts, NoRow     \* see Idempotency

VARIABLES shape, row, stage, claimed, closed, result, effects, told, sent, disturbed,
          part    \* the one this behaviour exercises

Key == INSTANCE Idempotency

\* The mark of a missing row is no row.
ASSUME NoRowAssumption ==
  NoRow \notin [status : {"pending", "none", "ok", "error"}, age : 0..2]

keyVars == <<shape, row, stage, claimed, closed, result, effects, told, sent, disturbed>>

RequestsInit ==
  /\ part \in {"runner", "middleware"}
  /\ Init /\ Key!Init
  /\ part = "runner" => shape = "json"

\* Bound: the last attempt is sent only where answers have a JSON body.
RequestsNext ==
  \/ part = "runner" /\ Next /\ UNCHANGED <<part, keyVars>>
  \/ /\ part = "middleware" /\ Key!Next /\ UNCHANGED <<part, vars>>
     /\ shape # "json" => stage'[Attempts] = "unsent"

RequestsSpec ==
  /\ RequestsInit /\ [][RequestsNext]_<<part, vars, keyVars>>
  /\ \A c \in Caller : WF_vars(Step(c))

-----------------------------------------------------------------------------
(* Properties                                                              *)

\* The attempts of one call commit its work once, unless the middleware was
\* disturbed (idempotency.middleware, see Idempotency).
OnceUnlessDisturbed == Key!OnceUnlessDisturbed

\* A client told "done" by a stored answer can rely on it (see Idempotency).
ReplayedSuccessIsReal == Key!ReplayedSuccessIsReal
=============================================================================
