----------------------------- MODULE MCWaiverRun -----------------------------
(* Instance of WaiverRun for TLC: roster 1 owns d1, roster 2 owns d2, both   *)
(* want the free agent f1, and a second claim of roster 1 drops f1 for f2;  *)
(* f1 and f2 are also signed, and f1 released, while a run is going on.     *)
EXTENDS WaiverRun

CONSTANTS f1, f2, d1, d2

Want(r, p, d, b) == [roster |-> r, player |-> p, drop |-> d, bid |-> b]

MCOffers == { Want(1, f1, d1, 1), Want(1, f2, f1, 1), Want(2, f1, None, 2) }

MCAdds == { <<1, f1>>, <<2, f2>> }
MCDrops == { <<1, f1>> }

MCRows == { <<1, d1>>, <<2, d2>> }

MCPrio == [r \in Roster |-> r]
=============================================================================
