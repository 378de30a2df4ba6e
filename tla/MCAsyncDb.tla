----------------------------- MODULE MCAsyncDb -----------------------------
(* Instances of AsyncDb for TLC. *)
EXTENDS AsyncDb, TLC

CONSTANTS c1, c2

\* The first client may have both requests of an increment under way, and enough for
\* the master and itself to wait for each other.
MaxPendingMC == c1 :> 3 @@ c2 :> 1
=============================================================================
