----------------------------- MODULE MCShutdown -----------------------------
(***************************************************************************)
(* The instances of Shutdown that TLC checks.                              *)
(***************************************************************************)
EXTENDS Shutdown

(* A backoff shorter than the drain, and one longer.                       *)
MCShortAndLong == {0, 3}

(* Backoffs no shorter than the drain.                                     *)
MCLong == {3}
=============================================================================
