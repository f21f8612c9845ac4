---------------------------- MODULE MC_StateSync ----------------------------
(***************************************************************************)
(* StateSync with three rounds to fetch in batches of two: a sync takes    *)
(* two requests, and answers can leave gaps.  It starts in round 1, so     *)
(* that a faulty peer can send rounds the validator had.                   *)
(***************************************************************************)
EXTENDS StateSync
=============================================================================
