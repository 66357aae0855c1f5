---------------------------- MODULE MCCompletion ----------------------------
(* Completion with the code's three transport retries; a unit of the hold  *)
(* budget is a third of PRIORITY_HOLD_WAIT_S.                              *)
EXTENDS Completion
=============================================================================
