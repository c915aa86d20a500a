----------------------------- MODULE MCEvalRun -----------------------------
(* Two items and two drains, which may each claim both. *)
EXTENDS EvalRun
=============================================================================
