--------------------------- MODULE MCTaskWorkflow ---------------------------
(***************************************************************************)
(* A task that is started by hand, worked on by an orchestration that may  *)
(* be retried once, and finished through an approval; a failed run sends   *)
(* it back.                                                                *)
(***************************************************************************)
EXTENDS TaskWorkflow

MCTransitions == {"start", "finish", "back"}
MCFrom == [start |-> {"todo"}, finish |-> {"work"}, back |-> {"work"}]
MCTo == [start |-> "work", finish |-> "done", back |-> "todo"]
MCOnComplete == [work |-> {"finish", "none"}]
MCOnFailure == [work |-> "back"]
=============================================================================
