---------------------------- MODULE MCApprovals ----------------------------
(***************************************************************************)
(* The small instance of Approvals for TLC: two proposals of one key that  *)
(* two emitters may file at once, an approver, a sweeping process and one  *)
(* crash.  More approvers, sweepers and rows are left to the proofs.       *)
(***************************************************************************)
EXTENDS Approvals
=============================================================================
