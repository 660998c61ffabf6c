--------------------------- MODULE MCApprovalLoop ---------------------------
(* Small instances of the approval loop for TLC. *)
EXTENDS ApprovalLoopProperties, TLC

ProcSymmetry == Permutations(Proc)
=============================================================================
