---------------------------- MODULE MCDevOpsWorkflow ----------------------------
(* TLC checks DevOpsWorkflow with the values that the configurations give. *)
EXTENDS DevOpsWorkflow, TLC
=============================================================================
