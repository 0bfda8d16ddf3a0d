-------------------------- MODULE MCWorkflowRules --------------------------
(* Three stages and two artifacts: circles of explicit and data edges.     *)
EXTENDS WorkflowRules, TLC

Names == Permutations(Stages) \cup Permutations(Artifacts)
=============================================================================
