-------------------------- MODULE MCContextBudget --------------------------
(* Lengths of one and of two tokens against a budget of a few: every      *)
(* combination of sections that fit and that do not.                       *)
EXTENDS ContextBudget
=============================================================================
