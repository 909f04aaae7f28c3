---------------------------- MODULE MCRuleControl ----------------------------
(* Small instances of RuleControl for TLC.                                 *)
EXTENDS RuleControl, TLC

\* Interchangeable commands and refreshes; only for runs without liveness.
Symmetric == Permutations(Calls) \cup Permutations(Polls)
=============================================================================
