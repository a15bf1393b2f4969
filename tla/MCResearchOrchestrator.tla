---------------------- MODULE MCResearchOrchestrator ----------------------
(***************************************************************************)
(* Instances of ResearchOrchestrator for TLC.                              *)
(***************************************************************************)
EXTENDS ResearchOrchestrator, TLC

OneEngine == {[engines |-> 1, rounds |-> 1]}
OneOrTwoEngines == {[engines |-> n, rounds |-> n] : n \in {1, 2}}

\* Processes and inputs are interchangeable.
Symmetry == Permutations(Procs) \union Permutations(Inputs)

=============================================================================
