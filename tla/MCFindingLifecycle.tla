------------------------ MODULE MCFindingLifecycle ------------------------
(***************************************************************************)
(* Instances of FindingLifecycle for TLC.                                  *)
(***************************************************************************)
EXTENDS FindingLifecycle, TLC

\* Requests, targets, rules and executions are interchangeable.
Symmetry ==
  Permutations(Requests) \union Permutations(Targets) \union Permutations(Rules)
  \union Permutations(Executions)

\* After an overlap the properties promise nothing: states behind one are not
\* explored.
BeforeOverlap == ~overlapped

=============================================================================
