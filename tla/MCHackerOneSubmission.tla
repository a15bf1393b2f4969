----------------------- MODULE MCHackerOneSubmission -----------------------
(***************************************************************************)
(* Instances of HackerOneSubmission for TLC.                               *)
(***************************************************************************)
EXTENDS HackerOneSubmission, TLC

CONSTANTS f1, f2, other

\* Every draft reports the same finding: the case in which claims compete.
OneFinding == [d \in Drafts |-> f1]

\* One draft reports another finding, and may do so in the same words.
TwoFindings == [d \in Drafts |-> IF d = other THEN f2 ELSE f1]

\* Handlers, contents and drafts of one finding are interchangeable.
Symmetry ==
  Permutations(Requests) \union Permutations(Drafts \ {other}) \union Permutations(Contents)

=============================================================================
