-------------------------- MODULE MCTestingEngine --------------------------
(* Instances of TestingEngine for TLC. *)
EXTENDS TestingEngine, TLC

CONSTANTS a, b, x, c1, c2

MCUrls == {a, b, x}
MCOrigin == a :> "A" @@ b :> "B" @@ x :> "X"
\* b leaves the scope, and comes back.
MCScopes == <<{a, b}, {a}>>
MCLabUrls == {a, b}

Ask(url, use, credentials, follow) ==
  [url |-> url, use |-> use, credentials |-> credentials, follow |-> follow]
MCCalls == {Ask(a, "active", TRUE, TRUE), Ask(b, "fuzzer", FALSE, FALSE), Ask(a, "passive", TRUE, TRUE)}

MCRates == {[perSecond |-> 2, gap |-> 0], [perSecond |-> 1, gap |-> 4]}
MCDefaults == [requests |-> 3, concurrent |-> 1, targets |-> 2, redirects |-> 2]
MCLabLimits == [requests |-> 2, concurrent |-> 2, targets |-> 1, redirects |-> 2]

MCClients == {c1, c2}
Symmetry == Permutations(MCClients)
=============================================================================
