--------------------------- MODULE FindingPromise ---------------------------
(***************************************************************************)
(* What the lifecycle of a security finding promises, whoever calls it and *)
(* in whatever order: a finding rises on evidence for the code it is about *)
(* now, it falls only when that code changes or, from a corroboration,     *)
(* when a scan no longer supports it, and a rejection is final.            *)
(*                                                                         *)
(* A scan that writes over a row it read before somebody else's save is    *)
(* outside the promise, and so is what follows: "overlapped" says so.      *)
(***************************************************************************)
EXTENDS Naturals

CONSTANT Targets  \* the code a finding may be about

VARIABLES
  standing,   \* how far the finding got
  support,    \* what its evidence shows of its target
  target,     \* the code it is about
  overlapped  \* a scan wrote over a save it had not seen

Standings == {"none", "potential", "corroborated", "reproduced", "verified", "accepted", "rejected"}
Supports == {"correlated", "reproduced", "observed"}

\* What a standing rests on: agreeing records, a reproduction, an independent
\* observation, or, for a human, either of the last two.
Rests(st, on) ==
  /\ st = "corroborated" => "correlated" \in on
  /\ st = "reproduced" => "reproduced" \in on
  /\ st = "verified" => "observed" \in on
  /\ st = "accepted" => on \intersect {"reproduced", "observed"} # {}

\* Where a finding may go from where it stands.  A human accepts only what was
\* reproduced or verified.
Rises ==
  [st \in {"potential", "corroborated", "reproduced", "verified", "accepted"} |->
     CASE st = "potential"    -> {"potential", "corroborated", "reproduced", "verified"}
       [] st = "corroborated" -> {"corroborated", "reproduced", "verified"}
       [] st = "reproduced"   -> {"reproduced", "verified", "accepted"}
       [] st = "verified"     -> {"verified", "accepted"}
       [] st = "accepted"     -> {"accepted"}]

\* What a scan alone can say of a finding.
Reports == {"potential", "corroborated"}

Init ==
  /\ standing = "none" /\ support = {} /\ target \in Targets /\ overlapped = FALSE

\* A scan reports the finding, with static evidence only.
Report ==
  /\ standing = "none" /\ standing' \in Reports
  /\ support' \subseteq {"correlated"} /\ Rests(standing', support')
  /\ target' \in Targets /\ UNCHANGED overlapped

\* Evidence comes in, or a transition is asked for, or both.
Rise ==
  /\ standing \in DOMAIN Rises /\ standing' \in Rises[standing]
  /\ support' \subseteq Supports /\ Rests(standing', support')
  /\ UNCHANGED <<target, overlapped>>

\* A scan reports the finding again, of the same code: its static records are
\* replaced, and may no longer agree, which moves nothing by itself.
Rescan ==
  /\ standing \in DOMAIN Rises
  /\ support' \subseteq Supports /\ support' \ {"correlated"} = support \ {"correlated"}
  /\ UNCHANGED <<standing, target, overlapped>>

\* The next call finds a corroboration that is no longer supported: it is
\* withdrawn, on an unchanged target.  Nothing else is.
Lapse ==
  /\ standing = "corroborated" /\ "correlated" \notin support /\ standing' = "potential"
  /\ support' \subseteq Supports /\ UNCHANGED <<target, overlapped>>

Reject ==
  /\ standing \notin {"none", "rejected"} /\ standing' = "rejected"
  /\ support' \subseteq Supports /\ UNCHANGED <<target, overlapped>>

\* A rejected finding collects evidence, and may be found elsewhere.
StayRejected ==
  /\ standing = "rejected" /\ UNCHANGED <<standing, overlapped>>
  /\ support' \subseteq Supports /\ target' \in Targets

\* The code changed: what was shown of the old code shows nothing of the new.
Retarget ==
  /\ standing \in DOMAIN Rises /\ standing' \in Reports
  /\ target' \in Targets \ {target}
  /\ support' \subseteq Supports /\ Rests(standing', support')
  /\ UNCHANGED overlapped

Overlap ==
  /\ overlapped' = TRUE
  /\ standing' \in Standings /\ support' \subseteq Supports /\ target' \in Targets

Next == Report \/ Rise \/ Rescan \/ Lapse \/ Reject \/ StayRejected \/ Retarget \/ Overlap

Spec == Init /\ [][Next]_<<standing, support, target, overlapped>>
=============================================================================
