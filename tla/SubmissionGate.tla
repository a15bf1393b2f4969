--------------------------- MODULE SubmissionGate ---------------------------
(***************************************************************************)
(* What stands between a draft and HackerOne, whatever edits, handlers and *)
(* crashes come in between: a report is sent only as a human approved it,  *)
(* while that approval still holds, and only under a claim that was        *)
(* committed, has not expired and has sent nothing before.                 *)
(***************************************************************************)
EXTENDS Naturals, Sequences

VARIABLES
  approvals,  \* the reports a human approved, in order
  lapsed,     \* approvals that no longer hold
  claims,     \* claims issued so far
  expired,    \* claims whose time is over
  sent        \* what was sent: the report, its approval and its claim

Init ==
  approvals = <<>> /\ lapsed = {} /\ claims = 0 /\ expired = {} /\ sent = <<>>

\* A human approves some report; what was approved before is not rewritten.
Approve ==
  /\ Len(approvals') = Len(approvals) + 1
  /\ approvals' = Append(approvals, approvals'[Len(approvals) + 1])
  /\ UNCHANGED <<lapsed, claims, expired, sent>>

Lapse ==
  /\ \E a \in (1 .. Len(approvals)) \ lapsed : lapsed' = lapsed \union {a}
  /\ UNCHANGED <<approvals, claims, expired, sent>>

Claim ==
  /\ claims' = claims + 1
  /\ UNCHANGED <<approvals, lapsed, expired, sent>>

Expire ==
  /\ \E n \in (1 .. claims) \ expired : expired' = expired \union {n}
  /\ UNCHANGED <<approvals, lapsed, claims, sent>>

Spent == {sent[i].claim : i \in 1 .. Len(sent)}

Send ==
  /\ \E a \in (1 .. Len(approvals)) \ lapsed, n \in (1 .. claims) \ (expired \union Spent) :
       sent' = Append(sent, [report |-> approvals[a], approval |-> a, claim |-> n])
  /\ UNCHANGED <<approvals, lapsed, claims, expired>>

Next == Approve \/ Lapse \/ Claim \/ Expire \/ Send

Spec == Init /\ [][Next]_<<approvals, lapsed, claims, expired, sent>>
=============================================================================
