------------------------ MODULE HackerOneSubmission ------------------------
(***************************************************************************)
(* The life of a HackerOne report draft: drafting, human approval, the     *)
(* database claim, the POST to HackerOne and the reconciliation of an      *)
(* unknown outcome.                                                        *)
(*                                                                         *)
(* Every HTTP handler is a request: it copies the database into the shared *)
(* in-memory provider, works on that memory and commits a row, and loses   *)
(* the event loop at every database call in between.  One process serves   *)
(* all requests; a crash empties its memory and drops its requests.        *)
(***************************************************************************)
EXTENDS Naturals, Sequences, FiniteSets

CONSTANTS
  Findings,     \* persisted verified findings
  Drafts,       \* report drafts that may be created
  FindingOf,    \* the finding each draft is drafted from
  Requests,     \* handlers the process may run at the same time
  Ops,          \* the operations the operator uses
  Contents,     \* versions of a report, each with another title or text
  MaxClaims,    \* bound: submission claims
  MaxGrants,    \* bound: human approvals
  MaxScope,     \* bound: changes of the program's scope
  MaxEvidence,  \* bound: changes of the findings' evidence
  MaxLapses,    \* bound: approvals that reach the end of their 24 hours
  MaxCrashes    \* bound: process crashes

AllOps == {"create", "mark_ready", "edit", "approve", "submit", "reconcile"}

ASSUME SubmissionAssumption ==
  /\ Ops \subseteq AllOps
  /\ FindingOf \in [Drafts -> Findings]
  /\ Drafts # {} /\ Contents # {}
  /\ MaxClaims \in Nat /\ MaxGrants \in Nat
  /\ MaxScope \in Nat /\ MaxEvidence \in Nat
  /\ MaxLapses \in Nat /\ MaxCrashes \in Nat

VARIABLES
  draftRow,     \* table hackerone_report_drafts
  draftLease,   \* its claim_expires_at: the claim whose expiry it holds, 0 if null
  subRow,       \* table hackerone_submissions, one row per finding
  memDraft,     \* HackerOneReportWorkflow.drafts
  memSub,       \* HackerOneReportWorkflow.submissions
  req,          \* the handlers in flight
  world,        \* current scope of the program and evidence of the findings
  claims,       \* claims issued so far; the last one is number claims
  expired,      \* claims whose ten minutes are over
  granted,      \* approvals granted by a human, in order
  lapsed,       \* approvals whose 24 hours are over
  posts,        \* what HackerOne has received
  crashes

vars == <<draftRow, draftLease, subRow, memDraft, memSub, req, world,
          claims, expired, granted, lapsed, posts, crashes>>

db == <<draftRow, draftLease, subRow>>
memory == <<memDraft, memSub>>
remote == <<granted, posts>>
environment == <<world, expired, lapsed, crashes>>

-----------------------------------------------------------------------------
SubmissionStates ==
  {"local_draft", "ready_for_review", "human_approved", "submission_attempted",
   "submitted", "submission_failed", "submission_outcome_unknown",
   "identity_verification_required"}

ReviewStates == {"unreviewed", "ready_for_review", "human_approved"}

\* A draft; approval and report are 0 when there is none.
Draft == [made : BOOLEAN, review : ReviewStates, state : SubmissionStates,
          content : Contents, scope : Nat, approval : Nat, report : Nat]

Submission == [state : SubmissionStates \union {"none"}, report : Nat]

Row == [state : SubmissionStates \union {"none"}, report : Nat, lease : Nat]

NoDraft ==
  [made |-> FALSE, review |-> "unreviewed", state |-> "local_draft",
   content |-> CHOOSE c \in Contents : TRUE, scope |-> 0, approval |-> 0,
   report |-> 0]
NoSubmission == [state |-> "none", report |-> 0]
NoRow == [state |-> "none", report |-> 0, lease |-> 0]
NoSnapshot == [drafts |-> [d \in Drafts |-> NoDraft],
               subs |-> [f \in Findings |-> NoSubmission]]

Stages ==
  {"idle",
   "binding",      \* has read the tables, has not yet filled the memory
   "bound",        \* memory filled, about to call the workflow or the claim
   "claiming",     \* has read the submission row, has not yet updated it
   "claimed",      \* claim committed, tables read again, memory not yet filled
   "posting",      \* memory filled again, about to call submit
   "saving",       \* save_draft has not yet returned
   "committing"}   \* has read the submission record, commit not yet done

\* What HackerOne answers to POST hackers/reports; a timeout hides what it did.
Outcomes == {"accepted", "timeout_accepted", "timeout_lost", "refused", "identity"}

Replies == {"none", "submission_in_progress", "submission_outcome_unknown",
            "duplicate", "not_approved"}

Idle(reply) ==
  [stage |-> "idle", op |-> "none", draft |-> CHOOSE d \in Drafts : TRUE,
   snap |-> NoSnapshot, seen |-> [scope |-> 0, evidence |-> 0], found |-> FALSE, claim |-> 0, out |-> NoDraft,
   base |-> NoDraft, rec |-> NoSubmission, recBase |-> NoRow, reply |-> reply]

World == [scope : Nat, evidence : Nat]

Request ==
  [stage : Stages, op : AllOps \union {"none"}, draft : Drafts,
   snap : [drafts : [Drafts -> Draft], subs : [Findings -> Submission]],
   seen : World, found : BOOLEAN, claim : Nat, out : Draft, base : Draft, rec : Submission,
   recBase : Row, reply : Replies]

Grant == [draft : Drafts, content : Contents, scope : Nat, evidence : Nat]

Post == [draft : Drafts, content : Contents, scope : Nat, evidence : Nat,
         approval : Nat, claim : Nat, outcome : Outcomes]

TypeOK ==
  /\ draftRow \in [Drafts -> Draft]
  /\ draftLease \in [Drafts -> Nat]
  /\ subRow \in [Findings -> Row]
  /\ memDraft \in [Drafts -> Draft]
  /\ memSub \in [Findings -> Submission]
  /\ req \in [Requests -> Request]
  /\ world \in World
  /\ claims \in Nat /\ crashes \in Nat
  /\ expired \subseteq Nat
  /\ granted \in Seq(Grant)
  /\ lapsed \subseteq Nat
  /\ posts \in Seq(Post)

Init ==
  /\ draftRow = [d \in Drafts |-> NoDraft]
  /\ draftLease = [d \in Drafts |-> 0]
  /\ subRow = [f \in Findings |-> NoRow]
  /\ memDraft = [d \in Drafts |-> NoDraft]
  /\ memSub = [f \in Findings |-> NoSubmission]
  /\ req = [r \in Requests |-> Idle("none")]
  /\ world = [scope |-> 0, evidence |-> 0]
  /\ claims = 0 /\ crashes = 0
  /\ expired = {} /\ lapsed = {}
  /\ granted = <<>> /\ posts = <<>>

-----------------------------------------------------------------------------
(* Hydration: the tables replace what the memory holds under the same key, *)
(* entries that exist only in memory survive.                              *)

Tables == [drafts |-> draftRow,
           subs |-> [f \in Findings |->
                       [state |-> subRow[f].state, report |-> subRow[f].report]]]

HydratedDrafts(snap) ==
  [d \in Drafts |-> IF snap.drafts[d].made THEN snap.drafts[d] ELSE memDraft[d]]

HydratedSubs(snap) ==
  [f \in Findings |->
     IF snap.subs[f].state = "none" THEN memSub[f] ELSE snap.subs[f]]

Hydrate(snap) ==
  /\ memDraft' = HydratedDrafts(snap)
  /\ memSub' = HydratedSubs(snap)

InFlight(op) == Cardinality({r \in Requests : req[r].op = op})

\* Bounds, counted with the requests that may still use one up.
WithinBounds(op) ==
  /\ op = "approve" => Len(granted) + InFlight("approve") < MaxGrants
  /\ op = "submit" => claims + InFlight("submit") < MaxClaims

\* A request arrives and _bound reads the tables.  A draft's id is drawn by the
\* request that creates it and known to the operator once that has answered.
Begin(r, op, d) ==
  /\ req[r].stage = "idle"
  /\ WithinBounds(op)
  /\ draftRow[d].made <=> op # "create"
  /\ op = "create" =>
       ~memDraft[d].made /\ \A q \in Requests : req[q].stage # "idle" => req[q].draft # d
  /\ req' = [req EXCEPT ![r] =
               [Idle("none") EXCEPT !.stage = "binding", !.op = op, !.draft = d,
                                    !.snap = Tables]]
  /\ UNCHANGED <<db, memory, remote, environment, claims>>

\* The memory is filled.  The handler keeps the program and the finding as they
\* are now and uses them to the end, whatever changes later; submit looks at the review state before anything else.
Bind(r) ==
  LET bound == [req[r] EXCEPT !.stage = "bound", !.snap = NoSnapshot, !.seen = world]
      approved == memDraft'[req[r].draft].review = "human_approved"
  IN  /\ req[r].stage = "binding"
      /\ Hydrate(req[r].snap)
      /\ req' = [req EXCEPT ![r] =
                   IF req[r].op = "submit" /\ ~approved THEN Idle("not_approved")
                                                        ELSE bound]
      /\ UNCHANGED <<db, remote, environment, claims>>

-----------------------------------------------------------------------------
(* Approval.  An approval carries the hashes of what the human saw; it     *)
(* matches as long as content, scope and evidence hash to the same values. *)

\* Faulty variant: the evidence may have changed.
MatchesWithoutEvidence(draft, approval, seen) ==
  /\ approval \notin lapsed
  /\ granted[approval].content = draft.content
  /\ granted[approval].scope = seen.scope

\* Faulty variant: the approval's 24 hours may be over.
MatchesLapsed(draft, approval, seen) ==
  /\ granted[approval].content = draft.content
  /\ granted[approval].scope = seen.scope
  /\ granted[approval].evidence = seen.evidence

Matches(draft, approval, seen) ==
  /\ approval \notin lapsed
  /\ granted[approval].content = draft.content
  /\ granted[approval].scope = seen.scope
  /\ granted[approval].evidence = seen.evidence

Invalidated(draft) ==
  [draft EXCEPT !.review = "ready_for_review", !.state = "ready_for_review",
                !.approval = 0]

\* A workflow call leaves its result in memory and goes on to save it: save_draft
\* loads the row and assigns the result to it.
Store(r, draft) ==
  /\ memDraft' = [memDraft EXCEPT ![req[r].draft] = draft]
  /\ req' = [req EXCEPT ![r].stage = IF req[r].op \in {"submit", "reconcile"}
                                     THEN "saving" ELSE "committing",
                        ![r].out = draft, ![r].base = draftRow[req[r].draft]]

Calls(r, op) ==
  /\ req[r].stage = "bound" /\ req[r].op = op
  /\ op = "create" \/ memDraft[req[r].draft].made

CreateDraft(r) ==
  /\ Calls(r, "create")
  /\ \E c \in Contents :
       Store(r, [NoDraft EXCEPT !.made = TRUE, !.content = c,
                                !.scope = req[r].seen.scope])
  /\ UNCHANGED <<db, memSub, remote, environment, claims>>

\* mark_ready asks nothing of the submission state.
MarkReady(r) ==
  /\ Calls(r, "mark_ready")
  /\ Store(r, [memDraft[req[r].draft] EXCEPT
                 !.review = "ready_for_review", !.state = "ready_for_review"])
  /\ UNCHANGED <<db, memSub, remote, environment, claims>>

ApplyEdits(r) ==
  /\ Calls(r, "edit")
  /\ \E c \in Contents :
       LET draft == memDraft[req[r].draft]
           edited == [draft EXCEPT !.content = c, !.scope = req[r].seen.scope]
       IN  Store(r, IF draft.approval # 0 /\ ~Matches(edited, draft.approval, req[r].seen)
                    THEN Invalidated(edited) ELSE edited)
  /\ UNCHANGED <<db, memSub, remote, environment, claims>>

Approvable == {"ready_for_review", "local_draft", "submission_failed",
               "identity_verification_required"}

HumanApprove(r) ==
  LET draft == memDraft[req[r].draft] IN
  /\ Calls(r, "approve")
  /\ draft.state \in Approvable
  /\ granted' = Append(granted, [draft |-> req[r].draft, content |-> draft.content,
                                 scope |-> req[r].seen.scope,
                                 evidence |-> req[r].seen.evidence])
  /\ Store(r, [draft EXCEPT !.review = "human_approved", !.state = "human_approved",
                            !.scope = req[r].seen.scope, !.approval = Len(granted')])
  /\ UNCHANGED <<db, memSub, posts, environment, claims>>

\* A handler raises: unknown draft, wrong state, failed validation, a stale
\* program.  Nothing is saved; before a POST the committed claim stays behind.
Refuse(r) ==
  /\ \/ req[r].stage = "bound" /\ req[r].op # "submit"
     \/ req[r].stage = "posting"
  /\ req' = [req EXCEPT ![r] = Idle("none")]
  /\ UNCHANGED <<db, memory, remote, environment, claims>>

-----------------------------------------------------------------------------
(* The claim.  The submission row is read first and updated afterwards; the *)
(* draft row is updated last, and everything is committed whatever came out.*)

FindingOfReq(r) == FindingOf[req[r].draft]

\* commit and hydrate follow the claim, claimed or not.
AfterClaim(r, claim, reply) ==
  req' = [req EXCEPT ![r].stage = "claimed", ![r].claim = claim,
                     ![r].reply = reply, ![r].snap = Tables']

\* Faulty variant: an attempt whose claim still holds does not stop another.
ReadingWithoutExpiry(r) ==
  LET row == subRow[FindingOfReq(r)] IN
  CASE row.state = "submission_outcome_unknown" -> "submission_outcome_unknown"
    [] row.state = "submitted" \/ row.report # 0 -> "duplicate"
    [] OTHER -> "none"

Reading(r) ==
  LET row == subRow[FindingOfReq(r)] IN
  CASE row.state = "submission_outcome_unknown" -> "submission_outcome_unknown"
    [] row.state = "submitted" \/ row.report # 0 -> "duplicate"
    [] row.state = "submission_attempted" /\ row.lease \notin expired ->
         "submission_in_progress"
    [] OTHER -> "none"

ReadSubmissionRow(r) ==
  /\ Calls(r, "submit")
  /\ UNCHANGED <<db, memory, remote, environment, claims>>
  /\ IF Reading(r) = "none"
     THEN req' = [req EXCEPT ![r].stage = "claiming",
                             ![r].found = subRow[FindingOfReq(r)].state # "none"]
     ELSE AfterClaim(r, 0, Reading(r))

Reclaimable == {"submission_failed", "submission_attempted"}

\* The UPDATE looks at the state again but not at the expiry; the INSERT fails
\* when another request has inserted the row.
RowClaimable(r) ==
  IF req[r].found THEN subRow[FindingOfReq(r)].state \in Reclaimable
                  ELSE subRow[FindingOfReq(r)].state = "none"

DraftClaimable(d) ==
  \/ draftRow[d].state = "human_approved"
  \/ draftRow[d].state = "submission_attempted" /\ draftLease[d] \in expired

ClaimDraft(r, n) ==
  LET d == req[r].draft IN
  IF DraftClaimable(d)
  THEN /\ draftRow' = [draftRow EXCEPT ![d].state = "submission_attempted"]
       /\ draftLease' = [draftLease EXCEPT ![d] = n]
       /\ AfterClaim(r, n, "none")
  ELSE /\ UNCHANGED <<draftRow, draftLease>>
       /\ AfterClaim(r, 0, IF draftRow[d].state = "submission_attempted"
                           THEN "submission_in_progress" ELSE "not_approved")

\* Faulty variant: the claim is written without its expiry.
AttemptedWithoutExpiry(row, n) == [row EXCEPT !.state = "submission_attempted"]

Attempted(row, n) == [row EXCEPT !.state = "submission_attempted", !.lease = n]

ClaimSubmission(r) ==
  LET n == claims + 1 IN
  /\ req[r].stage = "claiming"
  /\ IF RowClaimable(r)
     THEN /\ claims' = n
          /\ subRow' = [subRow EXCEPT ![FindingOfReq(r)] = Attempted(@, n)]
          /\ ClaimDraft(r, n)
     ELSE /\ UNCHANGED <<db, claims>>
          /\ AfterClaim(r, 0, "submission_in_progress")
  /\ UNCHANGED <<memory, remote, environment>>

\* Faulty variant: goes on to submit although nothing was claimed.
RehydrateUnclaimed(r) ==
  /\ req[r].stage = "claimed"
  /\ Hydrate(req[r].snap)
  /\ req' = [req EXCEPT ![r].stage = "posting", ![r].snap = NoSnapshot]
  /\ UNCHANGED <<db, remote, environment, claims>>

Rehydrate(r) ==
  /\ req[r].stage = "claimed"
  /\ Hydrate(req[r].snap)
  /\ req' = [req EXCEPT ![r] =
               IF req[r].claim = 0 THEN Idle(req[r].reply)
               ELSE [req[r] EXCEPT !.stage = "posting", !.snap = NoSnapshot]]
  /\ UNCHANGED <<db, remote, environment, claims>>

-----------------------------------------------------------------------------
(* submit, called with already_claimed: the approval is checked against the *)
(* memory and the program and finding the handler has kept once more, then  *)
(* the POST goes out and the event loop is blocked until its answer.        *)

\* Faulty variant: relies on the edit having withdrawn the approval.
PostableInScope(draft, seen) ==
  draft.approval # 0 /\ draft.scope = seen.scope

Postable(draft, seen) ==
  /\ draft.approval # 0
  /\ draft.scope = seen.scope
  /\ Matches(draft, draft.approval, seen)

RejectStale(r) ==
  LET d == req[r].draft IN
  /\ req[r].stage = "posting"
  /\ memDraft[d].approval # 0 /\ ~Postable(memDraft[d], req[r].seen)
  /\ memDraft' = [memDraft EXCEPT ![d] = Invalidated(@)]
  /\ req' = [req EXCEPT ![r] = Idle("none")]
  /\ UNCHANGED <<db, memSub, remote, environment, claims>>

\* Faulty variants: no state for a timeout; a timeout counts as a failure.
StateAfterUnset(outcome) ==
  CASE outcome = "accepted" -> "submitted"
    [] outcome = "identity" -> "identity_verification_required"
    [] outcome = "refused"  -> "submission_failed"
    [] OTHER                -> "none"
StateAfterTimeoutFails(outcome) ==
  CASE outcome = "accepted" -> "submitted"
    [] outcome = "identity" -> "identity_verification_required"
    [] OTHER                -> "submission_failed"

StateAfter(outcome) ==
  CASE outcome = "accepted" -> "submitted"
    [] outcome = "identity" -> "identity_verification_required"
    [] outcome = "refused"  -> "submission_failed"
    [] OTHER                -> "submission_outcome_unknown"

PostReport(r) ==
  LET d == req[r].draft
      draft == memDraft[d]
  IN
  /\ req[r].stage = "posting"
  /\ Postable(draft, req[r].seen)
  /\ \E outcome \in Outcomes :
       LET result == [draft EXCEPT !.state = StateAfter(outcome),
                                   !.report = IF outcome = "accepted"
                                              THEN Len(posts) + 1 ELSE @]
       IN  /\ posts' = Append(posts,
                [draft |-> d, content |-> draft.content, scope |-> req[r].seen.scope,
                 evidence |-> req[r].seen.evidence, approval |-> draft.approval,
                 claim |-> req[r].claim, outcome |-> outcome])
           /\ Store(r, result)
           /\ memSub' = [memSub EXCEPT ![FindingOf[d]] =
                           [state |-> result.state, report |-> result.report]]
  /\ UNCHANGED <<db, granted, environment, claims>>

-----------------------------------------------------------------------------
(* Reconciliation.  A draft that knows its report fetches it; one whose     *)
(* outcome is unknown searches the reports HackerOne lists.                 *)

Accepted(i) == posts[i].outcome \in {"accepted", "timeout_accepted"}

\* Title and text decide, not the finding: a report that was sent for another
\* finding in the same words is the same report.
SameReport(d, i) == posts[i].content = memDraft[d].content

\* Faulty variant: takes every attempt for a report that exists remotely.
ListedAttempts(d) == {i \in 1 .. Len(posts) : SameReport(d, i)}

Listed(d) == {i \in 1 .. Len(posts) : Accepted(i) /\ SameReport(d, i)}

\* Faulty variant: the submission record is rebuilt without the report's id.
ApplyRemoteWithoutId(r, report) ==
  LET d == req[r].draft IN
  /\ Store(r, [memDraft[d] EXCEPT !.state = "submitted", !.report = report])
  /\ memSub' = [memSub EXCEPT ![FindingOf[d]] = [state |-> "submitted", report |-> 0]]

ApplyRemote(r, report) ==
  LET d == req[r].draft IN
  /\ Store(r, [memDraft[d] EXCEPT !.state = "submitted", !.report = report])
  /\ memSub' = [memSub EXCEPT ![FindingOf[d]] =
                  [state |-> "submitted", report |-> report]]

Reconcile(r) ==
  LET draft == memDraft[req[r].draft] IN
  /\ Calls(r, "reconcile")
  /\ \/ draft.report # 0 /\ ApplyRemote(r, draft.report)
     \/ /\ draft.report = 0 /\ draft.state = "submission_outcome_unknown"
        /\ \/ \E i \in Listed(req[r].draft) :      \* the only match the list shows yet
                ApplyRemote(r, i)
           \/ Store(r, draft) /\ UNCHANGED memSub    \* the list shows no match yet
  /\ UNCHANGED <<db, remote, environment, claims>>

-----------------------------------------------------------------------------
(* Saving.  submit and reconcile read the submission record from memory     *)
(* after save_draft has returned; both rows become visible at the commit.   *)
(* The session writes only the columns in which the result differs from the *)
(* row it loaded: what others have written to the rest in between stays.    *)

Flushed(row, base, out) ==
  [column \in DOMAIN row |->
     IF column \notin DOMAIN out \/ out[column] = base[column]
     THEN row[column] ELSE out[column]]

ReadSubmissionRecord(r) ==
  /\ req[r].stage = "saving"
  /\ req' = [req EXCEPT ![r].stage = "committing", ![r].rec = memSub[FindingOfReq(r)],
                        ![r].recBase = subRow[FindingOfReq(r)]]
  /\ UNCHANGED <<db, memory, remote, environment, claims>>

Commit(r) ==
  LET d == req[r].draft
      f == FindingOfReq(r)
  IN
  /\ req[r].stage = "committing"
  /\ draftRow' = [draftRow EXCEPT ![d] = Flushed(@, req[r].base, req[r].out)]
  /\ subRow' = IF req[r].rec.state = "none" THEN subRow
               ELSE [subRow EXCEPT ![f] = Flushed(@, req[r].recBase, req[r].rec)]
  /\ req' = [req EXCEPT ![r] = Idle("none")]
  /\ UNCHANGED <<draftLease, memory, remote, environment, claims>>

-----------------------------------------------------------------------------
(* The world around the handlers. *)

\* A claim's ten minutes outlast any handler that still runs.
ExpireClaim(n) ==
  /\ n \in (1 .. claims) \ expired
  /\ \A r \in Requests : req[r].claim # n
  /\ expired' = expired \union {n}
  /\ UNCHANGED <<db, memory, remote, req, world, claims, lapsed, crashes>>

LapseApproval(n) ==
  /\ n \in (1 .. Len(granted)) \ lapsed
  /\ Cardinality(lapsed) < MaxLapses
  /\ lapsed' = lapsed \union {n}
  /\ UNCHANGED <<db, memory, remote, req, world, claims, expired, crashes>>

\* A program sync, or new evidence on a finding.
ChangeWorld ==
  /\ \/ /\ world.scope < MaxScope
        /\ world' = [world EXCEPT !.scope = @ + 1]
     \/ /\ world.evidence < MaxEvidence
        /\ world' = [world EXCEPT !.evidence = @ + 1]
  /\ UNCHANGED <<db, memory, remote, req, claims, expired, lapsed, crashes>>

Crash ==
  /\ crashes < MaxCrashes
  /\ crashes' = crashes + 1
  /\ memDraft' = [d \in Drafts |-> NoDraft]
  /\ memSub' = [f \in Findings |-> NoSubmission]
  /\ req' = [r \in Requests |-> Idle("none")]
  /\ UNCHANGED <<db, remote, world, claims, expired, lapsed>>

-----------------------------------------------------------------------------
Workflow(r) ==
  CreateDraft(r) \/ MarkReady(r) \/ ApplyEdits(r) \/ HumanApprove(r) \/ Reconcile(r)

Submitting(r) ==
  \/ ReadSubmissionRow(r) \/ ClaimSubmission(r) \/ Rehydrate(r)
  \/ RejectStale(r) \/ PostReport(r)

Handler(r) ==
  Bind(r) \/ Workflow(r) \/ Submitting(r) \/ Refuse(r)
  \/ ReadSubmissionRecord(r) \/ Commit(r)

Environment ==
  \/ \E n \in 1 .. MaxClaims : ExpireClaim(n)
  \/ \E n \in 1 .. MaxGrants : LapseApproval(n)
  \/ ChangeWorld
  \/ Crash

Next ==
  \/ \E r \in Requests : Handler(r)
  \/ \E r \in Requests, op \in Ops, d \in Drafts : Begin(r, op, d)
  \/ Environment

Spec == Init /\ [][Next]_vars

\* The event loop runs every handler on and time passes; operators may stop.
FairSpec ==
  /\ Spec
  /\ \A r \in Requests : WF_vars(Handler(r))
  /\ \A n \in 1 .. MaxClaims : WF_vars(ExpireClaim(n))

-----------------------------------------------------------------------------
(* Properties *)

SameFinding(i, j) == FindingOf[posts[i].draft] = FindingOf[posts[j].draft]

\* HackerOne has accepted the report, or the code cannot know that it has not.
MaybeAccepted(i) == posts[i].outcome \in {"accepted", "timeout_accepted", "timeout_lost"}

\* What reaches HackerOne is what a human approved for this very draft, under
\* the scope and the evidence that submit checks it against (reports.py submit),
\* whatever edits, syncs and partial saves interleave with the handlers.
OnlyApprovedIsPosted ==
  \A i \in 1 .. Len(posts) :
    /\ posts[i].approval \in 1 .. Len(granted)
    /\ granted[posts[i].approval] =
         [draft |-> posts[i].draft, content |-> posts[i].content,
          scope |-> posts[i].scope, evidence |-> posts[i].evidence]

\* A committed claim authorises one POST, and every POST has a claim of its
\* own: no two handlers share one, none is used again after a crash.
OnePostPerClaim ==
  \A i \in 1 .. Len(posts) :
    /\ posts[i].claim \in 1 .. claims
    /\ \A j \in 1 .. Len(posts) : posts[i].claim = posts[j].claim => i = j

\* Whether HackerOne has the report is not known.
InDoubt(i) == posts[i].outcome \in {"timeout_accepted", "timeout_lost"}

RealReport(f, report) ==
  report # 0 =>
    /\ report \in 1 .. Len(posts)
    /\ Accepted(report)
    /\ \/ FindingOf[posts[report].draft] = f
       \/ \E i \in 1 .. Len(posts) : InDoubt(i) /\ FindingOf[posts[i].draft] = f

\* What was sent, as the gate of SubmissionGate sees it.
Sent ==
  [i \in 1 .. Len(posts) |->
     [report |-> [draft |-> posts[i].draft, content |-> posts[i].content,
                  scope |-> posts[i].scope, evidence |-> posts[i].evidence],
      approval |-> posts[i].approval, claim |-> posts[i].claim]]

Gate == INSTANCE SubmissionGate WITH
  approvals <- granted, lapsed <- lapsed, claims <- claims, expired <- expired,
  sent <- Sent

\* When submit checks and sends a report, the approval holds and is of this report,
\* and the claim has neither expired nor been posted: no handler that was delayed,
\* no partial save and no restart gets a report past the gate (submit,
\* _approval_matches, claim_submission).
KeepsGate == Gate!Spec

\* A report id that BugForge stores, in a draft row or a submission row, names a
\* report HackerOne accepted.  It was sent for that very finding, unless an
\* attempt for the finding was left without an answer: reconcile may then have
\* taken a report of another finding for its own (submit, reconcile).
ReportIdsAreReal ==
  /\ \A d \in Drafts : RealReport(FindingOf[d], draftRow[d].report)
  /\ \A f \in Findings : RealReport(f, subRow[f].report)

\* Once HackerOne may have accepted a report for a finding, no draft of that
\* finding is posted again, unless a crash has cut the attempt off and the ten
\* minutes of its claim are over (claim_submission).
RepostedOnlyAfterCrash ==
  \A i, j \in 1 .. Len(posts) :
    i < j /\ SameFinding(i, j) /\ MaybeAccepted(i) =>
      crashes > 0 /\ posts[i].claim \in expired

\* The submission row never forgets the id of a report (save_submission).
ReportIdIsKept ==
  [][\A f \in Findings : subRow[f].report # 0 => subRow'[f].report = subRow[f].report]_vars

\* A committed claim does not hold a finding for ever: it is resolved, or it
\* expires and can be taken over, even when its handler died (claim_expires_at).
ClaimDoesNotWedge ==
  \A f \in Findings :
    subRow[f].state = "submission_attempted" ~>
      (subRow[f].state # "submission_attempted" \/ subRow[f].lease \in expired)

-----------------------------------------------------------------------------
(* What the documentation says and the interleavings, the crashes or the   *)
(* unguarded operations of the code contradict.                            *)

Claimant(r) == req[r].claim # 0

\* "Submission uses an atomic database claim": two requests never both hold a
\* claim on one finding (claim_submission, hackerone.md:118).
OneClaimantPerFinding ==
  \A q, r \in Requests :
    q # r /\ Claimant(q) /\ Claimant(r) => FindingOfReq(q) # FindingOfReq(r)
=============================================================================
