-------------------- MODULE HackerOneSubmission_proofs --------------------
(***************************************************************************)
(* Theorems about HackerOneSubmission, for every number of findings,       *)
(* drafts, contents and concurrent handlers, and any number of crashes.    *)
(***************************************************************************)
EXTENDS HackerOneSubmission, TLAPS

USE SubmissionAssumption

-----------------------------------------------------------------------------
(* Type correctness *)

\* The values that stand for "nothing yet" have the right types.
LEMMA EmptyTypes ==
  /\ NoDraft \in Draft
  /\ NoSubmission \in Submission
  /\ NoRow \in Row
  /\ NoSnapshot \in [drafts : [Drafts -> Draft], subs : [Findings -> Submission]]
  /\ \A reply \in Replies : Idle(reply) \in Request
<1>1. NoDraft \in Draft
  BY DEF NoDraft, Draft, ReviewStates, SubmissionStates
<1>2. NoSubmission \in Submission /\ NoRow \in Row
  BY DEF NoSubmission, Submission, NoRow, Row
<1>3. NoSnapshot \in [drafts : [Drafts -> Draft], subs : [Findings -> Submission]]
  BY <1>1, <1>2 DEF NoSnapshot
<1>4. ASSUME NEW reply \in Replies PROVE Idle(reply) \in Request
  BY <1>1, <1>2, <1>3 DEF Idle, Request, Stages, World
<1>5. QED
  BY <1>1, <1>2, <1>3, <1>4

Snapshot == [drafts : [Drafts -> Draft], subs : [Findings -> Submission]]

\* Filling the memory from a well-typed snapshot keeps it well typed.
LEMMA HydrateTypes ==
  ASSUME TypeOK, NEW snap \in Snapshot
  PROVE  /\ HydratedDrafts(snap) \in [Drafts -> Draft]
         /\ HydratedSubs(snap) \in [Findings -> Submission]
  BY DEF TypeOK, HydratedDrafts, HydratedSubs, Snapshot

\* The tables of a well-typed database are a well-typed snapshot.
LEMMA TablesTypes ==
  TypeOK => Tables \in Snapshot
  BY DEF TypeOK, Tables, Snapshot, Row, Submission

\* What a request works on has the right types.
LEMMA RequestTypes ==
  ASSUME TypeOK, NEW r \in Requests
  PROVE  /\ req[r] \in Request
         /\ req[r].draft \in Drafts /\ FindingOfReq(r) \in Findings
         /\ memDraft[req[r].draft] \in Draft
         /\ memSub[FindingOfReq(r)] \in Submission
         /\ req[r].seen.scope \in Nat /\ req[r].seen.evidence \in Nat
<1>1. req[r] \in Request
  BY DEF TypeOK
<1>2. req[r].draft \in Drafts
  BY <1>1 DEF Request
<1>3. FindingOfReq(r) \in Findings
  BY <1>2 DEF FindingOfReq
<1>4. req[r].seen.scope \in Nat /\ req[r].seen.evidence \in Nat
  BY <1>1 DEF Request, World
<1>5. QED
  BY <1>1, <1>2, <1>3, <1>4 DEF TypeOK

\* A request that ends is again well typed.
LEMMA EndTypes ==
  ASSUME TypeOK, NEW r \in Requests, NEW reply \in Replies,
         req' = [req EXCEPT ![r] = Idle(reply)]
  PROVE  req' \in [Requests -> Request]
  BY EmptyTypes DEF TypeOK

\* A workflow call leaves well-typed memory and a well-typed request.
LEMMA StoreTypes ==
  ASSUME TypeOK, NEW r \in Requests, NEW draft \in Draft, Store(r, draft)
  PROVE  /\ memDraft' \in [Drafts -> Draft]
         /\ req' \in [Requests -> Request]
<1>1. memDraft' \in [Drafts -> Draft]
  BY DEF TypeOK, Store, Request
<1>2. req[r] \in Request /\ draftRow[req[r].draft] \in Draft
  BY DEF TypeOK, Request
<1>3. [req[r] EXCEPT !.stage = IF req[r].op \in {"submit", "reconcile"}
                               THEN "saving" ELSE "committing",
                     !.out = draft, !.base = draftRow[req[r].draft]] \in Request
  BY <1>2 DEF Request, Stages
<1>4. QED
  BY <1>1, <1>3 DEF TypeOK, Store

\* Writing the changed columns keeps a row well typed.
LEMMA FlushedTypes ==
  /\ \A row, base, out \in Draft : Flushed(row, base, out) \in Draft
  /\ \A row, base \in Row, out \in Submission : Flushed(row, base, out) \in Row
<1>1. ASSUME NEW row \in Draft, NEW base \in Draft, NEW out \in Draft
      PROVE  Flushed(row, base, out) \in Draft
  BY DEF Flushed, Draft
<1>2. ASSUME NEW row \in Row, NEW base \in Row, NEW out \in Submission
      PROVE  Flushed(row, base, out) \in Row
  BY DEF Flushed, Row, Submission
<1>3. QED
  BY <1>1, <1>2

\* commit and hydrate after a claim leave a well-typed request.
LEMMA AfterClaimTypes ==
  ASSUME TypeOK, NEW r \in Requests, NEW claim \in Nat,
         NEW reply \in Replies, Tables' \in Snapshot, AfterClaim(r, claim, reply)
  PROVE  req' \in [Requests -> Request]
<1>1. req[r] \in Request
  BY DEF TypeOK
<1>2. [req[r] EXCEPT !.stage = "claimed", !.claim = claim, !.reply = reply,
                     !.snap = Tables'] \in Request
  BY <1>1 DEF Request, Stages, Snapshot
<1>3. QED
  BY <1>2 DEF TypeOK, AfterClaim

\* The initial state is well typed.
THEOREM InitType == Init => TypeOK
<1> SUFFICES ASSUME Init PROVE TypeOK
  OBVIOUS
<1>1. req \in [Requests -> Request]
  BY EmptyTypes DEF Init, Replies
<1>2. granted \in Seq(Grant) /\ posts \in Seq(Post)
  BY DEF Init
<1>3. QED
  BY <1>1, <1>2, EmptyTypes DEF Init, TypeOK, World


\* Every step of a handler, of an operator and of the environment keeps the
\* types.
LEMMA StepType == TypeOK /\ [Next]_vars => TypeOK'
<1> SUFFICES ASSUME TypeOK, [Next]_vars PROVE TypeOK'
  OBVIOUS
<1> USE DEF db, memory, remote, environment
<1>1. ASSUME NEW r \in Requests, NEW op \in Ops, NEW d \in Drafts, Begin(r, op, d)
      PROVE  TypeOK'
  <2>1. [Idle("none") EXCEPT !.stage = "binding", !.op = op, !.draft = d,
                             !.snap = Tables] \in Request
    BY ZenonT(30), EmptyTypes, TablesTypes DEF Request, Stages, Snapshot, Replies
  <2>2. QED
    BY <1>1, <2>1 DEF Begin, TypeOK
<1>2. ASSUME NEW r \in Requests, Bind(r) PROVE TypeOK'
  <2>1. req[r] \in Request
    BY DEF TypeOK
  <2>2. memDraft' \in [Drafts -> Draft] /\ memSub' \in [Findings -> Submission]
    BY <1>2, <2>1, HydrateTypes DEF Bind, Hydrate, Request, Snapshot
  <2>3. [req[r] EXCEPT !.stage = "bound", !.snap = NoSnapshot,
                     !.seen = world] \in Request
    BY <2>1, EmptyTypes DEF Request, Stages, TypeOK
  <2>4. Idle("not_approved") \in Request
    BY EmptyTypes DEF Replies
  <2>5. req' \in [Requests -> Request]
    BY <1>2, <2>3, <2>4 DEF Bind, TypeOK
  <2>6. QED
    BY <1>2, <2>2, <2>5 DEF Bind, TypeOK
<1>3. ASSUME NEW r \in Requests, CreateDraft(r) PROVE TypeOK'
  <2>1. PICK c \in Contents :
          Store(r, [NoDraft EXCEPT !.made = TRUE, !.content = c, !.scope = req[r].seen.scope])
    BY <1>3 DEF CreateDraft
  <2>2. [NoDraft EXCEPT !.made = TRUE, !.content = c, !.scope = req[r].seen.scope] \in Draft
    BY EmptyTypes, RequestTypes DEF Draft
  <2>3. QED
    BY <1>3, <2>1, <2>2, StoreTypes DEF CreateDraft, TypeOK
<1>4. ASSUME NEW r \in Requests, MarkReady(r) PROVE TypeOK'
  <2>1. [memDraft[req[r].draft] EXCEPT !.review = "ready_for_review",
                                       !.state = "ready_for_review"] \in Draft
    BY RequestTypes DEF Draft, ReviewStates, SubmissionStates
  <2>2. QED
    BY <1>4, <2>1, StoreTypes DEF MarkReady, TypeOK
<1>5. ASSUME NEW r \in Requests, ApplyEdits(r) PROVE TypeOK'
  <2>1. memDraft[req[r].draft] \in Draft
    BY DEF TypeOK, Request
  <2> DEFINE edited(c) == [memDraft[req[r].draft] EXCEPT !.content = c, !.scope = req[r].seen.scope]
             stored(c) == IF memDraft[req[r].draft].approval # 0
                             /\ ~Matches(edited(c), memDraft[req[r].draft].approval, req[r].seen)
                          THEN Invalidated(edited(c)) ELSE edited(c)
  <2>2. PICK c \in Contents : Store(r, stored(c))
    BY <1>5 DEF ApplyEdits
  <2>3. edited(c) \in Draft
    BY <2>1, RequestTypes DEF Draft
  <2>4. stored(c) \in Draft
    BY <2>3 DEF Invalidated, Draft, ReviewStates, SubmissionStates
  <2> HIDE DEF stored
  <2>5. QED
    BY <1>5, <2>2, <2>4, StoreTypes DEF ApplyEdits, TypeOK
<1>6. ASSUME NEW r \in Requests, HumanApprove(r) PROVE TypeOK'
  <2>1. memDraft[req[r].draft] \in Draft /\ req[r].draft \in Drafts
    BY DEF TypeOK, Request
  <2>2. [draft |-> req[r].draft, content |-> memDraft[req[r].draft].content,
         scope |-> req[r].seen.scope, evidence |-> req[r].seen.evidence] \in Grant
    BY <2>1, RequestTypes DEF Grant, Draft
  <2>3. granted' \in Seq(Grant) /\ Len(granted') \in Nat
    BY <1>6, <2>2 DEF HumanApprove, TypeOK
  <2>4. [memDraft[req[r].draft] EXCEPT
           !.review = "human_approved", !.state = "human_approved",
           !.scope = req[r].seen.scope, !.approval = Len(granted')] \in Draft
    BY <2>1, <2>3, RequestTypes DEF Draft, ReviewStates, SubmissionStates
  <2>5. QED
    BY <1>6, <2>3, <2>4, StoreTypes DEF HumanApprove, TypeOK
<1>7. ASSUME NEW r \in Requests, Refuse(r) PROVE TypeOK'
  BY <1>7, EndTypes DEF Refuse, TypeOK, Replies
<1>8. ASSUME NEW r \in Requests, ReadSubmissionRow(r) PROVE TypeOK'
  <2>1. Tables' \in Snapshot
    BY <1>8, TablesTypes DEF ReadSubmissionRow, Tables
  <2>2. Reading(r) \in Replies
    BY DEF Reading, Replies
  <2>3. CASE Reading(r) = "none"
    <3>1. [req[r] EXCEPT !.stage = "claiming",
             !.found = subRow[FindingOfReq(r)].state # "none"] \in Request
      BY ZenonT(30), RequestTypes DEF Request, Stages
    <3>2. req' = [req EXCEPT ![r] = [req[r] EXCEPT !.stage = "claiming",
             !.found = subRow[FindingOfReq(r)].state # "none"]]
      BY <1>8, <2>3 DEF ReadSubmissionRow
    <3>3. QED
      BY <1>8, <3>1, <3>2 DEF ReadSubmissionRow, TypeOK
  <2>4. CASE Reading(r) # "none"
    <3>1. req' \in [Requests -> Request]
      BY <1>8, <2>1, <2>2, <2>4, AfterClaimTypes DEF ReadSubmissionRow
    <3>2. QED
      BY <1>8, <3>1 DEF ReadSubmissionRow, TypeOK
  <2>5. QED
    BY <2>3, <2>4
<1>9. ASSUME NEW r \in Requests, ClaimSubmission(r) PROVE TypeOK'
  <2>1. /\ draftRow' \in [Drafts -> Draft] /\ draftLease' \in [Drafts -> Nat]
        /\ subRow' \in [Findings -> Row] /\ claims' \in Nat
    <3>1. FindingOfReq(r) \in Findings /\ req[r].draft \in Drafts
      BY RequestTypes
    <3>2. CASE RowClaimable(r)
      <4>1. claims + 1 \in Nat
        BY DEF TypeOK
      <4>2. Attempted(subRow[FindingOfReq(r)], claims + 1) \in Row
        <5>1. subRow[FindingOfReq(r)] \in Row
          BY <3>1 DEF TypeOK
        <5>2. QED
          BY <4>1, <5>1 DEF Attempted, Row, SubmissionStates
      <4>3. claims' \in Nat /\ subRow' \in [Findings -> Row]
        BY <1>9, <3>1, <3>2, <4>1, <4>2 DEF ClaimSubmission, TypeOK
      <4>4. [draftRow[req[r].draft] EXCEPT !.state = "submission_attempted"] \in Draft
        <5>1. draftRow[req[r].draft] \in Draft
          BY <3>1 DEF TypeOK
        <5>2. QED
          BY <5>1 DEF Draft, SubmissionStates
      <4>5. /\ draftRow' = [draftRow EXCEPT ![req[r].draft] =
                               [draftRow[req[r].draft] EXCEPT !.state = "submission_attempted"]]
               \/ UNCHANGED draftRow
            /\ draftLease' = [draftLease EXCEPT ![req[r].draft] = claims + 1]
               \/ UNCHANGED draftLease
        BY <1>9, <3>2 DEF ClaimSubmission, ClaimDraft
      <4>6. draftRow' \in [Drafts -> Draft] /\ draftLease' \in [Drafts -> Nat]
        BY <4>1, <4>4, <4>5 DEF TypeOK
      <4>7. QED
        BY <4>3, <4>6
    <3>3. CASE ~RowClaimable(r)
      BY <1>9, <3>3 DEF ClaimSubmission, TypeOK
    <3>4. QED
      BY <3>2, <3>3
  <2>2. Tables' \in Snapshot
    BY <2>1 DEF Tables, Snapshot, Row, Submission
  <2>3. PICK claim \in Nat, reply \in Replies : AfterClaim(r, claim, reply)
    <3>1. claims + 1 \in Nat
      BY DEF TypeOK
    <3>2. QED
      BY <1>9, <3>1 DEF ClaimSubmission, ClaimDraft, Replies
  <2>4. req' \in [Requests -> Request]
    BY <2>2, <2>3, AfterClaimTypes
  <2>5. QED
    BY <1>9, <2>1, <2>4 DEF ClaimSubmission, TypeOK
<1>10. ASSUME NEW r \in Requests, Rehydrate(r) PROVE TypeOK'
  <2>1. req[r] \in Request
    BY DEF TypeOK
  <2>2. memDraft' \in [Drafts -> Draft] /\ memSub' \in [Findings -> Submission]
    BY <1>10, <2>1, HydrateTypes DEF Rehydrate, Hydrate, Request, Snapshot
  <2>3. [req[r] EXCEPT !.stage = "posting", !.snap = NoSnapshot] \in Request
    BY <2>1, EmptyTypes DEF Request, Stages
  <2>4. Idle(req[r].reply) \in Request
    BY <2>1, EmptyTypes DEF Request
  <2>5. req' \in [Requests -> Request]
    BY <1>10, <2>3, <2>4 DEF Rehydrate, TypeOK
  <2>6. QED
    BY <1>10, <2>2, <2>5 DEF Rehydrate, TypeOK
<1>11. ASSUME NEW r \in Requests, RejectStale(r) PROVE TypeOK'
  <2>1. Invalidated(memDraft[req[r].draft]) \in Draft
    BY RequestTypes DEF Invalidated, Draft, ReviewStates, SubmissionStates
  <2>2. req' \in [Requests -> Request]
    BY <1>11, EndTypes DEF RejectStale, Replies
  <2>3. QED
    BY <1>11, <2>1, <2>2 DEF RejectStale, TypeOK
<1>12. ASSUME NEW r \in Requests, PostReport(r) PROVE TypeOK'
  <2> DEFINE d == req[r].draft
             result(o) == [memDraft[d] EXCEPT !.state = StateAfter(o),
                             !.report = IF o = "accepted" THEN Len(posts) + 1 ELSE @]
             post(o) == [draft |-> d, content |-> memDraft[d].content,
                         scope |-> req[r].seen.scope, evidence |-> req[r].seen.evidence,
                         approval |-> memDraft[d].approval, claim |-> req[r].claim,
                         outcome |-> o]
  <2>1. PICK o \in Outcomes :
          /\ posts' = Append(posts, post(o))
          /\ Store(r, result(o))
          /\ memSub' = [memSub EXCEPT ![FindingOf[d]] =
                          [state |-> result(o).state, report |-> result(o).report]]
    BY <1>12 DEF PostReport
  <2>2. d \in Drafts /\ memDraft[d] \in Draft /\ req[r].claim \in Nat
    BY DEF TypeOK, Request
  <2>3. StateAfter(o) \in SubmissionStates
    BY DEF StateAfter, SubmissionStates
  <2>4. result(o) \in Draft
    <3>1. Len(posts) + 1 \in Nat
      BY DEF TypeOK
    <3>2. QED
      BY <2>2, <2>3, <3>1 DEF Draft
  <2>5. post(o) \in Post
    BY <2>2, RequestTypes DEF Post, Draft, TypeOK
  <2>6. [state |-> result(o).state, report |-> result(o).report] \in Submission
    BY <2>4 DEF Draft, Submission
  <2> HIDE DEF result, post
  <2>7. memDraft' \in [Drafts -> Draft] /\ req' \in [Requests -> Request]
    BY <2>1, <2>4, StoreTypes
  <2>8. memSub' \in [Findings -> Submission] /\ posts' \in Seq(Post)
    <3>1. memSub' \in [Findings -> Submission]
      BY <2>1, <2>2, <2>6 DEF TypeOK
    <3>2. QED
      BY <2>1, <2>5, <3>1 DEF TypeOK
  <2>9. QED
    BY <1>12, <2>7, <2>8 DEF PostReport, TypeOK
<1>13. ASSUME NEW r \in Requests, Reconcile(r) PROVE TypeOK'
  <2> DEFINE d == req[r].draft
  <2>1. d \in Drafts /\ memDraft[d] \in Draft
    BY DEF TypeOK, Request
  <2>2. ASSUME NEW report \in Nat, ApplyRemote(r, report)
        PROVE  /\ memDraft' \in [Drafts -> Draft] /\ req' \in [Requests -> Request]
               /\ memSub' \in [Findings -> Submission]
    <3>1. [memDraft[d] EXCEPT !.state = "submitted", !.report = report] \in Draft
      BY <2>1, <2>2 DEF Draft, SubmissionStates
    <3>2. [state |-> "submitted", report |-> report] \in Submission
      BY <2>2 DEF Submission, SubmissionStates
    <3>3. QED
      BY <2>2, <3>1, <3>2, StoreTypes DEF ApplyRemote, TypeOK
  <2>3. CASE memDraft[d].report # 0 /\ ApplyRemote(r, memDraft[d].report)
    <3>1. memDraft[d].report \in Nat
      BY <2>1 DEF Draft
    <3>2. QED
      BY <1>13, <2>2, <2>3, <3>1 DEF Reconcile, TypeOK
  <2>4. ASSUME NEW i \in Listed(d), ApplyRemote(r, i) PROVE TypeOK'
    <3>1. i \in Nat
      BY DEF Listed, TypeOK
    <3>2. QED
      BY <1>13, <2>2, <2>4, <3>1 DEF Reconcile, TypeOK
  <2>5. CASE Store(r, memDraft[d]) /\ UNCHANGED memSub
    BY <1>13, <2>1, <2>5, StoreTypes DEF Reconcile, TypeOK
  <2>6. QED
    BY <1>13, <2>3, <2>4, <2>5 DEF Reconcile
<1>14. ASSUME NEW r \in Requests, ReadSubmissionRecord(r) PROVE TypeOK'
  <2>1. [req[r] EXCEPT !.stage = "committing", !.rec = memSub[FindingOfReq(r)],
                       !.recBase = subRow[FindingOfReq(r)]] \in Request
    <3>1. subRow[FindingOfReq(r)] \in Row
      BY RequestTypes DEF TypeOK
    <3>2. QED
      BY ZenonT(30), <3>1, RequestTypes DEF Request, Stages
  <2>2. QED
    BY <1>14, <2>1 DEF ReadSubmissionRecord, TypeOK
<1>15. ASSUME NEW r \in Requests, Commit(r) PROVE TypeOK'
  <2>1. req[r] \in Request
    BY DEF TypeOK
  <2>2. draftRow' \in [Drafts -> Draft]
    <3>1. Flushed(draftRow[req[r].draft], req[r].base, req[r].out) \in Draft
      BY <2>1, FlushedTypes DEF Request, TypeOK
    <3>2. QED
      BY <1>15, <3>1 DEF Commit, TypeOK
  <2>3. subRow' \in [Findings -> Row]
    <3>1. Flushed(subRow[FindingOfReq(r)], req[r].recBase, req[r].rec) \in Row
      BY <2>1, RequestTypes, FlushedTypes DEF Request, TypeOK
    <3>2. QED
      BY <1>15, <3>1, RequestTypes DEF Commit, TypeOK
  <2>4. req' \in [Requests -> Request]
    BY <1>15, EndTypes DEF Commit, Replies
  <2>5. QED
    BY <1>15, <2>2, <2>3, <2>4 DEF Commit, TypeOK
<1>16. CASE Environment
  <2>1. ASSUME NEW n \in Nat, ExpireClaim(n) \/ LapseApproval(n) PROVE TypeOK'
    BY <2>1 DEF ExpireClaim, LapseApproval, TypeOK
  <2>2. CASE ChangeWorld
    <3>1. world \in World
      BY DEF TypeOK
    <3>2. world' \in World
      BY <2>2, <3>1 DEF ChangeWorld, World
    <3>3. QED
      BY <2>2, <3>2 DEF ChangeWorld, TypeOK
  <2>3. CASE Crash
    BY <2>3, EmptyTypes DEF Crash, TypeOK, Replies
  <2>4. QED
    BY <1>16, <2>1, <2>2, <2>3 DEF Environment
<1>17. CASE UNCHANGED vars
  BY <1>17 DEF vars, TypeOK
<1>18. QED
  BY <1>1, <1>2, <1>3, <1>4, <1>5, <1>6, <1>7, <1>8, <1>9, <1>10, <1>11, <1>12,
     <1>13, <1>14, <1>15, <1>16, <1>17
     DEF Next, Handler, Workflow, Submitting

\* Every variable keeps its type in every behaviour.
THEOREM TypeCorrect == Spec => []TypeOK
  BY InitType, StepType, PTL DEF Spec

-----------------------------------------------------------------------------
(* Only what a human approved is posted.  The property is not inductive: a *)
(* POST takes its approval from the memory, the memory takes it from a     *)
(* snapshot of the tables, the tables from what a request saved.  The      *)
(* strengthening says that every copy of a draft, wherever it is, carries  *)
(* either no approval or one that was granted to that same draft.          *)

Owned(grants, d, approval) ==
  approval # 0 => approval \in 1 .. Len(grants) /\ grants[approval].draft = d

RowsOwn == \A d \in Drafts : Owned(granted, d, draftRow[d].approval)

MemoryOwns == \A d \in Drafts : Owned(granted, d, memDraft[d].approval)

SnapshotOwns(snap) == \A d \in Drafts : Owned(granted, d, snap.drafts[d].approval)

RequestOwns(r) ==
  Owned(granted, req[r].draft, req[r].out.approval) /\ SnapshotOwns(req[r].snap)

OwnApprovals == RowsOwn /\ MemoryOwns /\ \A r \in Requests : RequestOwns(r)

ApprovalInv == TypeOK /\ OwnApprovals /\ OnlyApprovedIsPosted

\* A further approval leaves the earlier ones where they are.
LEMMA GrantKeepsOwned ==
  ASSUME NEW grants \in Seq(Grant), NEW g \in Grant, NEW d, NEW approval \in Nat,
         Owned(grants, d, approval)
  PROVE  Owned(Append(grants, g), d, approval)
  BY DEF Owned

\* What the memory holds after a hydrate is owned if the snapshot is.
LEMMA HydrateOwned ==
  ASSUME MemoryOwns, NEW snap, SnapshotOwns(snap), UNCHANGED granted, Hydrate(snap)
  PROVE  MemoryOwns'
  BY DEF MemoryOwns, SnapshotOwns, Hydrate, HydratedDrafts

\* The values of an idle request carry no approval.
LEMMA IdleOwned ==
  ASSUME NEW grants, NEW reply
  PROVE  /\ Owned(grants, Idle(reply).draft, Idle(reply).out.approval)
         /\ \A d \in Drafts : Owned(grants, d, Idle(reply).snap.drafts[d].approval)
  BY DEF Owned, Idle, NoDraft, NoSnapshot

\* While no approval is granted, a request that does not change owns what it did.
LEMMA OthersOwn ==
  ASSUME NEW r \in Requests, RequestOwns(r), UNCHANGED granted, req'[r] = req[r]
  PROVE  RequestOwns(r)'
  BY DEF RequestOwns, SnapshotOwns

\* A request that drops its snapshot still owns what it saves.
LEMMA DroppedOwn ==
  ASSUME NEW r \in Requests, RequestOwns(r), UNCHANGED granted,
         req'[r].out = req[r].out, req'[r].draft = req[r].draft,
         req'[r].snap = NoSnapshot
  PROVE  RequestOwns(r)'
<1>1. \A d \in Drafts : NoSnapshot.drafts[d].approval = 0
  BY DEF NoSnapshot, NoDraft
<1>2. SnapshotOwns(req[r].snap)'
  BY <1>1 DEF SnapshotOwns, Owned
<1>3. QED
  BY <1>2 DEF RequestOwns

\* A request that ends owns nothing.
LEMMA EndOwned ==
  ASSUME TypeOK, NEW r \in Requests, NEW reply, \A q \in Requests : RequestOwns(q),
         UNCHANGED granted, req' = [req EXCEPT ![r] = Idle(reply)]
  PROVE  \A q \in Requests : RequestOwns(q)'
<1> TAKE q \in Requests
<1>1. CASE q = r
  <2>1. req'[q] = Idle(reply)
    BY <1>1 DEF TypeOK
  <2>2. QED
    BY <2>1, IdleOwned DEF RequestOwns, SnapshotOwns
<1>2. CASE q # r
  BY <1>2, OthersOwn DEF TypeOK
<1>3. QED
  BY <1>1, <1>2

\* A workflow call that stores an owned draft keeps every copy owned.
LEMMA StoreOwned ==
  ASSUME TypeOK, OwnApprovals, NEW r \in Requests, NEW draft \in Draft,
         Store(r, draft), Owned(granted, req[r].draft, draft.approval),
         UNCHANGED <<granted, draftRow>>
  PROVE  OwnApprovals'
<1>1. MemoryOwns'
  BY DEF Store, OwnApprovals, MemoryOwns, TypeOK
<1>2. ASSUME NEW q \in Requests PROVE RequestOwns(q)'
  <2>1. CASE q = r
    <3>1. /\ req'[q].out = draft /\ req'[q].draft = req[q].draft
          /\ req'[q].snap = req[q].snap
      BY <2>1, RequestTypes DEF Store, TypeOK, Request
    <3>2. QED
      BY <2>1, <3>1 DEF OwnApprovals, RequestOwns, SnapshotOwns
  <2>2. CASE q # r
    BY <2>2, OthersOwn DEF OwnApprovals, Store, TypeOK
  <2>3. QED
    BY <2>1, <2>2
<1>3. QED
  BY <1>1, <1>2 DEF OwnApprovals, RowsOwn

\* commit and hydrate after a claim read rows that own their approvals.
LEMMA AfterClaimOwned ==
  ASSUME TypeOK, OwnApprovals, NEW r \in Requests, NEW claim, NEW reply,
         AfterClaim(r, claim, reply), RowsOwn', UNCHANGED <<granted, memDraft>>
  PROVE  OwnApprovals'
<1>1. ASSUME NEW q \in Requests PROVE RequestOwns(q)'
  <2>1. CASE q = r
    <3>1. /\ req'[q].out = req[q].out /\ req'[q].draft = req[q].draft
          /\ req'[q].snap = Tables'
      BY <2>1, RequestTypes DEF AfterClaim, TypeOK, Request
    <3>2. QED
      BY <3>1 DEF OwnApprovals, RequestOwns, SnapshotOwns, RowsOwn, Tables
  <2>2. CASE q # r
    BY <2>2, OthersOwn DEF OwnApprovals, AfterClaim, TypeOK
  <2>3. QED
    BY <2>1, <2>2
<1>2. QED
  BY <1>1 DEF OwnApprovals, MemoryOwns

\* Every step keeps every copy's approval with the draft it was granted to.
LEMMA OwnStep == TypeOK /\ OwnApprovals /\ [Next]_vars => OwnApprovals'
<1> SUFFICES ASSUME TypeOK, OwnApprovals, [Next]_vars PROVE OwnApprovals'
  OBVIOUS
<1> USE DEF db, memory, remote, environment
<1>1. ASSUME NEW r \in Requests, NEW op \in Ops, NEW d \in Drafts, Begin(r, op, d)
      PROVE  OwnApprovals'
  <2>1. ASSUME NEW q \in Requests PROVE RequestOwns(q)'
    <3>1. CASE q = r
      <4>1. req'[q].out = NoDraft /\ req'[q].snap = Tables
        BY <1>1, <3>1 DEF Begin, TypeOK, Idle
      <4>2. granted' = granted /\ RowsOwn
        BY <1>1 DEF Begin, OwnApprovals
      <4>3. NoDraft.approval = 0 /\ Tables.drafts = draftRow
        BY DEF NoDraft, Tables
      <4>4. Owned(granted', req'[q].draft, req'[q].out.approval)
        BY <4>1, <4>3 DEF Owned
      <4>5. \A e \in Drafts : Owned(granted', e, req'[q].snap.drafts[e].approval)
        BY <4>1, <4>2, <4>3 DEF RowsOwn
      <4>6. QED
        BY <4>4, <4>5, Zenon DEF RequestOwns, SnapshotOwns
    <3>2. CASE q # r
      BY <1>1, <3>2, OthersOwn DEF OwnApprovals, Begin, TypeOK
    <3>3. QED
      BY <3>1, <3>2
  <2>2. QED
    BY <1>1, <2>1 DEF Begin, OwnApprovals, RowsOwn, MemoryOwns
<1>2. ASSUME NEW r \in Requests, Bind(r) PROVE OwnApprovals'
  <2>1. MemoryOwns'
    BY <1>2, HydrateOwned DEF Bind, OwnApprovals, RequestOwns
  <2>2. ASSUME NEW q \in Requests PROVE RequestOwns(q)'
    <3>1. CASE q = r
      <4>1. \/ req'[q] = Idle("not_approved")
            \/ req'[q] = [req[r] EXCEPT !.stage = "bound", !.snap = NoSnapshot,
                                             !.seen = world]
        BY <1>2, <3>1 DEF Bind, TypeOK
      <4>2. CASE req'[q] = Idle("not_approved")
        BY <4>2, IdleOwned DEF RequestOwns, SnapshotOwns
      <4>3. CASE req'[q] = [req[r] EXCEPT !.stage = "bound", !.snap = NoSnapshot,
                                             !.seen = world]
        <5>1. /\ req'[q].out = req[r].out /\ req'[q].draft = req[r].draft
              /\ req'[q].snap = NoSnapshot
          BY <4>3, RequestTypes DEF Request
        <5>2. QED
          BY <1>2, <3>1, <5>1, DroppedOwn DEF Bind, OwnApprovals
      <4>4. QED
        BY <4>1, <4>2, <4>3
    <3>2. CASE q # r
      BY <1>2, <3>2, OthersOwn DEF OwnApprovals, Bind, TypeOK
    <3>3. QED
      BY <3>1, <3>2
  <2>3. QED
    BY <1>2, <2>1, <2>2 DEF Bind, OwnApprovals, RowsOwn
<1>3. ASSUME NEW r \in Requests, CreateDraft(r) PROVE OwnApprovals'
  <2>1. PICK c \in Contents :
          Store(r, [NoDraft EXCEPT !.made = TRUE, !.content = c, !.scope = req[r].seen.scope])
    BY <1>3 DEF CreateDraft
  <2> DEFINE draft == [NoDraft EXCEPT !.made = TRUE, !.content = c, !.scope = req[r].seen.scope]
  <2>2. draft \in Draft /\ draft.approval = 0
    BY EmptyTypes, RequestTypes DEF Draft, NoDraft
  <2>3. QED
    BY <1>3, <2>1, <2>2, StoreOwned DEF CreateDraft, Owned
<1>4. ASSUME NEW r \in Requests, MarkReady(r) PROVE OwnApprovals'
  <2> DEFINE draft == [memDraft[req[r].draft] EXCEPT !.review = "ready_for_review",
                                                     !.state = "ready_for_review"]
  <2>1. draft \in Draft /\ draft.approval = memDraft[req[r].draft].approval
    BY RequestTypes DEF Draft, ReviewStates, SubmissionStates
  <2>2. Owned(granted, req[r].draft, draft.approval)
    BY <2>1, RequestTypes DEF OwnApprovals, MemoryOwns
  <2>3. QED
    BY <1>4, <2>1, <2>2, StoreOwned DEF MarkReady
<1>5. ASSUME NEW r \in Requests, ApplyEdits(r) PROVE OwnApprovals'
  <2> DEFINE edited(c) == [memDraft[req[r].draft] EXCEPT !.content = c, !.scope = req[r].seen.scope]
             stored(c) == IF memDraft[req[r].draft].approval # 0
                             /\ ~Matches(edited(c), memDraft[req[r].draft].approval, req[r].seen)
                          THEN Invalidated(edited(c)) ELSE edited(c)
  <2>1. PICK c \in Contents : Store(r, stored(c))
    BY <1>5 DEF ApplyEdits
  <2>2. edited(c) \in Draft /\ edited(c).approval = memDraft[req[r].draft].approval
    BY RequestTypes DEF Draft, TypeOK
  <2>3. /\ stored(c) \in Draft
        /\ stored(c).approval \in {0, memDraft[req[r].draft].approval}
    BY <2>2 DEF Invalidated, Draft, ReviewStates, SubmissionStates
  <2>4. Owned(granted, req[r].draft, stored(c).approval)
    BY <2>3, RequestTypes DEF OwnApprovals, MemoryOwns, Owned
  <2> HIDE DEF stored
  <2>5. QED
    BY <1>5, <2>1, <2>3, <2>4, StoreOwned DEF ApplyEdits
<1>6. ASSUME NEW r \in Requests, HumanApprove(r) PROVE OwnApprovals'
  <2> DEFINE d == req[r].draft
             g == [draft |-> d, content |-> memDraft[d].content,
                   scope |-> req[r].seen.scope, evidence |-> req[r].seen.evidence]
             draft == [memDraft[d] EXCEPT
                         !.review = "human_approved", !.state = "human_approved",
                         !.scope = req[r].seen.scope, !.approval = Len(granted')]
  <2>1. /\ granted' = Append(granted, g) /\ Store(r, draft)
        /\ UNCHANGED draftRow
    BY <1>6 DEF HumanApprove
  <2>2. g \in Grant /\ d \in Drafts /\ memDraft[d] \in Draft
    BY RequestTypes DEF Grant, Draft, TypeOK
  <2>3. granted \in Seq(Grant)
    BY DEF TypeOK
  <2>4. Len(granted') = Len(granted) + 1 /\ granted'[Len(granted')].draft = d
    BY <2>1, <2>2, <2>3
  <2>5. draft.approval = Len(granted')
    BY <2>2 DEF Draft
  <2>6. Owned(granted', d, draft.approval)
    BY <2>3, <2>4, <2>5 DEF Owned
  <2> HIDE DEF g
  <2>7. ASSUME NEW e \in Drafts, NEW a \in Nat, Owned(granted, e, a)
        PROVE  Owned(granted', e, a)
    BY <2>1, <2>2, <2>3, <2>7, GrantKeepsOwned
  <2>8. RowsOwn'
    BY <2>1, <2>7 DEF OwnApprovals, RowsOwn, TypeOK, Draft
  <2> HIDE DEF draft
  <2>9. MemoryOwns'
    <3>1. ASSUME NEW e \in Drafts PROVE Owned(granted', e, memDraft'[e].approval)
      <4>1. CASE e = d
        BY <2>1, <2>2, <2>6, <4>1 DEF Store, TypeOK
      <4>2. CASE e # d
        <5>1. memDraft'[e] = memDraft[e] /\ memDraft[e].approval \in Nat
          BY <2>1, <4>2 DEF Store, TypeOK, Draft
        <5>2. QED
          BY <2>7, <5>1 DEF OwnApprovals, MemoryOwns
      <4>3. QED
        BY <4>1, <4>2
    <3>2. QED
      BY <3>1 DEF MemoryOwns
  <2>10. ASSUME NEW q \in Requests PROVE RequestOwns(q)'
    <3>1. /\ req'[q].draft = req[q].draft /\ req'[q].snap = req[q].snap
          /\ req'[q].out = IF q = r THEN draft ELSE req[q].out
      BY ZenonT(30), <2>1, RequestTypes DEF Store, TypeOK, Request
    <3>2. /\ req[q].draft \in Drafts /\ req[q].out.approval \in Nat
          /\ \A e \in Drafts : req[q].snap.drafts[e].approval \in Nat
      BY RequestTypes DEF Request, Draft
    <3>3. Owned(granted', req'[q].draft, req'[q].out.approval)
      BY <2>6, <2>7, <3>1, <3>2 DEF OwnApprovals, RequestOwns
    <3>4. \A e \in Drafts : Owned(granted', e, req'[q].snap.drafts[e].approval)
      BY <2>7, <3>1, <3>2 DEF OwnApprovals, RequestOwns, SnapshotOwns
    <3>5. QED
      BY <3>3, <3>4 DEF RequestOwns, SnapshotOwns
  <2>11. QED
    BY <2>8, <2>9, <2>10 DEF OwnApprovals
<1>7. ASSUME NEW r \in Requests, Refuse(r) PROVE OwnApprovals'
  BY <1>7, EndOwned DEF Refuse, OwnApprovals, RowsOwn, MemoryOwns
<1>8. ASSUME NEW r \in Requests, ReadSubmissionRow(r) PROVE OwnApprovals'
  <2>1. CASE Reading(r) = "none"
    <3>1. ASSUME NEW q \in Requests PROVE RequestOwns(q)'
      <4>1. /\ req'[q].out = req[q].out /\ req'[q].draft = req[q].draft
            /\ req'[q].snap = req[q].snap
        <5>1. req' = [req EXCEPT ![r] = [req[r] EXCEPT !.stage = "claiming",
                        !.found = subRow[FindingOfReq(r)].state # "none"]]
          BY <1>8, <2>1 DEF ReadSubmissionRow
        <5>2. QED
          BY <5>1, RequestTypes DEF TypeOK, Request
      <4>2. QED
        BY <1>8, <4>1 DEF ReadSubmissionRow, OwnApprovals, RequestOwns, SnapshotOwns
    <3>2. QED
      BY <1>8, <3>1 DEF ReadSubmissionRow, OwnApprovals, RowsOwn, MemoryOwns
  <2>2. CASE Reading(r) # "none"
    <3>1. AfterClaim(r, 0, Reading(r)) /\ RowsOwn'
      BY <1>8, <2>2 DEF ReadSubmissionRow, OwnApprovals, RowsOwn
    <3>2. QED
      BY <1>8, <3>1, AfterClaimOwned DEF ReadSubmissionRow
  <2>3. QED
    BY <2>1, <2>2
<1>9. ASSUME NEW r \in Requests, ClaimSubmission(r) PROVE OwnApprovals'
  <2>1. \/ UNCHANGED draftRow
        \/ draftRow' = [draftRow EXCEPT ![req[r].draft] =
                          [draftRow[req[r].draft] EXCEPT !.state = "submission_attempted"]]
    BY <1>9 DEF ClaimSubmission, ClaimDraft
  <2>2. ASSUME NEW e \in Drafts PROVE draftRow'[e].approval = draftRow[e].approval
    <3>1. draftRow[e] \in Draft /\ draftRow \in [Drafts -> Draft]
      BY DEF TypeOK
    <3>2. QED
      BY <2>1, <3>1 DEF Draft
  <2>3. RowsOwn'
    BY <1>9, <2>2 DEF ClaimSubmission, OwnApprovals, RowsOwn
  <2>4. PICK claim, reply : AfterClaim(r, claim, reply)
    BY <1>9 DEF ClaimSubmission, ClaimDraft
  <2>5. QED
    BY <1>9, <2>3, <2>4, AfterClaimOwned DEF ClaimSubmission
<1>10. ASSUME NEW r \in Requests, Rehydrate(r) PROVE OwnApprovals'
  <2>1. MemoryOwns'
    BY <1>10, HydrateOwned DEF Rehydrate, OwnApprovals, RequestOwns
  <2>2. ASSUME NEW q \in Requests PROVE RequestOwns(q)'
    <3>1. CASE q = r
      <4>1. \/ req'[q] = Idle(req[r].reply)
            \/ req'[q] = [req[r] EXCEPT !.stage = "posting", !.snap = NoSnapshot]
        BY <1>10, <3>1 DEF Rehydrate, TypeOK
      <4>2. CASE req'[q] = Idle(req[r].reply)
        BY <4>2, IdleOwned DEF RequestOwns, SnapshotOwns
      <4>3. CASE req'[q] = [req[r] EXCEPT !.stage = "posting", !.snap = NoSnapshot]
        <5>1. /\ req'[q].out = req[r].out /\ req'[q].draft = req[r].draft
              /\ req'[q].snap = NoSnapshot
          BY <4>3, RequestTypes DEF Request
        <5>2. QED
          BY <1>10, <3>1, <5>1, DroppedOwn DEF Rehydrate, OwnApprovals
      <4>4. QED
        BY <4>1, <4>2, <4>3
    <3>2. CASE q # r
      BY <1>10, <3>2, OthersOwn DEF OwnApprovals, Rehydrate, TypeOK
    <3>3. QED
      BY <3>1, <3>2
  <2>3. QED
    BY <1>10, <2>1, <2>2 DEF Rehydrate, OwnApprovals, RowsOwn
<1>11. ASSUME NEW r \in Requests, RejectStale(r) PROVE OwnApprovals'
  <2>1. Invalidated(memDraft[req[r].draft]).approval = 0
    BY RequestTypes DEF Invalidated, Draft
  <2>2. MemoryOwns'
    BY <1>11, <2>1 DEF RejectStale, OwnApprovals, MemoryOwns, Owned, TypeOK
  <2>3. QED
    BY <1>11, <2>2, EndOwned DEF RejectStale, OwnApprovals, RowsOwn
<1>12. ASSUME NEW r \in Requests, PostReport(r) PROVE OwnApprovals'
  <2> DEFINE result(o) == [memDraft[req[r].draft] EXCEPT !.state = StateAfter(o),
                             !.report = IF o = "accepted" THEN Len(posts) + 1 ELSE @]
  <2>1. PICK o \in Outcomes : Store(r, result(o))
    BY <1>12 DEF PostReport
  <2>2. StateAfter(o) \in SubmissionStates /\ Len(posts) + 1 \in Nat
    BY DEF StateAfter, SubmissionStates, TypeOK
  <2>3. result(o) \in Draft /\ result(o).approval = memDraft[req[r].draft].approval
    BY <2>2, RequestTypes DEF Draft
  <2>4. Owned(granted, req[r].draft, result(o).approval)
    BY <2>3, RequestTypes DEF OwnApprovals, MemoryOwns
  <2> HIDE DEF result
  <2>5. QED
    BY <1>12, <2>1, <2>3, <2>4, StoreOwned DEF PostReport
<1>13. ASSUME NEW r \in Requests, Reconcile(r) PROVE OwnApprovals'
  <2> DEFINE found(i) == [memDraft[req[r].draft] EXCEPT !.state = "submitted", !.report = i]
  <2>1. Owned(granted, req[r].draft, memDraft[req[r].draft].approval)
    BY RequestTypes DEF OwnApprovals, MemoryOwns
  <2>2. \/ Store(r, memDraft[req[r].draft])
        \/ \E i \in Nat : Store(r, found(i))
    <3>1. memDraft[req[r].draft].report \in Nat
      BY RequestTypes DEF Draft
    <3>2. ASSUME NEW i \in Listed(req[r].draft), ApplyRemote(r, i)
          PROVE  \E j \in Nat : Store(r, found(j))
      <4>1. i \in Nat
        BY DEF Listed
      <4>2. Store(r, found(i))
        BY <3>2 DEF ApplyRemote
      <4>3. QED
        BY <4>1, <4>2
    <3>3. ASSUME ApplyRemote(r, memDraft[req[r].draft].report)
          PROVE  \E j \in Nat : Store(r, found(j))
      BY <3>1, <3>3 DEF ApplyRemote
    <3>4. QED
      BY <1>13, <3>2, <3>3 DEF Reconcile
  <2>3. CASE Store(r, memDraft[req[r].draft])
    BY <1>13, <2>1, <2>3, RequestTypes, StoreOwned DEF Reconcile
  <2>4. ASSUME NEW i \in Nat, Store(r, found(i)) PROVE OwnApprovals'
    <3>1. found(i) \in Draft /\ found(i).approval = memDraft[req[r].draft].approval
      BY RequestTypes DEF Draft, SubmissionStates
    <3>2. QED
      BY <1>13, <2>1, <2>4, <3>1, StoreOwned DEF Reconcile
  <2>5. QED
    BY <2>2, <2>3, <2>4
<1>14. ASSUME NEW r \in Requests, ReadSubmissionRecord(r) PROVE OwnApprovals'
  <2>1. ASSUME NEW q \in Requests PROVE RequestOwns(q)'
    <3>1. /\ req'[q].out = req[q].out /\ req'[q].draft = req[q].draft
          /\ req'[q].snap = req[q].snap
      BY SMTT(20), <1>14, RequestTypes DEF ReadSubmissionRecord, TypeOK, Request
    <3>2. QED
      BY <1>14, <3>1 DEF ReadSubmissionRecord, OwnApprovals, RequestOwns, SnapshotOwns
  <2>2. QED
    BY <1>14, <2>1 DEF ReadSubmissionRecord, OwnApprovals, RowsOwn, MemoryOwns
<1>15. ASSUME NEW r \in Requests, Commit(r) PROVE OwnApprovals'
  <2> DEFINE d == req[r].draft
             row == Flushed(draftRow[d], req[r].base, req[r].out)
  <2>1. RowsOwn'
    <3>1. row.approval \in {draftRow[d].approval, req[r].out.approval}
      BY SMTT(20), RequestTypes DEF Flushed, TypeOK, Request, Draft
    <3>2. Owned(granted, d, row.approval)
      BY <3>1, RequestTypes DEF OwnApprovals, RowsOwn, RequestOwns
    <3>3. QED
      BY <1>15, <3>2 DEF Commit, OwnApprovals, RowsOwn, TypeOK
  <2>2. QED
    BY <1>15, <2>1, EndOwned DEF Commit, OwnApprovals, MemoryOwns
<1>16. CASE Environment
  <2>1. ASSUME UNCHANGED <<draftRow, memDraft, req, granted>> PROVE OwnApprovals'
    BY <2>1 DEF OwnApprovals, RowsOwn, MemoryOwns, RequestOwns, SnapshotOwns
  <2>2. CASE Crash
    <3>1. MemoryOwns'
      BY <2>2 DEF Crash, MemoryOwns, Owned, NoDraft
    <3>2. ASSUME NEW q \in Requests PROVE RequestOwns(q)'
      BY <2>2, IdleOwned DEF Crash, RequestOwns, SnapshotOwns
    <3>3. QED
      BY <2>2, <3>1, <3>2 DEF Crash, OwnApprovals, RowsOwn
  <2>3. QED
    BY <1>16, <2>1, <2>2 DEF Environment, ExpireClaim, LapseApproval, ChangeWorld
<1>17. CASE UNCHANGED vars
  BY <1>17 DEF vars, OwnApprovals, RowsOwn, MemoryOwns, RequestOwns, SnapshotOwns
<1>18. QED
  BY <1>1, <1>2, <1>3, <1>4, <1>5, <1>6, <1>7, <1>8, <1>9, <1>10, <1>11, <1>12,
     <1>13, <1>14, <1>15, <1>16, <1>17
     DEF Next, Handler, Workflow, Submitting

\* A step that posts takes its approval from the memory, and checks it.
LEMMA PostStep ==
  TypeOK /\ OwnApprovals /\ OnlyApprovedIsPosted /\ [Next]_vars => OnlyApprovedIsPosted'
<1> SUFFICES ASSUME TypeOK, OwnApprovals, OnlyApprovedIsPosted, [Next]_vars
             PROVE  OnlyApprovedIsPosted'
  OBVIOUS
<1> USE DEF db, memory, remote, environment
<1>1. ASSUME UNCHANGED <<posts, granted>> PROVE OnlyApprovedIsPosted'
  BY <1>1 DEF OnlyApprovedIsPosted
<1>2. ASSUME NEW r \in Requests, HumanApprove(r) PROVE OnlyApprovedIsPosted'
  <2> DEFINE g == [draft |-> req[r].draft, content |-> memDraft[req[r].draft].content,
                   scope |-> req[r].seen.scope, evidence |-> req[r].seen.evidence]
  <2>1. granted' = Append(granted, g) /\ granted \in Seq(Grant) /\ g \in Grant
    BY <1>2, RequestTypes DEF HumanApprove, Grant, Draft, TypeOK
  <2> HIDE DEF g
  <2>2. \A a \in 1 .. Len(granted) : a \in 1 .. Len(granted') /\ granted'[a] = granted[a]
    BY <2>1
  <2>3. QED
    BY <1>2, <2>2 DEF HumanApprove, OnlyApprovedIsPosted
<1>3. ASSUME NEW r \in Requests, PostReport(r) PROVE OnlyApprovedIsPosted'
  <2> DEFINE d == req[r].draft
             a == memDraft[d].approval
             post(o) == [draft |-> d, content |-> memDraft[d].content,
                         scope |-> req[r].seen.scope, evidence |-> req[r].seen.evidence,
                         approval |-> a, claim |-> req[r].claim, outcome |-> o]
  <2>1. PICK o \in Outcomes : posts' = Append(posts, post(o))
    BY <1>3 DEF PostReport
  <2>2. d \in Drafts /\ memDraft[d] \in Draft /\ req[r].claim \in Nat
    BY RequestTypes DEF Request
  <2>3. a # 0 /\ Matches(memDraft[d], a, req[r].seen)
    BY <1>3 DEF PostReport, Postable
  <2>4. a \in 1 .. Len(granted) /\ granted[a].draft = d
    BY <2>2, <2>3 DEF OwnApprovals, MemoryOwns, Owned
  <2>5. granted[a] \in Grant
    BY <2>4 DEF TypeOK
  <2>6. granted[a] = [draft |-> d, content |-> memDraft[d].content,
                      scope |-> req[r].seen.scope, evidence |-> req[r].seen.evidence]
    BY <2>3, <2>4, <2>5 DEF Matches, Grant
  <2>7. post(o) \in Post /\ posts \in Seq(Post)
    BY <2>2, RequestTypes DEF Post, Draft, TypeOK
  <2>8. /\ posts'[Len(posts) + 1] = post(o) /\ Len(posts') = Len(posts) + 1
        /\ \A i \in 1 .. Len(posts) : posts'[i] = posts[i]
    BY <2>1, <2>7
  <2>9. UNCHANGED granted
    BY <1>3 DEF PostReport
  <2>10. ASSUME NEW i \in 1 .. Len(posts')
         PROVE  /\ posts'[i].approval \in 1 .. Len(granted)
                /\ granted[posts'[i].approval] =
                     [draft |-> posts'[i].draft, content |-> posts'[i].content,
                      scope |-> posts'[i].scope, evidence |-> posts'[i].evidence]
    <3>1. CASE i = Len(posts) + 1
      BY <2>4, <2>6, <2>8, <3>1
    <3>2. CASE i # Len(posts) + 1
      <4>1. i \in 1 .. Len(posts)
        BY <2>7, <2>8, <3>2
      <4>2. QED
        BY <2>8, <4>1 DEF OnlyApprovedIsPosted
    <3>3. QED
      BY <3>1, <3>2
  <2>11. QED
    BY <2>9, <2>10 DEF OnlyApprovedIsPosted
<1>4. ASSUME NEW r \in Requests, Handler(r), ~HumanApprove(r), ~PostReport(r)
      PROVE  UNCHANGED <<posts, granted>>
  BY <1>4 DEF Handler, Workflow, Submitting, Bind, CreateDraft, MarkReady, ApplyEdits,
     Reconcile, ReadSubmissionRow, ClaimSubmission, Rehydrate, RejectStale, Refuse,
     ReadSubmissionRecord, Commit
<1>5. ASSUME \/ \E r \in Requests, op \in Ops, d \in Drafts : Begin(r, op, d)
             \/ Environment \/ UNCHANGED vars
      PROVE  UNCHANGED <<posts, granted>>
  BY <1>5 DEF Begin, Environment, ExpireClaim, LapseApproval, ChangeWorld, Crash, vars
<1>6. QED
  BY <1>1, <1>2, <1>3, <1>4, <1>5 DEF Next

\* The strengthening holds at the start and every step keeps it.
LEMMA ApprovalHolds == Spec => []ApprovalInv
<1>1. Init => ApprovalInv
  <2> SUFFICES ASSUME Init PROVE ApprovalInv
    OBVIOUS
  <2>1. RowsOwn /\ MemoryOwns
    BY DEF Init, RowsOwn, MemoryOwns, Owned, NoDraft
  <2>2. ASSUME NEW r \in Requests PROVE RequestOwns(r)
    BY IdleOwned DEF Init, RequestOwns, SnapshotOwns
  <2>3. OnlyApprovedIsPosted
    BY DEF Init, OnlyApprovedIsPosted
  <2>4. QED
    BY InitType, <2>1, <2>2, <2>3 DEF ApprovalInv, OwnApprovals
<1>2. ApprovalInv /\ [Next]_vars => ApprovalInv'
  BY StepType, OwnStep, PostStep DEF ApprovalInv
<1>3. QED
  BY <1>1, <1>2, PTL DEF Spec

\* What reaches HackerOne is what a human approved for that draft, under the
\* scope and the evidence of that moment, for every number of drafts, handlers
\* and crashes (reports.py submit).
THEOREM ApprovedPosts == Spec => []OnlyApprovedIsPosted
<1>1. ApprovalInv => OnlyApprovedIsPosted
  BY DEF ApprovalInv
<1>2. QED
  BY ApprovalHolds, <1>1, PTL

-----------------------------------------------------------------------------
(* One POST for each claim.  The property is not inductive: it must be     *)
(* known that the claim a handler holds belongs to it alone, and that it   *)
(* has not been posted before the handler reaches the POST.  The claim is  *)
(* left in the request until the handler ends, whatever comes of the POST. *)

\* The stages a handler goes through before it has asked for a claim.
Early == {"idle", "binding", "bound", "claiming"}

\* The stages between the answer to the claim and the POST.
Armed == {"claimed", "posting"}

Unposted(claim) == \A i \in 1 .. Len(posts) : posts[i].claim # claim

HeldAlone(r) ==
  \A q \in Requests \ {r} : req[r].claim # 0 => req[q].claim # req[r].claim

ClaimHeld(r) ==
  /\ req[r].claim \in 0 .. claims
  /\ req[r].stage \in Early => req[r].claim = 0
  /\ req[r].stage = "posting" => req[r].claim # 0
  /\ req[r].stage \in Armed /\ req[r].claim # 0 => Unposted(req[r].claim)

ClaimsHeld == \A r \in Requests : ClaimHeld(r) /\ HeldAlone(r)

ClaimInv == TypeOK /\ ClaimsHeld /\ OnePostPerClaim

\* A handler that goes from stage to next with the claim it has had no more to
\* answer for than before: it does not go back, nor to the POST without a claim.
GoesOn(stage, next, claim) ==
  /\ next \in Early => stage \in Early
  /\ next \in Armed => stage \in Armed
  /\ next = "posting" => claim # 0

\* The step of one handler that neither posts nor comes by a claim, though it may
\* use up a claim's number, keeps what every handler holds.
LEMMA CalmStep ==
  ASSUME ClaimInv, NEW r \in Requests, UNCHANGED posts,
         claims' = claims \/ claims' = claims + 1,
         \A q \in Requests \ {r} : req'[q] = req[q],
         \/ req'[r].claim = 0 /\ req'[r].stage # "posting"
         \/ req'[r].claim = req[r].claim
              /\ GoesOn(req[r].stage, req'[r].stage, req[r].claim)
  PROVE  ClaimsHeld' /\ OnePostPerClaim'
<1>1. claims \in Nat /\ claims' \in Nat /\ 0 .. claims \subseteq 0 .. claims'
  BY DEF ClaimInv, TypeOK
<1>2. ASSUME NEW q \in Requests PROVE ClaimHeld(q)'
  <2>1. CASE q # r
    BY <1>1, <2>1 DEF ClaimInv, ClaimsHeld, ClaimHeld, Unposted
  <2>2. CASE q = r /\ req'[r].claim = 0 /\ req'[r].stage # "posting"
    BY <1>1, <2>2 DEF ClaimHeld
  <2>3. CASE /\ q = r /\ req'[r].claim = req[r].claim
             /\ GoesOn(req[r].stage, req'[r].stage, req[r].claim)
    BY <1>1, <2>3 DEF ClaimInv, ClaimsHeld, ClaimHeld, Unposted, GoesOn
  <2>4. QED
    BY <2>1, <2>2, <2>3
<1>3. ASSUME NEW q \in Requests PROVE HeldAlone(q)'
  <2>1. \A p \in Requests : req'[p].claim = 0 \/ req'[p].claim = req[p].claim
    OBVIOUS
  <2>2. QED
    BY <2>1 DEF ClaimInv, ClaimsHeld, HeldAlone
<1>4. OnePostPerClaim'
  <2>1. 1 .. claims \subseteq 1 .. claims'
    BY <1>1 DEF ClaimInv, TypeOK
  <2>2. QED
    BY <2>1 DEF ClaimInv, OnePostPerClaim
<1>5. QED
  BY <1>2, <1>3, <1>4 DEF ClaimsHeld

\* A handler's workflow call leaves its claim with it.
LEMMA StoreHolds ==
  ASSUME ClaimInv, NEW r \in Requests, NEW draft, Store(r, draft),
         UNCHANGED <<posts, claims>>
  PROVE  ClaimsHeld' /\ OnePostPerClaim'
<1>1. req \in [Requests -> Request]
  BY DEF ClaimInv, TypeOK
<1>2. /\ \A q \in Requests \ {r} : req'[q] = req[q]
      /\ req'[r].claim = req[r].claim /\ req'[r].stage \in {"saving", "committing"}
  BY <1>1 DEF Store, Request
<1>3. GoesOn(req[r].stage, req'[r].stage, req[r].claim)
  BY <1>2 DEF GoesOn, Early, Armed
<1>4. QED
  BY <1>2, <1>3, CalmStep

\* A handler that ends gives its claim back.
LEMMA EndHolds ==
  ASSUME ClaimInv, NEW r \in Requests, NEW reply, UNCHANGED <<posts, claims>>,
         req' = [req EXCEPT ![r] = Idle(reply)]
  PROVE  ClaimsHeld' /\ OnePostPerClaim'
<1>1. /\ \A q \in Requests \ {r} : req'[q] = req[q]
      /\ req'[r] = Idle(reply)
  BY DEF ClaimInv, TypeOK
<1>2. req'[r].claim = 0 /\ req'[r].stage # "posting"
  BY <1>1 DEF Idle
<1>3. QED
  BY <1>1, <1>2, CalmStep

\* A refused claim leaves the handler without one.
LEMMA RefusedHolds ==
  ASSUME ClaimInv, NEW r \in Requests, NEW reply, UNCHANGED posts,
         claims' = claims \/ claims' = claims + 1, AfterClaim(r, 0, reply)
  PROVE  ClaimsHeld' /\ OnePostPerClaim'
<1>1. req \in [Requests -> Request]
  BY DEF ClaimInv, TypeOK
<1>2. /\ \A q \in Requests \ {r} : req'[q] = req[q]
      /\ req'[r].claim = 0 /\ req'[r].stage = "claimed"
  BY <1>1 DEF AfterClaim, Request
<1>3. QED
  BY <1>2, CalmStep

\* A claim that is granted is new: no other handler holds it, no POST carries it.
LEMMA ClaimHolds ==
  ASSUME ClaimInv, NEW r \in Requests, claims' = claims + 1, UNCHANGED posts,
         AfterClaim(r, claims + 1, "none")
  PROVE  ClaimsHeld' /\ OnePostPerClaim'
<1>1. req \in [Requests -> Request] /\ claims \in Nat /\ Len(posts) \in Nat
  BY DEF ClaimInv, TypeOK
<1>2. /\ \A q \in Requests \ {r} : req'[q] = req[q]
      /\ req'[r].claim = claims + 1 /\ req'[r].stage = "claimed"
  BY <1>1 DEF AfterClaim, Request
<1>3. \A i \in 1 .. Len(posts) : posts[i].claim # claims + 1
  BY <1>1 DEF ClaimInv, OnePostPerClaim
<1>4. \A q \in Requests \ {r} : req'[q].claim \in 0 .. claims /\ req'[q].claim # claims + 1
  BY <1>1, <1>2 DEF ClaimInv, ClaimsHeld, ClaimHeld
<1>5. ASSUME NEW q \in Requests PROVE ClaimHeld(q)'
  <2>1. CASE q = r
    <3>1. claims + 1 \in 0 .. claims' /\ claims + 1 # 0
      BY <1>1
    <3>2. QED
      BY <1>2, <1>3, <2>1, <3>1 DEF ClaimHeld, Early, Unposted
  <2>2. CASE q # r
    <3>1. req'[q].claim \in 0 .. claims'
      BY <1>1, <1>4, <2>2
    <3>2. QED
      BY <1>2, <2>2, <3>1 DEF ClaimInv, ClaimsHeld, ClaimHeld, Unposted
  <2>3. QED
    BY <2>1, <2>2
<1>6. ASSUME NEW q \in Requests PROVE HeldAlone(q)'
  BY <1>2, <1>4 DEF ClaimInv, ClaimsHeld, HeldAlone
<1>7. OnePostPerClaim'
  <2>1. 1 .. claims \subseteq 1 .. claims'
    BY <1>1
  <2>2. QED
    BY <2>1 DEF ClaimInv, OnePostPerClaim
<1>8. QED
  BY <1>5, <1>6, <1>7 DEF ClaimsHeld

\* The POST uses the claim up: its handler goes on, no other one held it.
LEMMA PostHolds ==
  ASSUME ClaimInv, NEW r \in Requests, PostReport(r)
  PROVE  ClaimsHeld' /\ OnePostPerClaim'
<1> DEFINE d == req[r].draft
           post(o) == [draft |-> d, content |-> memDraft[d].content,
                       scope |-> req[r].seen.scope, evidence |-> req[r].seen.evidence,
                       approval |-> memDraft[d].approval, claim |-> req[r].claim,
                       outcome |-> o]
<1>1. PICK o \in Outcomes :
        /\ posts' = Append(posts, post(o))
        /\ \E draft : Store(r, draft)
  BY DEF PostReport
<1>2. /\ req \in [Requests -> Request] /\ posts \in Seq(Post)
      /\ UNCHANGED claims /\ req[r].stage = "posting"
  BY DEF PostReport, ClaimInv, TypeOK
<1>3. post(o) \in Post /\ post(o).claim = req[r].claim
  BY RequestTypes DEF ClaimInv, Post, Draft, TypeOK, Request
<1> HIDE DEF post
<1>4. /\ Len(posts') = Len(posts) + 1 /\ Len(posts) \in Nat
      /\ posts'[Len(posts) + 1].claim = req[r].claim
      /\ \A i \in 1 .. Len(posts) : posts'[i] = posts[i]
  BY <1>1, <1>2, <1>3
<1>5. /\ \A q \in Requests \ {r} : req'[q] = req[q]
      /\ req'[r].claim = req[r].claim /\ req'[r].stage \in {"saving", "committing"}
  BY <1>1, <1>2 DEF Store, Request
<1>6. /\ req[r].claim \in 1 .. claims
      /\ \A i \in 1 .. Len(posts) : posts[i].claim # req[r].claim
      /\ \A q \in Requests \ {r} : req[q].claim # req[r].claim
  BY <1>2 DEF ClaimInv, TypeOK, ClaimsHeld, ClaimHeld, HeldAlone, Armed, Unposted
<1>7. ASSUME NEW i \in 1 .. Len(posts') PROVE i \in 1 .. Len(posts) \/ i = Len(posts) + 1
  BY <1>4
<1>8. ASSUME NEW q \in Requests PROVE ClaimHeld(q)'
  <2>1. CASE q = r
    BY <1>2, <1>5, <2>1 DEF ClaimInv, ClaimsHeld, ClaimHeld, Early, Armed
  <2>2. CASE q # r
    <3>1. ASSUME req[q].stage \in Armed, req[q].claim # 0 PROVE Unposted(req[q].claim)'
      <4>1. \A i \in 1 .. Len(posts) : posts'[i].claim # req[q].claim
        BY <1>4, <3>1 DEF ClaimInv, ClaimsHeld, ClaimHeld, Unposted
      <4>2. posts'[Len(posts) + 1].claim # req[q].claim
        BY <1>4, <1>6, <2>2
      <4>3. \A i \in 1 .. Len(posts') : posts'[i].claim # req'[q].claim
        BY <1>5, <1>7, <2>2, <4>1, <4>2
      <4>4. QED
        BY <1>5, <2>2, <4>3 DEF Unposted
    <3>2. QED
      BY <1>2, <1>5, <2>2, <3>1 DEF ClaimInv, ClaimsHeld, ClaimHeld, Unposted
  <2>3. QED
    BY <2>1, <2>2
<1>9. ASSUME NEW q \in Requests PROVE HeldAlone(q)'
  <2>1. \A p \in Requests : req'[p].claim = req[p].claim
    BY <1>5
  <2>2. QED
    BY <2>1 DEF ClaimInv, ClaimsHeld, HeldAlone
<1>10. OnePostPerClaim'
  <2>1. ASSUME NEW i \in 1 .. Len(posts') PROVE posts'[i].claim \in 1 .. claims'
    <3>1. CASE i \in 1 .. Len(posts)
      BY <1>2, <1>4, <3>1 DEF ClaimInv, OnePostPerClaim
    <3>2. CASE i = Len(posts) + 1
      BY <1>2, <1>4, <1>6, <3>2
    <3>3. QED
      BY <1>7, <3>1, <3>2
  <2>2. ASSUME NEW i \in 1 .. Len(posts'), NEW j \in 1 .. Len(posts'),
               posts'[i].claim = posts'[j].claim
        PROVE  i = j
    <3>1. CASE i \in 1 .. Len(posts) /\ j \in 1 .. Len(posts)
      BY <1>4, <2>2, <3>1 DEF ClaimInv, OnePostPerClaim
    <3>2. CASE i = Len(posts) + 1 /\ j \in 1 .. Len(posts)
      BY <1>4, <1>6, <2>2, <3>2
    <3>3. CASE i \in 1 .. Len(posts) /\ j = Len(posts) + 1
      BY <1>4, <1>6, <2>2, <3>3
    <3>4. QED
      BY <1>7, <3>1, <3>2, <3>3
  <2>3. QED
    BY <2>1, <2>2 DEF OnePostPerClaim
<1>11. QED
  BY <1>8, <1>9, <1>10 DEF ClaimsHeld

\* Every step keeps a claim with the handler it was granted to.
LEMMA ClaimStep == ClaimInv /\ [Next]_vars => ClaimsHeld' /\ OnePostPerClaim'
<1> SUFFICES ASSUME ClaimInv, [Next]_vars PROVE ClaimsHeld' /\ OnePostPerClaim'
  OBVIOUS
<1> USE DEF db, memory, remote, environment
<1>0. req \in [Requests -> Request]
  BY DEF ClaimInv, TypeOK
<1>1. ASSUME NEW r \in Requests, NEW op \in Ops, NEW d \in Drafts, Begin(r, op, d)
      PROVE  ClaimsHeld' /\ OnePostPerClaim'
  <2>1. /\ \A q \in Requests \ {r} : req'[q] = req[q]
        /\ req'[r].claim = 0 /\ req'[r].stage = "binding"
    BY <1>0, <1>1 DEF Begin, Idle
  <2>2. QED
    BY <1>1, <2>1, CalmStep DEF Begin
<1>2. ASSUME NEW r \in Requests, Bind(r) PROVE ClaimsHeld' /\ OnePostPerClaim'
  <2>1. CASE req' = [req EXCEPT ![r] = Idle("not_approved")]
    BY <1>2, <2>1, EndHolds DEF Bind
  <2>2. CASE req' = [req EXCEPT ![r] = [req[r] EXCEPT !.stage = "bound",
                                          !.snap = NoSnapshot, !.seen = world]]
    <3>1. /\ \A q \in Requests \ {r} : req'[q] = req[q]
          /\ req'[r].claim = req[r].claim /\ req'[r].stage = "bound"
      BY <1>0, <2>2 DEF Request
    <3>2. GoesOn(req[r].stage, req'[r].stage, req[r].claim)
      BY <1>2, <3>1 DEF Bind, GoesOn, Early, Armed
    <3>3. QED
      BY <1>2, <3>1, <3>2, CalmStep DEF Bind
  <2>3. QED
    BY <1>2, <2>1, <2>2 DEF Bind
<1>3. ASSUME NEW r \in Requests, Workflow(r) PROVE ClaimsHeld' /\ OnePostPerClaim'
  <2>1. \E draft : Store(r, draft)
    BY <1>3 DEF Workflow, CreateDraft, MarkReady, ApplyEdits, HumanApprove, Reconcile,
       ApplyRemote
  <2>2. UNCHANGED <<posts, claims>>
    BY <1>3 DEF Workflow, CreateDraft, MarkReady, ApplyEdits, HumanApprove, Reconcile
  <2>3. QED
    BY <2>1, <2>2, StoreHolds
<1>4. ASSUME NEW r \in Requests, Refuse(r) \/ RejectStale(r) \/ Commit(r)
      PROVE  ClaimsHeld' /\ OnePostPerClaim'
  BY <1>4, EndHolds DEF Refuse, RejectStale, Commit
<1>5. ASSUME NEW r \in Requests, ReadSubmissionRow(r)
      PROVE  ClaimsHeld' /\ OnePostPerClaim'
  <2>1. CASE Reading(r) = "none"
    <3>1. /\ \A q \in Requests \ {r} : req'[q] = req[q]
          /\ req'[r].claim = req[r].claim /\ req'[r].stage = "claiming"
      BY <1>0, <1>5, <2>1 DEF ReadSubmissionRow, Request
    <3>2. GoesOn(req[r].stage, req'[r].stage, req[r].claim)
      BY <1>5, <3>1 DEF ReadSubmissionRow, Calls, GoesOn, Early, Armed
    <3>3. QED
      BY <1>5, <3>1, <3>2, CalmStep DEF ReadSubmissionRow
  <2>2. CASE Reading(r) # "none"
    BY <1>5, <2>2, RefusedHolds DEF ReadSubmissionRow
  <2>3. QED
    BY <2>1, <2>2
<1>6. ASSUME NEW r \in Requests, ClaimSubmission(r)
      PROVE  ClaimsHeld' /\ OnePostPerClaim'
  <2>1. UNCHANGED posts
    BY <1>6 DEF ClaimSubmission
  <2>2. \/ claims' = claims + 1 /\ AfterClaim(r, claims + 1, "none")
        \/ \E reply : AfterClaim(r, 0, reply) /\ (claims' = claims \/ claims' = claims + 1)
    BY <1>6 DEF ClaimSubmission, ClaimDraft
  <2>3. QED
    BY <2>1, <2>2, ClaimHolds, RefusedHolds
<1>7. ASSUME NEW r \in Requests, Rehydrate(r) PROVE ClaimsHeld' /\ OnePostPerClaim'
  <2>1. CASE req[r].claim = 0
    BY <1>7, <2>1, EndHolds DEF Rehydrate
  <2>2. CASE req[r].claim # 0
    <3>1. req' = [req EXCEPT ![r] = [req[r] EXCEPT !.stage = "posting", !.snap = NoSnapshot]]
      BY <1>7, <2>2 DEF Rehydrate
    <3>2. /\ \A q \in Requests \ {r} : req'[q] = req[q]
          /\ req'[r].claim = req[r].claim /\ req'[r].stage = "posting"
      BY <1>0, <3>1 DEF Request
    <3>3. GoesOn(req[r].stage, req'[r].stage, req[r].claim)
      BY <1>7, <2>2, <3>2 DEF Rehydrate, GoesOn, Early, Armed
    <3>4. QED
      BY <1>7, <3>2, <3>3, CalmStep DEF Rehydrate
  <2>3. QED
    BY <2>1, <2>2
<1>8. ASSUME NEW r \in Requests, ReadSubmissionRecord(r)
      PROVE  ClaimsHeld' /\ OnePostPerClaim'
  <2>1. /\ \A q \in Requests \ {r} : req'[q] = req[q]
        /\ req'[r].claim = req[r].claim /\ req'[r].stage = "committing"
    BY <1>0, <1>8 DEF ReadSubmissionRecord, Request
  <2>2. GoesOn(req[r].stage, req'[r].stage, req[r].claim)
    BY <2>1 DEF GoesOn, Early, Armed
  <2>3. QED
    BY <1>8, <2>1, <2>2, CalmStep DEF ReadSubmissionRecord
<1>9. CASE Environment \/ UNCHANGED vars
  <2>1. ASSUME UNCHANGED <<req, posts, claims>> PROVE ClaimsHeld' /\ OnePostPerClaim'
    BY <2>1 DEF ClaimInv, ClaimsHeld, ClaimHeld, HeldAlone, Unposted, OnePostPerClaim
  <2>2. CASE Crash
    <3>1. \A q \in Requests : req'[q].claim = 0 /\ req'[q].stage = "idle"
      BY <2>2 DEF Crash, Idle
    <3>2. UNCHANGED <<claims, posts>>
      BY <2>2 DEF Crash
    <3>3. 0 \in 0 .. claims
      BY DEF ClaimInv, TypeOK
    <3>4. ClaimsHeld'
      BY <3>1, <3>2, <3>3 DEF ClaimsHeld, ClaimHeld, HeldAlone, Armed
    <3>5. QED
      BY <3>2, <3>4 DEF ClaimInv, OnePostPerClaim
  <2>3. QED
    BY <1>9, <2>1, <2>2 DEF Environment, ExpireClaim, LapseApproval, ChangeWorld, vars
<1>10. QED
  BY <1>1, <1>2, <1>3, <1>4, <1>5, <1>6, <1>7, <1>8, <1>9, PostHolds
     DEF Next, Handler, Submitting

\* The strengthening holds at the start and every step keeps it.
LEMMA ClaimInvHolds == Spec => []ClaimInv
<1>1. Init => ClaimInv
  <2> SUFFICES ASSUME Init PROVE ClaimInv
    OBVIOUS
  <2>1. \A q \in Requests : req[q].claim = 0 /\ req[q].stage = "idle"
    BY DEF Init, Idle
  <2>2. ClaimsHeld
    BY <2>1 DEF Init, ClaimsHeld, ClaimHeld, HeldAlone, Armed
  <2>3. OnePostPerClaim
    BY DEF Init, OnePostPerClaim
  <2>4. QED
    BY InitType, <2>2, <2>3 DEF ClaimInv
<1>2. ClaimInv /\ [Next]_vars => ClaimInv'
  BY StepType, ClaimStep DEF ClaimInv
<1>3. QED
  BY <1>1, <1>2, PTL DEF Spec

\* Every POST has a committed claim of its own, for every number of handlers,
\* and no claim is used again after a crash (claim_submission, submit).
THEOREM ClaimsAreSpentOnce == Spec => []OnePostPerClaim
<1>1. ClaimInv => OnePostPerClaim
  BY DEF ClaimInv
<1>2. QED
  BY ClaimInvHolds, <1>1, PTL

-----------------------------------------------------------------------------
(* The gate.  A handler's claim has not expired while the handler holds it: *)
(* it is fresh when it is taken, and its ten minutes outlast the handler.   *)

ClaimsLive ==
  /\ expired \subseteq 1 .. claims
  /\ \A r \in Requests : req[r].claim \notin expired

\* Handlers give their claims back, keep them, or take the next number.
LEMMA ClaimsTaken ==
  ASSUME TypeOK, NEW r \in Requests,
         Handler(r) \/ \E op \in Ops, d \in Drafts : Begin(r, op, d)
  PROVE  /\ claims' \in {claims, claims + 1} /\ UNCHANGED expired
         /\ \A q \in Requests : \/ req'[q].claim \in {req[q].claim, 0}
                                \/ req'[q].claim = claims + 1 /\ claims' = claims + 1
<1> USE DEF db, memory, remote, environment
<1> DEFINE Taken == \A q \in Requests : \/ req'[q].claim \in {req[q].claim, 0}
                                        \/ req'[q].claim = claims + 1 /\ claims' = claims + 1
<1>0. req \in [Requests -> Request] /\ req[r] \in Request
  BY DEF TypeOK
<1>1. ASSUME NEW reply, req' = [req EXCEPT ![r] = Idle(reply)] PROVE Taken
  BY <1>0, <1>1 DEF Idle
<1>2. ASSUME NEW draft, Store(r, draft) PROVE Taken
  BY <1>0, <1>2 DEF Store, Request
<1>3. ASSUME NEW claim, NEW reply, AfterClaim(r, claim, reply),
             claim = 0 \/ (claim = claims + 1 /\ claims' = claims + 1)
      PROVE  Taken
  BY <1>0, <1>3 DEF AfterClaim, Request
<1>4. CASE \E op \in Ops, d \in Drafts : Begin(r, op, d)
  <2>1. PICK op, d : Begin(r, op, d)
    BY <1>4
  <2>2. /\ \A q \in Requests \ {r} : req'[q] = req[q]
        /\ req'[r].claim = 0
    BY <1>0, <2>1 DEF Begin, Idle
  <2>3. QED
    BY <2>1, <2>2 DEF Begin
<1>5. CASE Bind(r)
  <2>1. CASE req' = [req EXCEPT ![r] = Idle("not_approved")]
    BY <1>1, <1>5, <2>1 DEF Bind
  <2>2. CASE req' = [req EXCEPT ![r] = [req[r] EXCEPT !.stage = "bound",
                                          !.snap = NoSnapshot, !.seen = world]]
    <3>1. /\ \A q \in Requests \ {r} : req'[q] = req[q]
          /\ req'[r].claim = req[r].claim
      BY <1>0, <2>2 DEF Request
    <3>2. QED
      BY <1>5, <3>1 DEF Bind
  <2>3. QED
    BY <1>5, <2>1, <2>2 DEF Bind
<1>6. CASE Workflow(r)
  <2>1. \E draft : Store(r, draft)
    BY <1>6 DEF Workflow, CreateDraft, MarkReady, ApplyEdits, HumanApprove, Reconcile,
       ApplyRemote
  <2>2. UNCHANGED <<claims, expired>>
    BY <1>6 DEF Workflow, CreateDraft, MarkReady, ApplyEdits, HumanApprove, Reconcile
  <2>3. QED
    BY <1>2, <2>1, <2>2
<1>7. CASE Refuse(r) \/ RejectStale(r) \/ Commit(r)
  BY <1>1, <1>7 DEF Refuse, RejectStale, Commit
<1>8. CASE ReadSubmissionRow(r)
  <2>1. CASE Reading(r) = "none"
    <3>1. /\ \A q \in Requests \ {r} : req'[q] = req[q]
          /\ req'[r].claim = req[r].claim
      BY <1>0, <1>8, <2>1 DEF ReadSubmissionRow, Request
    <3>2. QED
      BY <1>8, <3>1 DEF ReadSubmissionRow
  <2>2. CASE Reading(r) # "none"
    <3>1. AfterClaim(r, 0, Reading(r)) /\ UNCHANGED <<claims, expired>>
      BY <1>8, <2>2 DEF ReadSubmissionRow
    <3>2. Taken
      BY <1>3, <3>1
    <3>3. QED
      BY <3>1, <3>2
  <2>3. QED
    BY <2>1, <2>2
<1>9. CASE ClaimSubmission(r)
  <2>1. claims' \in {claims, claims + 1} /\ UNCHANGED expired
    BY <1>9 DEF ClaimSubmission
  <2>2. PICK claim, reply : /\ AfterClaim(r, claim, reply)
                            /\ claim = 0 \/ (claim = claims + 1 /\ claims' = claims + 1)
    <3>1. CASE RowClaimable(r)
      <4>1. claims' = claims + 1 /\ ClaimDraft(r, claims + 1)
        BY <1>9, <3>1 DEF ClaimSubmission
      <4>2. \E reply : AfterClaim(r, claims + 1, reply) \/ AfterClaim(r, 0, reply)
        BY <4>1 DEF ClaimDraft
      <4>3. QED
        BY <4>1, <4>2
    <3>2. CASE ~RowClaimable(r)
      <4>1. AfterClaim(r, 0, "submission_in_progress")
        BY <1>9, <3>2 DEF ClaimSubmission
      <4>2. QED
        BY <4>1
    <3>3. QED
      BY <3>1, <3>2
  <2>3. QED
    BY <1>3, <2>1, <2>2
<1>10. CASE Rehydrate(r)
  <2>1. CASE req[r].claim = 0
    BY <1>1, <1>10, <2>1 DEF Rehydrate
  <2>2. CASE req[r].claim # 0
    BY <1>0, <1>10, <2>2 DEF Rehydrate, Request
  <2>3. QED
    BY <2>1, <2>2
<1>11. CASE PostReport(r)
  BY <1>2, <1>11 DEF PostReport
<1>12. CASE ReadSubmissionRecord(r)
  BY <1>0, <1>12 DEF ReadSubmissionRecord, Request
<1>13. QED
  BY <1>4, <1>5, <1>6, <1>7, <1>8, <1>9, <1>10, <1>11, <1>12 DEF Handler, Submitting

\* No step lets a claim expire that a handler holds, and a new one is fresh.
LEMMA LiveStep == TypeOK /\ ClaimsLive /\ [Next]_vars => ClaimsLive'
<1> SUFFICES ASSUME TypeOK, ClaimsLive, [Next]_vars PROVE ClaimsLive'
  OBVIOUS
<1> USE DEF db, memory, remote, environment
<1>1. /\ claims \in Nat /\ 1 .. claims \subseteq 1 .. claims + 1
      /\ 0 \notin expired /\ claims + 1 \notin expired
  BY DEF TypeOK, ClaimsLive
<1>2. ASSUME NEW r \in Requests,
             Handler(r) \/ \E op \in Ops, d \in Drafts : Begin(r, op, d)
      PROVE  ClaimsLive'
  <2>1. /\ claims' \in {claims, claims + 1} /\ UNCHANGED expired
        /\ \A q \in Requests : \/ req'[q].claim \in {req[q].claim, 0}
                               \/ req'[q].claim = claims + 1 /\ claims' = claims + 1
    BY <1>2, ClaimsTaken
  <2>2. QED
    BY <1>1, <2>1 DEF ClaimsLive
<1>3. ASSUME NEW n, ExpireClaim(n) PROVE ClaimsLive'
  BY <1>3 DEF ExpireClaim, ClaimsLive
<1>4. CASE Crash
  <2>1. \A q \in Requests : req'[q].claim = 0
    BY <1>4 DEF Crash, Idle
  <2>2. QED
    BY <1>1, <1>4, <2>1 DEF Crash, ClaimsLive
<1>5. ASSUME NEW n, LapseApproval(n) \/ ChangeWorld \/ UNCHANGED vars PROVE ClaimsLive'
  BY <1>5 DEF LapseApproval, ChangeWorld, vars, ClaimsLive
<1>6. QED
  BY <1>2, <1>3, <1>4, <1>5 DEF Next, Environment

\* What the gate's steps are checked under: approvals and claims are kept as the two
\* theorems above show, and a claim that a handler holds has not expired.
LEMMA GateInvariant == Spec => [](ApprovalInv /\ ClaimInv /\ ClaimsLive)
<1>1. Init => ClaimsLive
  BY DEF Init, ClaimsLive, Idle
<1>2. TypeOK /\ ClaimsLive /\ [Next]_vars => ClaimsLive'
  BY LiveStep
<1>3. QED
  BY <1>1, <1>2, TypeCorrect, ApprovalHolds, ClaimInvHolds, PTL DEF Spec

gate == <<granted, lapsed, claims, expired, Sent>>

\* What the gate sees of a history does not change as long as the history does not.
LEMMA GateUnseen ==
  ASSUME UNCHANGED <<granted, lapsed, claims, expired, posts>>
  PROVE  UNCHANGED gate
  BY DEF gate, Sent

\* A human's approval is the gate's.
LEMMA GateApproves ==
  ASSUME TypeOK, NEW r \in Requests, HumanApprove(r)
  PROVE  Gate!Approve
<1> USE DEF db, memory, remote, environment
<1> DEFINE g == [draft |-> req[r].draft, content |-> memDraft[req[r].draft].content,
                 scope |-> req[r].seen.scope, evidence |-> req[r].seen.evidence]
<1>1. granted' = Append(granted, g) /\ granted \in Seq(Grant) /\ g \in Grant
  BY RequestTypes DEF HumanApprove, Grant, Draft, TypeOK
<1> HIDE DEF g
<1>2. Len(granted') = Len(granted) + 1 /\ granted'[Len(granted) + 1] = g
  BY <1>1
<1>3. UNCHANGED <<lapsed, claims, expired, Sent>>
  BY DEF HumanApprove, Sent
<1>4. QED
  BY <1>1, <1>2, <1>3 DEF Gate!Approve

\* A POST passes the gate: its approval was granted to this draft and still holds,
\* the report hashes to what was approved, and its claim is live and unspent.
LEMMA GateSends ==
  ASSUME ApprovalInv, ClaimInv, ClaimsLive, NEW r \in Requests, PostReport(r)
  PROVE  Gate!Send
<1> USE DEF db, memory, remote, environment
<1> DEFINE d == req[r].draft
           a == memDraft[d].approval
           n == req[r].claim
           what == [draft |-> d, content |-> memDraft[d].content,
                    scope |-> req[r].seen.scope, evidence |-> req[r].seen.evidence]
           post(o) == [draft |-> d, content |-> memDraft[d].content,
                       scope |-> req[r].seen.scope, evidence |-> req[r].seen.evidence,
                       approval |-> a, claim |-> n, outcome |-> o]
           entry(x) == [report |-> [draft |-> x.draft, content |-> x.content,
                                    scope |-> x.scope, evidence |-> x.evidence],
                        approval |-> x.approval, claim |-> x.claim]
<1>1. TypeOK /\ ClaimHeld(r)
  BY DEF ApprovalInv, ClaimInv, ClaimsHeld
<1>2. d \in Drafts /\ memDraft[d] \in Draft /\ n \in Nat
  BY <1>1, RequestTypes DEF Request
<1>3. PICK o \in Outcomes : posts' = Append(posts, post(o))
  BY DEF PostReport
<1>4. req[r].stage = "posting" /\ a # 0 /\ Matches(memDraft[d], a, req[r].seen)
  BY DEF PostReport, Postable
<1>5. a \in 1 .. Len(granted) /\ granted[a].draft = d /\ a \notin lapsed
  BY <1>2, <1>4 DEF ApprovalInv, OwnApprovals, MemoryOwns, Owned, Matches
<1>6. granted[a] \in Grant
  BY <1>1, <1>5 DEF TypeOK
<1>7. granted[a] = what
  BY <1>4, <1>5, <1>6 DEF Matches, Grant
<1>8. n \in 1 .. claims /\ n \notin expired /\ Unposted(n)
  BY <1>1, <1>4 DEF ClaimHeld, ClaimsLive, Armed, TypeOK
<1>9. n \notin Gate!Spent
  <2>1. /\ Len(Sent) = Len(posts)
        /\ \A i \in 1 .. Len(posts) : Sent[i].claim = posts[i].claim
    <3>1. Len(posts) \in Nat
      BY <1>1 DEF TypeOK
    <3>2. DOMAIN Sent = 1 .. Len(posts) /\ Sent \in Seq({Sent[i] : i \in 1 .. Len(posts)})
      BY <3>1 DEF Sent
    <3>3. QED
      BY <3>1, <3>2 DEF Sent
  <2>2. QED
    BY <1>8, <2>1 DEF Gate!Spent, Unposted
<1>10. post(o) \in Post /\ posts \in Seq(Post)
  BY <1>1, <1>2, RequestTypes DEF Post, Draft, TypeOK
<1>11. entry(post(o)) = [report |-> what, approval |-> a, claim |-> n]
  OBVIOUS
<1> DEFINE p == post(o)
<1>12. Sent' = Append(Sent, entry(p))
  <2> HIDE DEF post, p
  <2>1. posts' = Append(posts, p) /\ p \in Post
    BY <1>3, <1>10 DEF p
  <2>2. /\ Len(posts') = Len(posts) + 1 /\ Len(posts) \in Nat
        /\ \A i \in 1 .. Len(posts') :
             posts'[i] = IF i = Len(posts) + 1 THEN p ELSE posts[i]
    BY <1>10, <2>1
  <2>3. Sent = [i \in 1 .. Len(posts) |-> entry(posts[i])]
    BY DEF Sent
  <2>4. Sent' = [i \in 1 .. Len(posts') |-> entry(posts'[i])]
    BY DEF Sent
  <2> HIDE DEF entry
  <2>5. Len(Sent) = Len(posts) /\ DOMAIN Sent = 1 .. Len(posts)
    BY <2>2, <2>3
  <2>6. QED
    BY <2>2, <2>3, <2>4, <2>5
<1>13. UNCHANGED <<granted, lapsed, claims, expired>>
  BY DEF PostReport
<1>14. Sent' = Append(Sent, [report |-> granted[a], approval |-> a, claim |-> n])
  BY <1>7, <1>11, <1>12
<1> HIDE DEF d, a, n, what, post, entry, p
<1>15. QED
  BY <1>5, <1>8, <1>9, <1>13, <1>14 DEF Gate!Send

\* Every step of the service is a step of the gate or one that the gate does not see.
LEMMA GateStep ==
  ApprovalInv /\ ClaimInv /\ ClaimsLive /\ [Next]_vars => [Gate!Next]_gate
<1> SUFFICES ASSUME ApprovalInv, ClaimInv, ClaimsLive, [Next]_vars
             PROVE  Gate!Next \/ UNCHANGED gate
  OBVIOUS
<1> USE DEF db, memory, remote, environment
<1>0. TypeOK
  BY DEF ApprovalInv
<1>1. ASSUME NEW r \in Requests, HumanApprove(r) PROVE Gate!Next
  BY <1>0, <1>1, GateApproves DEF Gate!Next
<1>2. ASSUME NEW r \in Requests, PostReport(r) PROVE Gate!Next
  BY <1>2, GateSends DEF Gate!Next
<1>3. ASSUME NEW r \in Requests, ClaimSubmission(r) PROVE Gate!Next \/ UNCHANGED gate
  <2>1. UNCHANGED <<granted, lapsed, expired, posts>>
    BY <1>3 DEF ClaimSubmission
  <2>2. CASE claims' = claims
    BY <2>1, <2>2, GateUnseen
  <2>3. CASE claims' = claims + 1
    BY <2>1, <2>3 DEF Gate!Next, Gate!Claim, Sent
  <2>4. QED
    BY <1>3, <2>2, <2>3 DEF ClaimSubmission
<1>4. ASSUME NEW r \in Requests, ReadSubmissionRow(r) PROVE UNCHANGED gate
  BY <1>4, GateUnseen DEF ReadSubmissionRow
<1>5. ASSUME NEW r \in Requests, Bind(r) \/ Refuse(r) \/ RejectStale(r) \/ Rehydrate(r)
      PROVE  UNCHANGED gate
  BY <1>5, GateUnseen DEF Bind, Refuse, RejectStale, Rehydrate
<1>6. ASSUME NEW r \in Requests, CreateDraft(r) \/ MarkReady(r) \/ ApplyEdits(r) \/ Reconcile(r)
      PROVE  UNCHANGED gate
  BY <1>6, GateUnseen DEF CreateDraft, MarkReady, ApplyEdits, Reconcile
<1>7. ASSUME NEW r \in Requests, ReadSubmissionRecord(r) \/ Commit(r)
      PROVE  UNCHANGED gate
  BY <1>7, GateUnseen DEF ReadSubmissionRecord, Commit
<1>8. ASSUME NEW r \in Requests, NEW op \in Ops, NEW d \in Drafts, Begin(r, op, d)
      PROVE  UNCHANGED gate
  BY <1>8, GateUnseen DEF Begin
<1>9. ASSUME NEW n, ExpireClaim(n) PROVE Gate!Next
  <2>1. UNCHANGED <<granted, lapsed, claims, Sent>>
    BY <1>9 DEF ExpireClaim, Sent
  <2>2. QED
    BY <1>9, <2>1 DEF ExpireClaim, Gate!Next, Gate!Expire
<1>10. ASSUME NEW n, LapseApproval(n) PROVE Gate!Next
  <2>1. UNCHANGED <<granted, claims, expired, Sent>>
    BY <1>10 DEF LapseApproval, Sent
  <2>2. QED
    BY <1>10, <2>1 DEF LapseApproval, Gate!Next, Gate!Lapse
<1>11. CASE ChangeWorld \/ Crash \/ UNCHANGED vars
  BY <1>11, GateUnseen DEF ChangeWorld, Crash, vars
<1>12. QED
  BY <1>1, <1>2, <1>3, <1>4, <1>5, <1>6, <1>7, <1>8, <1>9, <1>10, <1>11
     DEF Next, Handler, Workflow, Submitting, Environment

\* However the handlers interleave, whatever is edited, lost in a partial save or cut
\* off by a crash: a report is sent only as approved, while the approval holds, and
\* under a committed claim that is live and unspent (reports.py submit).
THEOREM GateKept == Spec => KeepsGate
<1>1. Init => Gate!Init
  <2> SUFFICES ASSUME Init PROVE Gate!Init
    OBVIOUS
  <2>1. Len(posts) = 0 /\ 1 .. Len(posts) = {}
    BY DEF Init
  <2>2. Sent = << >>
    BY <2>1 DEF Sent
  <2>3. QED
    BY <2>2 DEF Init, Gate!Init
<1>2. ApprovalInv /\ ClaimInv /\ ClaimsLive /\ [Next]_vars => [Gate!Next]_gate
  BY GateStep
<1>3. QED
  BY <1>1, <1>2, GateInvariant, PTL DEF Spec, KeepsGate, Gate!Spec, gate

-----------------------------------------------------------------------------
(* Report ids.  That the tables name reports HackerOne accepted is not     *)
(* inductive: the ids travel through the memory, the snapshots, the result *)
(* a handler saves and the submission record it has read.  The             *)
(* strengthening says it of every copy, and of every draft that is in      *)
(* doubt that an attempt for its finding was left without an answer: only  *)
(* there may reconcile take a report of another finding.                   *)

\* An attempt for the finding was left without an answer.
Unanswered(history, f) ==
  \E i \in 1 .. Len(history) :
    /\ history[i].outcome \in {"timeout_accepted", "timeout_lost"}
    /\ FindingOf[history[i].draft] = f

\* RealReport, of a history of posts that is named.
RealIn(history, f, report) ==
  report # 0 =>
    /\ report \in 1 .. Len(history)
    /\ history[report].outcome \in {"accepted", "timeout_accepted"}
    /\ FindingOf[history[report].draft] = f \/ Unanswered(history, f)

\* A copy of draft d: its report is real, and so is its doubt.
DraftIn(history, d, c) ==
  /\ RealIn(history, FindingOf[d], c.report)
  /\ c.state = "submission_outcome_unknown" => Unanswered(history, FindingOf[d])

TablesReal ==
  /\ \A d \in Drafts : DraftIn(posts, d, draftRow[d])
  /\ \A f \in Findings : RealIn(posts, f, subRow[f].report)

DraftsReal == \A d \in Drafts : DraftIn(posts, d, memDraft[d])

SubsReal == \A f \in Findings : RealIn(posts, f, memSub[f].report)

SnapshotReal(snap) ==
  /\ \A d \in Drafts : DraftIn(posts, d, snap.drafts[d])
  /\ \A f \in Findings : RealIn(posts, f, snap.subs[f].report)

RequestReal(r) ==
  /\ DraftIn(posts, req[r].draft, req[r].out)
  /\ RealIn(posts, FindingOfReq(r), req[r].rec.report)
  /\ SnapshotReal(req[r].snap)

RealReports ==
  /\ TablesReal /\ DraftsReal /\ SubsReal
  /\ \A r \in Requests : RequestReal(r)

ReportInv == TypeOK /\ RealReports

\* A further POST leaves the reports HackerOne has where they are.
LEMMA PostKeepsReal ==
  ASSUME NEW history \in Seq(Post), NEW post \in Post, NEW f, NEW report \in Nat,
         RealIn(history, f, report)
  PROVE  RealIn(Append(history, post), f, report)
<1>1. Unanswered(history, f) => Unanswered(Append(history, post), f)
  BY DEF Unanswered
<1>2. QED
  BY <1>1 DEF RealIn

LEMMA PostKeepsDraft ==
  ASSUME NEW history \in Seq(Post), NEW post \in Post, NEW d, NEW c \in Draft,
         DraftIn(history, d, c)
  PROVE  DraftIn(Append(history, post), d, c)
<1>1. Unanswered(history, FindingOf[d]) => Unanswered(Append(history, post), FindingOf[d])
  BY DEF Unanswered
<1>2. RealIn(Append(history, post), FindingOf[d], c.report)
  BY PostKeepsReal DEF DraftIn, Draft
<1>3. QED
  BY <1>1, <1>2 DEF DraftIn

\* The values of an idle request name no report.
LEMMA IdleReal ==
  ASSUME NEW history, NEW reply, NEW g
  PROVE  /\ \A d : DraftIn(history, d, Idle(reply).out)
         /\ RealIn(history, g, Idle(reply).rec.report)
         /\ \A d \in Drafts : DraftIn(history, d, Idle(reply).snap.drafts[d])
         /\ \A f \in Findings : RealIn(history, f, Idle(reply).snap.subs[f].report)
  BY DEF DraftIn, RealIn, Idle, NoDraft, NoSubmission, NoSnapshot

\* A draft without report and doubt is real.
LEMMA BlandReal ==
  /\ \A history, d, c :
       c.report = 0 /\ c.state # "submission_outcome_unknown" => DraftIn(history, d, c)
  /\ \A history, d : DraftIn(history, d, NoDraft)
  BY DEF DraftIn, RealIn, NoDraft

\* A request that becomes idle names no report.
LEMMA IdleRequestReal ==
  ASSUME NEW r, NEW reply, req'[r] = Idle(reply)
  PROVE  RequestReal(r)'
<1>1. /\ DraftIn(posts', req'[r].draft, req'[r].out)
      /\ RealIn(posts', FindingOfReq(r)', req'[r].rec.report)
      /\ \A d \in Drafts : DraftIn(posts', d, req'[r].snap.drafts[d])
      /\ \A f \in Findings : RealIn(posts', f, req'[r].snap.subs[f].report)
  BY IdleReal
<1>2. QED
  BY <1>1 DEF RequestReal, SnapshotReal

\* While nothing is posted, a request whose copies do not change keeps them real.
LEMMA SameReal ==
  ASSUME NEW r, RequestReal(r), UNCHANGED posts,
         req'[r].draft = req[r].draft, req'[r].out = req[r].out,
         req'[r].rec = req[r].rec, req'[r].snap = req[r].snap
  PROVE  RequestReal(r)'
  BY DEF RequestReal, SnapshotReal, FindingOfReq

\* A request that drops its snapshot keeps the rest real.
LEMMA DroppedReal ==
  ASSUME NEW r, RequestReal(r), UNCHANGED posts,
         req'[r].draft = req[r].draft, req'[r].out = req[r].out,
         req'[r].rec = req[r].rec, req'[r].snap = NoSnapshot
  PROVE  RequestReal(r)'
<1>1. SnapshotReal(req[r].snap)'
  BY DEF SnapshotReal, DraftIn, RealIn, NoSnapshot, NoDraft, NoSubmission
<1>2. QED
  BY <1>1 DEF RequestReal, FindingOfReq

\* What the memory holds after a hydrate is real if the snapshot is.
LEMMA HydrateReal ==
  ASSUME DraftsReal, SubsReal, NEW snap, SnapshotReal(snap), UNCHANGED posts,
         Hydrate(snap)
  PROVE  DraftsReal' /\ SubsReal'
<1>1. DraftsReal'
  BY DEF DraftsReal, SnapshotReal, Hydrate, HydratedDrafts
<1>2. SubsReal'
  BY DEF SubsReal, SnapshotReal, Hydrate, HydratedSubs
<1>3. QED
  BY <1>1, <1>2

\* A request that ends names no report, the others what they named.
LEMMA EndReal ==
  ASSUME ReportInv, NEW r \in Requests, NEW reply, UNCHANGED posts,
         req' = [req EXCEPT ![r] = Idle(reply)]
  PROVE  \A q \in Requests : RequestReal(q)'
<1> TAKE q \in Requests
<1>1. CASE q = r
  <2>1. req'[q] = Idle(reply)
    BY <1>1 DEF ReportInv, TypeOK
  <2>2. QED
    BY <2>1, IdleRequestReal
<1>2. CASE q # r
  <2>1. req'[q] = req[q]
    BY <1>2 DEF ReportInv, TypeOK
  <2>2. QED
    BY <2>1, SameReal DEF ReportInv, RealReports
<1>3. QED
  BY <1>1, <1>2

\* A workflow call that stores a draft with a real report, and with it a real
\* submission record, keeps every copy real, whether it has posted or not.
LEMMA StoreReal ==
  ASSUME ReportInv, NEW r \in Requests, NEW draft \in Draft, Store(r, draft),
         DraftIn(posts', req[r].draft, draft), SubsReal',
         \A f \in Findings, n \in Nat : RealIn(posts, f, n) => RealIn(posts', f, n),
         \A d \in Drafts, c \in Draft : DraftIn(posts, d, c) => DraftIn(posts', d, c),
         UNCHANGED <<draftRow, subRow>>
  PROVE  RealReports'
<1>1. TypeOK /\ req \in [Requests -> Request] /\ memDraft \in [Drafts -> Draft]
  BY DEF ReportInv, TypeOK
<1>2. TablesReal'
  <2>1. \A d \in Drafts : draftRow[d] \in Draft
    BY <1>1 DEF TypeOK
  <2>2. \A f \in Findings : subRow[f].report \in Nat
    BY <1>1 DEF TypeOK, Row
  <2>3. QED
    BY <2>1, <2>2 DEF ReportInv, RealReports, TablesReal
<1>3. DraftsReal'
  <2>1. ASSUME NEW d \in Drafts PROVE DraftIn(posts', d, memDraft'[d])
    <3>1. CASE d = req[r].draft
      <4>1. memDraft'[d] = draft
        BY <1>1, <3>1 DEF Store
      <4>2. QED
        BY <3>1, <4>1
    <3>2. CASE d # req[r].draft
      <4>1. memDraft'[d] = memDraft[d] /\ memDraft[d] \in Draft
        BY <1>1, <3>2 DEF Store
      <4>2. QED
        BY <4>1 DEF ReportInv, RealReports, DraftsReal
    <3>3. QED
      BY <3>1, <3>2
  <2>2. QED
    BY <2>1 DEF DraftsReal
<1>4. ASSUME NEW q \in Requests PROVE RequestReal(q)'
  <2>1. /\ req'[q].draft = req[q].draft /\ req'[q].snap = req[q].snap
        /\ req'[q].rec = req[q].rec
        /\ req'[q].out = IF q = r THEN draft ELSE req[q].out
    BY <1>1 DEF Store, Request
  <2>2. /\ FindingOfReq(q) \in Findings /\ req[q].out \in Draft /\ req[q].draft \in Drafts
        /\ req[q].rec.report \in Nat
    BY <1>1, RequestTypes DEF Request, Submission
  <2>3. /\ \A d \in Drafts : req[q].snap.drafts[d] \in Draft
        /\ \A f \in Findings : req[q].snap.subs[f].report \in Nat
    BY <1>1, RequestTypes DEF Request, Submission
  <2>4. RequestReal(q)
    BY DEF ReportInv, RealReports
  <2>5. /\ RealIn(posts', FindingOfReq(q), req'[q].rec.report)
        /\ DraftIn(posts', req[q].draft, req'[q].out)
    BY <2>1, <2>2, <2>4 DEF RequestReal
  <2>6. /\ \A d \in Drafts : DraftIn(posts', d, req'[q].snap.drafts[d])
        /\ \A f \in Findings : RealIn(posts', f, req'[q].snap.subs[f].report)
    BY <2>1, <2>3, <2>4 DEF RequestReal, SnapshotReal
  <2>7. FindingOfReq(q)' = FindingOfReq(q)
    BY <2>1 DEF FindingOfReq
  <2>8. QED
    BY <2>1, <2>5, <2>6, <2>7 DEF RequestReal, SnapshotReal
<1>5. QED
  BY <1>2, <1>3, <1>4 DEF RealReports

\* A workflow call that posts nothing and leaves the submissions alone.
LEMMA StoreOnlyReal ==
  ASSUME ReportInv, NEW r \in Requests, NEW draft \in Draft, Store(r, draft),
         DraftIn(posts, req[r].draft, draft),
         UNCHANGED <<posts, memSub, draftRow, subRow>>
  PROVE  RealReports'
<1>1. SubsReal'
  BY DEF ReportInv, RealReports, SubsReal
<1>2. QED
  BY <1>1, StoreReal

\* commit and hydrate after a claim read rows whose reports are real.
LEMMA AfterClaimReal ==
  ASSUME ReportInv, NEW r \in Requests, NEW claim, NEW reply,
         AfterClaim(r, claim, reply), TablesReal',
         UNCHANGED <<posts, memDraft, memSub>>
  PROVE  RealReports'
<1>1. req \in [Requests -> Request]
  BY DEF ReportInv, TypeOK
<1>2. ASSUME NEW q \in Requests PROVE RequestReal(q)'
  <2>1. CASE q = r
    <3>1. /\ req'[q].draft = req[q].draft /\ req'[q].out = req[q].out
          /\ req'[q].rec = req[q].rec /\ req'[q].snap = Tables'
      BY <1>1, <2>1 DEF AfterClaim, Request
    <3>2. SnapshotReal(req[q].snap)'
      BY <3>1 DEF SnapshotReal, TablesReal, Tables
    <3>3. RequestReal(q)
      BY DEF ReportInv, RealReports
    <3>4. QED
      BY <3>1, <3>2, <3>3 DEF RequestReal, FindingOfReq
  <2>2. CASE q # r
    <3>1. req'[q] = req[q]
      BY <2>2 DEF AfterClaim, ReportInv, TypeOK
    <3>2. QED
      BY <3>1, SameReal DEF ReportInv, RealReports
  <2>3. QED
    BY <2>1, <2>2
<1>3. DraftsReal' /\ SubsReal'
  BY DEF ReportInv, RealReports, DraftsReal, SubsReal
<1>4. QED
  BY <1>2, <1>3 DEF RealReports

\* A handler that only fills the memory and drops its snapshot, or ends.
LEMMA FillReal ==
  ASSUME ReportInv, NEW r \in Requests, NEW next, NEW reply, Hydrate(req[r].snap),
         req' = [req EXCEPT ![r] = next],
         \/ next = Idle(reply)
         \/ /\ next.draft = req[r].draft /\ next.out = req[r].out
            /\ next.rec = req[r].rec /\ next.snap = NoSnapshot,
         UNCHANGED <<posts, draftRow, subRow>>
  PROVE  RealReports'
<1>1. DraftsReal' /\ SubsReal'
  BY HydrateReal DEF ReportInv, RealReports, RequestReal
<1>2. ASSUME NEW q \in Requests PROVE RequestReal(q)'
  <2>1. req'[q] = IF q = r THEN next ELSE req[q]
    BY DEF ReportInv, TypeOK
  <2>2. RequestReal(q)
    BY DEF ReportInv, RealReports
  <2>3. CASE q # r
    BY <2>1, <2>2, <2>3, SameReal
  <2>4. CASE q = r /\ next = Idle(reply)
    BY <2>1, <2>4, IdleRequestReal
  <2>5. CASE q = r /\ next # Idle(reply)
    BY <2>1, <2>2, <2>5, DroppedReal
  <2>6. QED
    BY <2>3, <2>4, <2>5
<1>3. QED
  BY <1>1, <1>2 DEF ReportInv, RealReports, TablesReal

\* What HackerOne lists for a draft is a real report, where its finding's own
\* attempt was left without an answer.
LEMMA ListedReal ==
  ASSUME TypeOK, NEW d \in Drafts, NEW i \in Listed(d), Unanswered(posts, FindingOf[d])
  PROVE  i \in Nat /\ RealIn(posts, FindingOf[d], i)
  BY DEF Listed, Accepted, RealIn, TypeOK

\* The POST: an accepted report is real for its finding, every other one still is.
LEMMA PostReal ==
  ASSUME ReportInv, NEW r \in Requests, PostReport(r)
  PROVE  RealReports'
<1> DEFINE d == req[r].draft
           result(o) == [memDraft[d] EXCEPT !.state = StateAfter(o),
                           !.report = IF o = "accepted" THEN Len(posts) + 1 ELSE @]
           post(o) == [draft |-> d, content |-> memDraft[d].content,
                       scope |-> req[r].seen.scope, evidence |-> req[r].seen.evidence,
                       approval |-> memDraft[d].approval, claim |-> req[r].claim,
                       outcome |-> o]
<1>1. PICK o \in Outcomes :
        /\ posts' = Append(posts, post(o))
        /\ Store(r, result(o))
        /\ memSub' = [memSub EXCEPT ![FindingOf[d]] =
                        [state |-> result(o).state, report |-> result(o).report]]
  BY DEF PostReport
<1>2. /\ TypeOK /\ d \in Drafts /\ FindingOf[d] \in Findings /\ memDraft[d] \in Draft
      /\ posts \in Seq(Post) /\ memSub \in [Findings -> Submission]
  BY RequestTypes DEF ReportInv, TypeOK
<1>3. post(o) \in Post /\ post(o).draft = d /\ post(o).outcome = o
  BY <1>2, RequestTypes DEF Post, Draft, Request
<1>4. Len(posts) + 1 \in Nat /\ StateAfter(o) \in SubmissionStates
  BY <1>2 DEF StateAfter, SubmissionStates
<1>5. result(o) \in Draft
  BY <1>2, <1>4 DEF Draft
<1>6. result(o).report = IF o = "accepted" THEN Len(posts) + 1 ELSE memDraft[d].report
  BY <1>2, <1>4 DEF Draft
<1> HIDE DEF post, result
<1>7. ASSUME NEW f \in Findings, NEW n \in Nat, RealIn(posts, f, n)
      PROVE  RealIn(posts', f, n)
  BY <1>1, <1>2, <1>3, <1>7, PostKeepsReal
<1>8. ASSUME NEW e \in Drafts, NEW c \in Draft, DraftIn(posts, e, c)
      PROVE  DraftIn(posts', e, c)
  BY <1>1, <1>2, <1>3, <1>8, PostKeepsDraft
<1>9. RealIn(posts', FindingOf[d], result(o).report)
  <2>1. CASE o = "accepted"
    <3>1. posts'[Len(posts) + 1] = post(o) /\ Len(posts) + 1 \in 1 .. Len(posts')
      BY <1>1, <1>2, <1>3
    <3>2. QED
      BY <1>3, <1>6, <2>1, <3>1 DEF RealIn
  <2>2. CASE o # "accepted"
    <3>1. RealIn(posts, FindingOf[d], memDraft[d].report) /\ memDraft[d].report \in Nat
      BY <1>2 DEF ReportInv, RealReports, DraftsReal, DraftIn, Draft
    <3>2. QED
      BY <1>2, <1>6, <1>7, <2>2, <3>1
  <2>3. QED
    BY <2>1, <2>2
<1>10. DraftIn(posts', d, result(o))
  <2>1. result(o).state = StateAfter(o)
    BY <1>2, <1>4 DEF Draft, result
  <2>2. StateAfter(o) = "submission_outcome_unknown" => o \in {"timeout_accepted", "timeout_lost"}
    BY DEF StateAfter, Outcomes
  <2>3. posts'[Len(posts) + 1] = post(o) /\ Len(posts) + 1 \in 1 .. Len(posts')
    BY <1>1, <1>2, <1>3
  <2>4. o \in {"timeout_accepted", "timeout_lost"} => Unanswered(posts', FindingOf[d])
    BY <1>3, <2>3 DEF Unanswered
  <2>5. QED
    BY <1>9, <2>1, <2>2, <2>4 DEF DraftIn
<1>11. SubsReal'
  <2>1. ASSUME NEW f \in Findings PROVE RealIn(posts', f, memSub'[f].report)
    <3>1. CASE f = FindingOf[d]
      BY <1>1, <1>2, <1>9, <3>1
    <3>2. CASE f # FindingOf[d]
      <4>1. memSub'[f] = memSub[f] /\ memSub[f].report \in Nat
        BY <1>1, <1>2, <3>2 DEF Submission
      <4>2. QED
        BY <1>7, <4>1 DEF ReportInv, RealReports, SubsReal
    <3>3. QED
      BY <3>1, <3>2
  <2>2. QED
    BY <2>1 DEF SubsReal
<1>12. UNCHANGED <<draftRow, subRow>>
  BY DEF PostReport, db
<1>13. QED
  BY <1>1, <1>5, <1>7, <1>8, <1>10, <1>11, <1>12, StoreReal

\* Reconciliation takes its report from the draft or from HackerOne's list.
LEMMA ReconcileReal ==
  ASSUME ReportInv, NEW r \in Requests, Reconcile(r)
  PROVE  RealReports'
<1> DEFINE d == req[r].draft
           found(i) == [memDraft[d] EXCEPT !.state = "submitted", !.report = i]
<1>1. /\ TypeOK /\ d \in Drafts /\ FindingOf[d] \in Findings /\ memDraft[d] \in Draft
      /\ memSub \in [Findings -> Submission]
      /\ DraftIn(posts, d, memDraft[d]) /\ RealIn(posts, FindingOf[d], memDraft[d].report)
  BY RequestTypes DEF ReportInv, RealReports, DraftsReal, DraftIn, TypeOK
<1>2. UNCHANGED <<posts, draftRow, subRow>>
  BY DEF Reconcile, db, remote
<1>3. ASSUME NEW i \in Nat, RealIn(posts, FindingOf[d], i), ApplyRemote(r, i)
      PROVE  RealReports'
  <2>1. /\ found(i) \in Draft /\ found(i).report = i
        /\ found(i).state # "submission_outcome_unknown"
    BY <1>1 DEF Draft, SubmissionStates
  <2>2. /\ Store(r, found(i))
        /\ memSub' = [memSub EXCEPT ![FindingOf[d]] = [state |-> "submitted", report |-> i]]
    BY <1>3 DEF ApplyRemote
  <2> HIDE DEF found
  <2>3. SubsReal'
    BY <1>1, <1>2, <1>3, <2>2 DEF ReportInv, RealReports, SubsReal
  <2>4. QED
    <3>1. DraftIn(posts, d, found(i))
      BY <1>3, <2>1 DEF DraftIn
    <3>2. QED
      BY <1>2, <2>1, <2>2, <2>3, <3>1, StoreReal
<1>4. CASE ApplyRemote(r, memDraft[d].report)
  <2>1. memDraft[d].report \in Nat
    BY <1>1 DEF Draft
  <2>2. QED
    BY <1>1, <1>3, <1>4, <2>1
<1>5. ASSUME memDraft[d].state = "submission_outcome_unknown",
             NEW i \in Listed(d), ApplyRemote(r, i)
      PROVE  RealReports'
  <2>1. Unanswered(posts, FindingOf[d])
    BY <1>1, <1>5 DEF DraftIn
  <2>2. QED
    BY <1>1, <1>3, <1>5, <2>1, ListedReal
<1>6. CASE Store(r, memDraft[d]) /\ UNCHANGED memSub
  BY <1>1, <1>2, <1>6, StoreOnlyReal
<1>7. QED
  BY <1>4, <1>5, <1>6 DEF Reconcile

\* The commit writes to each row what it held or what the handler has.
LEMMA CommitReal ==
  ASSUME ReportInv, NEW r \in Requests, Commit(r)
  PROVE  RealReports'
<1> DEFINE d == req[r].draft
           f == FindingOf[d]
           row == Flushed(draftRow[d], req[r].base, req[r].out)
           record == Flushed(subRow[f], req[r].recBase, req[r].rec)
<1>1. /\ TypeOK /\ d \in Drafts /\ f \in Findings /\ req[r] \in Request
      /\ draftRow \in [Drafts -> Draft] /\ subRow \in [Findings -> Row]
  BY RequestTypes DEF ReportInv, TypeOK
<1>2. UNCHANGED <<posts, memDraft, memSub>>
  BY DEF Commit, memory, remote
<1>3. DraftIn(posts, d, row)
  <2>1. /\ row.report \in {draftRow[d].report, req[r].out.report}
        /\ row.state \in {draftRow[d].state, req[r].out.state}
    BY <1>1 DEF Flushed, Request, Draft
  <2>2. DraftIn(posts, d, draftRow[d]) /\ DraftIn(posts, d, req[r].out)
    BY <1>1 DEF ReportInv, RealReports, TablesReal, RequestReal
  <2>3. QED
    BY <2>1, <2>2 DEF DraftIn
<1>4. RealIn(posts, f, record.report)
  <2>1. record.report \in {subRow[f].report, req[r].rec.report}
    BY <1>1 DEF Flushed, Request, Submission, Row
  <2>2. /\ RealIn(posts, f, subRow[f].report)
        /\ RealIn(posts, f, req[r].rec.report)
    BY <1>1 DEF ReportInv, RealReports, TablesReal, RequestReal, FindingOfReq
  <2>3. QED
    BY <2>1, <2>2
<1> HIDE DEF row, record
<1>5. /\ draftRow' = [draftRow EXCEPT ![d] = row]
      /\ subRow' = subRow \/ subRow' = [subRow EXCEPT ![f] = record]
  BY DEF Commit, row, record, FindingOfReq
<1>6. TablesReal'
  BY <1>1, <1>2, <1>3, <1>4, <1>5 DEF ReportInv, RealReports, TablesReal
<1>7. \A q \in Requests : RequestReal(q)'
  BY <1>2, EndReal DEF Commit
<1>8. QED
  BY <1>2, <1>6, <1>7 DEF ReportInv, RealReports, DraftsReal, SubsReal

\* Every step keeps every copy of a report id real.
LEMMA ReportStep == ReportInv /\ [Next]_vars => RealReports'
<1> SUFFICES ASSUME ReportInv, [Next]_vars PROVE RealReports'
  OBVIOUS
<1> USE DEF db, memory, remote, environment
<1>0. /\ TypeOK /\ req \in [Requests -> Request]
      /\ \A q \in Requests : RequestReal(q)
  BY DEF ReportInv, RealReports, TypeOK
<1>1. ASSUME NEW r \in Requests, NEW op \in Ops, NEW e \in Drafts, Begin(r, op, e)
      PROVE  RealReports'
  <2>1. ASSUME NEW q \in Requests PROVE RequestReal(q)'
    <3>1. CASE q = r
      <4>1. /\ req'[q].out = NoDraft /\ req'[q].rec = NoSubmission
            /\ req'[q].snap = Tables
        BY <1>0, <1>1, <3>1 DEF Begin, Idle
      <4>2. SnapshotReal(req[q].snap)'
        BY <1>1, <4>1 DEF Begin, ReportInv, RealReports, TablesReal, SnapshotReal, Tables
      <4>3. NoSubmission.report = 0
        BY DEF NoSubmission
      <4>4. QED
        BY <4>1, <4>2, <4>3, BlandReal DEF RequestReal, RealIn
    <3>2. CASE q # r
      <4>1. req'[q] = req[q] /\ UNCHANGED posts
        BY <1>0, <1>1, <3>2 DEF Begin
      <4>2. QED
        BY <1>0, <4>1, SameReal
    <3>3. QED
      BY <3>1, <3>2
  <2>2. QED
    BY <1>1, <2>1 DEF Begin, ReportInv, RealReports, TablesReal, DraftsReal, SubsReal
<1>2. ASSUME NEW r \in Requests, Bind(r) PROVE RealReports'
  <2> DEFINE next == [req[r] EXCEPT !.stage = "bound", !.snap = NoSnapshot, !.seen = world]
  <2>1. /\ next.draft = req[r].draft /\ next.out = req[r].out
        /\ next.rec = req[r].rec /\ next.snap = NoSnapshot
    BY <1>0 DEF Request
  <2>2. \/ req' = [req EXCEPT ![r] = Idle("not_approved")]
        \/ req' = [req EXCEPT ![r] = next]
    BY <1>2 DEF Bind
  <2> HIDE DEF next
  <2>3. Hydrate(req[r].snap) /\ UNCHANGED <<posts, draftRow, subRow>>
    BY <1>2 DEF Bind
  <2>4. QED
    BY <2>1, <2>2, <2>3, FillReal
<1>3. ASSUME NEW r \in Requests, CreateDraft(r) PROVE RealReports'
  <2>1. PICK c \in Contents :
          Store(r, [NoDraft EXCEPT !.made = TRUE, !.content = c, !.scope = req[r].seen.scope])
    BY <1>3 DEF CreateDraft
  <2> DEFINE draft == [NoDraft EXCEPT !.made = TRUE, !.content = c, !.scope = req[r].seen.scope]
  <2>2. draft \in Draft /\ draft.report = 0 /\ draft.state # "submission_outcome_unknown"
    BY <1>0, EmptyTypes, RequestTypes DEF Draft, NoDraft
  <2>3. UNCHANGED <<posts, memSub, draftRow, subRow>>
    BY <1>3 DEF CreateDraft
  <2>4. QED
    BY <2>1, <2>2, <2>3, BlandReal, StoreOnlyReal
<1>4. ASSUME NEW r \in Requests, MarkReady(r) PROVE RealReports'
  <2> DEFINE draft == [memDraft[req[r].draft] EXCEPT !.review = "ready_for_review",
                                                     !.state = "ready_for_review"]
  <2>1. /\ draft \in Draft /\ draft.report = memDraft[req[r].draft].report
        /\ draft.state = "ready_for_review"
    BY <1>0, RequestTypes DEF Draft, ReviewStates, SubmissionStates
  <2>2. DraftIn(posts, req[r].draft, draft)
    BY <1>0, <2>1, RequestTypes DEF ReportInv, RealReports, DraftsReal, DraftIn
  <2>3. Store(r, draft) /\ UNCHANGED <<posts, memSub, draftRow, subRow>>
    BY <1>4 DEF MarkReady
  <2>4. QED
    BY <2>1, <2>2, <2>3, StoreOnlyReal
<1>5. ASSUME NEW r \in Requests, ApplyEdits(r) PROVE RealReports'
  <2> DEFINE edited(c) == [memDraft[req[r].draft] EXCEPT !.content = c, !.scope = req[r].seen.scope]
             stored(c) == IF memDraft[req[r].draft].approval # 0
                             /\ ~Matches(edited(c), memDraft[req[r].draft].approval, req[r].seen)
                          THEN Invalidated(edited(c)) ELSE edited(c)
  <2>1. PICK c \in Contents : Store(r, stored(c))
    BY <1>5 DEF ApplyEdits
  <2>2. /\ edited(c) \in Draft /\ edited(c).report = memDraft[req[r].draft].report
        /\ edited(c).state = memDraft[req[r].draft].state
    BY <1>0, RequestTypes DEF Draft, TypeOK
  <2>3. /\ stored(c) \in Draft /\ stored(c).report = memDraft[req[r].draft].report
        /\ stored(c).state \in {memDraft[req[r].draft].state, "ready_for_review"}
    BY <2>2 DEF Invalidated, Draft, ReviewStates, SubmissionStates
  <2> HIDE DEF stored
  <2>4. DraftIn(posts, req[r].draft, stored(c))
    BY <1>0, <2>3, RequestTypes DEF ReportInv, RealReports, DraftsReal, DraftIn
  <2>5. UNCHANGED <<posts, memSub, draftRow, subRow>>
    BY <1>5 DEF ApplyEdits
  <2>6. QED
    BY <2>1, <2>3, <2>4, <2>5, StoreOnlyReal
<1>6. ASSUME NEW r \in Requests, HumanApprove(r) PROVE RealReports'
  <2> DEFINE g == [draft |-> req[r].draft, content |-> memDraft[req[r].draft].content,
                   scope |-> req[r].seen.scope, evidence |-> req[r].seen.evidence]
             draft == [memDraft[req[r].draft] EXCEPT
                         !.review = "human_approved", !.state = "human_approved",
                         !.scope = req[r].seen.scope, !.approval = Len(granted')]
  <2>1. /\ granted' = Append(granted, g) /\ Store(r, draft)
        /\ UNCHANGED <<posts, memSub, draftRow, subRow>>
    BY <1>6 DEF HumanApprove
  <2>2. g \in Grant
    BY <1>0, RequestTypes DEF Grant, Draft
  <2>3. Len(granted') \in Nat
    BY <1>0, <2>1, <2>2 DEF TypeOK
  <2>4. /\ draft \in Draft /\ draft.report = memDraft[req[r].draft].report
        /\ draft.state = "human_approved"
    BY <1>0, <2>3, RequestTypes DEF Draft, ReviewStates, SubmissionStates
  <2> HIDE DEF draft, g
  <2>5. DraftIn(posts, req[r].draft, draft)
    BY <1>0, <2>4, RequestTypes DEF ReportInv, RealReports, DraftsReal, DraftIn
  <2>6. QED
    BY <2>1, <2>4, <2>5, StoreOnlyReal
<1>7. ASSUME NEW r \in Requests, Refuse(r) PROVE RealReports'
  BY <1>7, EndReal DEF Refuse, ReportInv, RealReports, TablesReal, DraftsReal, SubsReal
<1>8. ASSUME NEW r \in Requests, ReadSubmissionRow(r) PROVE RealReports'
  <2>1. TablesReal'
    BY <1>8 DEF ReadSubmissionRow, ReportInv, RealReports, TablesReal
  <2>2. CASE Reading(r) = "none"
    <3>1. req' = [req EXCEPT ![r] = [req[r] EXCEPT !.stage = "claiming",
                    !.found = subRow[FindingOfReq(r)].state # "none"]]
      BY <1>8, <2>2 DEF ReadSubmissionRow
    <3>2. ASSUME NEW q \in Requests PROVE RequestReal(q)'
      <4>1. /\ req'[q].draft = req[q].draft /\ req'[q].out = req[q].out
            /\ req'[q].rec = req[q].rec /\ req'[q].snap = req[q].snap
        BY <1>0, <3>1 DEF Request
      <4>2. UNCHANGED posts
        BY <1>8 DEF ReadSubmissionRow
      <4>3. QED
        BY <1>0, <4>1, <4>2, SameReal
    <3>3. QED
      BY <1>8, <2>1, <3>2 DEF ReadSubmissionRow, ReportInv, RealReports, DraftsReal, SubsReal
  <2>3. CASE Reading(r) # "none"
    BY <1>8, <2>1, <2>3, AfterClaimReal DEF ReadSubmissionRow
  <2>4. QED
    BY <2>2, <2>3
<1>9. ASSUME NEW r \in Requests, ClaimSubmission(r) PROVE RealReports'
  <2> DEFINE d == req[r].draft
             f == FindingOfReq(r)
  <2>1. \/ UNCHANGED draftRow
        \/ draftRow' = [draftRow EXCEPT ![d] =
                          [draftRow[d] EXCEPT !.state = "submission_attempted"]]
    BY <1>9 DEF ClaimSubmission, ClaimDraft
  <2>2. \/ UNCHANGED subRow
        \/ subRow' = [subRow EXCEPT ![f] = [subRow[f] EXCEPT
                        !.state = "submission_attempted", !.lease = claims + 1]]
    BY <1>9 DEF ClaimSubmission, Attempted
  <2>3. ASSUME NEW e \in Drafts
        PROVE  /\ draftRow'[e].report = draftRow[e].report
               /\ draftRow'[e].state \in {draftRow[e].state, "submission_attempted"}
    <3>1. draftRow[e] \in Draft /\ draftRow \in [Drafts -> Draft]
      BY <1>0 DEF TypeOK
    <3>2. QED
      BY <2>1, <3>1 DEF Draft
  <2>4. ASSUME NEW e \in Findings PROVE subRow'[e].report = subRow[e].report
    <3>1. subRow[e] \in Row /\ subRow \in [Findings -> Row]
      BY <1>0 DEF TypeOK
    <3>2. [subRow[f] EXCEPT !.state = "submission_attempted",
                            !.lease = claims + 1].report = subRow[f].report
      <4>1. subRow[f] \in Row
        BY <1>0, RequestTypes DEF TypeOK
      <4>2. QED
        BY <4>1 DEF Row
    <3>3. QED
      BY <2>2, <3>1, <3>2
  <2>5. UNCHANGED <<posts, memDraft, memSub>>
    BY <1>9 DEF ClaimSubmission
  <2>6. TablesReal'
    BY <2>3, <2>4, <2>5 DEF ReportInv, RealReports, TablesReal, DraftIn
  <2>7. PICK claim, reply : AfterClaim(r, claim, reply)
    BY <1>9 DEF ClaimSubmission, ClaimDraft
  <2>8. QED
    BY <2>5, <2>6, <2>7, AfterClaimReal
<1>10. ASSUME NEW r \in Requests, Rehydrate(r) PROVE RealReports'
  <2> DEFINE next == [req[r] EXCEPT !.stage = "posting", !.snap = NoSnapshot]
  <2>1. /\ next.draft = req[r].draft /\ next.out = req[r].out
        /\ next.rec = req[r].rec /\ next.snap = NoSnapshot
    BY <1>0 DEF Request
  <2>2. \/ req' = [req EXCEPT ![r] = Idle(req[r].reply)]
        \/ req' = [req EXCEPT ![r] = next]
    BY <1>10 DEF Rehydrate
  <2> HIDE DEF next
  <2>3. Hydrate(req[r].snap) /\ UNCHANGED <<posts, draftRow, subRow>>
    BY <1>10 DEF Rehydrate
  <2>4. QED
    BY <2>1, <2>2, <2>3, FillReal
<1>11. ASSUME NEW r \in Requests, RejectStale(r) PROVE RealReports'
  <2> DEFINE d == req[r].draft
  <2>1. /\ d \in Drafts /\ memDraft \in [Drafts -> Draft]
        /\ Invalidated(memDraft[d]).report = memDraft[d].report
        /\ Invalidated(memDraft[d]).state = "ready_for_review"
    BY <1>0, RequestTypes DEF TypeOK, Invalidated, Draft
  <2>2. DraftsReal'
    BY <1>11, <2>1 DEF RejectStale, ReportInv, RealReports, DraftsReal, DraftIn
  <2>3. QED
    BY <1>11, <2>2, EndReal DEF RejectStale, ReportInv, RealReports, TablesReal, SubsReal
<1>12. ASSUME NEW r \in Requests, ReadSubmissionRecord(r) PROVE RealReports'
  <2>1. ASSUME NEW q \in Requests PROVE RequestReal(q)'
    <3>1. /\ req'[q].draft = req[q].draft /\ req'[q].out = req[q].out
          /\ req'[q].snap = req[q].snap
          /\ req'[q].rec = IF q = r THEN memSub[FindingOfReq(r)] ELSE req[q].rec
      BY <1>0, <1>12 DEF ReadSubmissionRecord, Request
    <3>2. RealIn(posts, FindingOfReq(r), memSub[FindingOfReq(r)].report)
      BY <1>0, RequestTypes DEF ReportInv, RealReports, SubsReal
    <3>3. UNCHANGED posts
      BY <1>12 DEF ReadSubmissionRecord
    <3>4. QED
      BY <1>0, <3>1, <3>2, <3>3 DEF RequestReal, SnapshotReal, FindingOfReq
  <2>2. QED
    BY <1>12, <2>1 DEF ReadSubmissionRecord, ReportInv, RealReports, TablesReal,
       DraftsReal, SubsReal
<1>13. CASE Environment \/ UNCHANGED vars
  <2>1. ASSUME UNCHANGED <<req, posts, draftRow, subRow, memDraft, memSub>>
        PROVE  RealReports'
    <3>1. \A q \in Requests : RequestReal(q)'
      BY <1>0, <2>1, SameReal
    <3>2. QED
      BY <2>1, <3>1 DEF ReportInv, RealReports, TablesReal, DraftsReal, SubsReal
  <2>2. CASE Crash
    <3>1. DraftsReal' /\ SubsReal'
      BY <2>2, BlandReal DEF Crash, DraftsReal, SubsReal, RealIn, NoSubmission
    <3>2. \A q \in Requests : RequestReal(q)'
      BY <2>2, IdleRequestReal DEF Crash
    <3>3. TablesReal'
      BY <2>2 DEF Crash, ReportInv, RealReports, TablesReal
    <3>4. QED
      BY <3>1, <3>2, <3>3 DEF RealReports
  <2>3. QED
    BY <1>13, <2>1, <2>2 DEF Environment, ExpireClaim, LapseApproval, ChangeWorld, vars
<1>14. QED
  BY <1>1, <1>2, <1>3, <1>4, <1>5, <1>6, <1>7, <1>8, <1>9, <1>10, <1>11, <1>12,
     <1>13, PostReal, ReconcileReal, CommitReal
     DEF Next, Handler, Workflow, Submitting

\* Every report id in the tables names a report HackerOne accepted, and one of that
\* very finding unless an attempt for it went unanswered, for every number of
\* handlers, whatever they overwrite in each other's rows and memory and whenever
\* the process dies (submit, reconcile, save_draft).
THEOREM ReportsAreReal == Spec => []ReportIdsAreReal
<1>1. Init => ReportInv
  <2> SUFFICES ASSUME Init PROVE ReportInv
    OBVIOUS
  <2>1. TablesReal /\ DraftsReal /\ SubsReal
    BY BlandReal DEF Init, TablesReal, DraftsReal, SubsReal, RealIn, NoRow, NoSubmission
  <2>2. ASSUME NEW r \in Requests PROVE RequestReal(r)
    <3>1. req[r] = Idle("none")
      BY DEF Init
    <3>2. QED
      BY <3>1, IdleReal DEF RequestReal, SnapshotReal
  <2>3. QED
    BY InitType, <2>1, <2>2 DEF ReportInv, RealReports
<1>2. ReportInv /\ [Next]_vars => ReportInv'
  BY StepType, ReportStep DEF ReportInv
<1>3. ReportInv => ReportIdsAreReal
  BY DEF ReportInv, RealReports, TablesReal, DraftIn, RealIn, Unanswered,
     ReportIdsAreReal, RealReport, Accepted, InDoubt
<1>4. QED
  BY <1>1, <1>2, <1>3, PTL DEF Spec

=============================================================================
