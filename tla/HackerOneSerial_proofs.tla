----------------------- MODULE HackerOneSerial_proofs -----------------------
(***************************************************************************)
(* What HackerOneSubmission promises when the handlers that submit or      *)
(* reconcile a report run alone.  The code does not see to this; another   *)
(* handler that fills the shared memory while a submission is being saved  *)
(* can make it save an older record (see the README).                      *)
(***************************************************************************)
EXTENDS HackerOneSubmission_proofs

USE SubmissionAssumption

Submitters == {"submit", "reconcile"}

\* The hypothesis: nothing else is in flight beside a submission or a
\* reconciliation.  All other handlers may overlap as they like.
SubmitsAlone ==
  \A q, r \in Requests : req[r].op \in Submitters /\ req[q].stage # "idle" => q = r

-----------------------------------------------------------------------------
(* The copies of a draft: in its row, in the memory, in the snapshots and  *)
(* in the results to be saved.  A submission that has its result is not    *)
(* counted: what it says of the draft will be true with its commit.        *)

IsUnknown(x) == x.state = "submission_outcome_unknown"

Settled == {"submitted", "submission_outcome_unknown"}

Saving(r) == req[r].op \in Submitters /\ req[r].stage \in {"saving", "committing"}

Window(d) == \E r \in Requests : Saving(r) /\ req[r].draft = d

Copy(d, c) ==
  \/ c = draftRow[d]
  \/ ~Window(d) /\ c = memDraft[d]
  \/ \E r \in Requests : \/ c = req[r].snap.drafts[d]
                         \/ ~Saving(r) /\ req[r].draft = d /\ c = req[r].out

\* The finding's row knows the report, or the doubt, that a copy knows of.
Agrees(d, c) ==
  LET s == subRow[FindingOf[d]]
  IN  /\ c.report # 0 => c.report = s.report
      /\ IsUnknown(c) => IsUnknown(s) /\ s.report = 0

CopiesAgree == \A d \in Drafts, c \in Draft : Copy(d, c) => Agrees(d, c)

\* Only one draft of a finding has an outcome in doubt.
OneUnknown ==
  \A d, e \in Drafts, b, c \in Draft :
    /\ FindingOf[d] = FindingOf[e]
    /\ Copy(d, b) /\ IsUnknown(b) /\ Copy(e, c) /\ IsUnknown(c)
    => d = e

-----------------------------------------------------------------------------
(* The submission that is in flight. *)

\* What a submission or reconciliation is about to write to the finding's row.
Pending(r) == IF req[r].stage = "saving" THEN memSub[FindingOfReq(r)] ELSE req[r].rec

OpPlaced(r) ==
  /\ req[r].stage = "idle" <=> req[r].op = "none"
  /\ req[r].stage \in {"claiming", "claimed", "posting"} => req[r].op = "submit"
  /\ req[r].stage = "saving" => req[r].op \in Submitters
  /\ req[r].stage \notin {"binding", "claimed"} => req[r].snap = NoSnapshot
  /\ req[r].stage = "idle" => req[r].out = NoDraft
  /\ ~Saving(r) => req[r].rec = NoSubmission

\* It works on what is stored.
ReadsStored(r) ==
  LET d == req[r].draft
      s == subRow[FindingOfReq(r)]
  IN
  /\ draftRow[d].made
  /\ req[r].stage = "binding" => req[r].snap = Tables
  /\ req[r].stage = "bound" =>
       /\ memDraft[d] = draftRow[d]
       /\ s.state # "none" => memSub[FindingOfReq(r)] = [state |-> s.state, report |-> s.report]
  /\ req[r].stage = "claiming" =>
       /\ s.report = 0 /\ s.state \notin Settled
       /\ s.state = "submission_attempted" => s.lease \in expired

\* The claim of a submission is in the finding's row until the commit.
HoldsClaim(r) ==
  LET s == subRow[FindingOfReq(r)] IN
  \/ req[r].stage = "claimed" /\ req[r].claim # 0
  \/ req[r].stage = "posting"
  \/ Saving(r) /\ req[r].op = "submit"
  => s.state = "submission_attempted" /\ s.lease = req[r].claim /\ s.report = 0

\* Its result contradicts nothing that is stored, and settles what was posted.
SavesResult(r) ==
  LET d == req[r].draft
      s == subRow[FindingOfReq(r)]
      p == Pending(r)
  IN
  Saving(r) =>
    /\ req[r].base = draftRow[d] /\ req[r].out = memDraft[d]
    /\ req[r].stage = "committing" => req[r].recBase = s
    /\ p.state # "none"
    /\ s.report # 0 => p.report = s.report
    /\ req[r].out.report # 0 => req[r].out.report = p.report
    /\ IsUnknown(req[r].out) => IsUnknown(p) /\ p.report = 0
    /\ req[r].op = "reconcile" =>
         /\ p.state \in Settled
         /\ IsUnknown(p) => IsUnknown(req[r].out)
         /\ IsUnknown(draftRow[d]) \/ s.report # 0
    /\ \A i \in 1 .. Len(posts) :
         MaybeAccepted(i) /\ posts[i].claim = req[r].claim => p.state \in Settled

SubmitterFits(r) ==
  req[r].op \in Submitters => ReadsStored(r) /\ HoldsClaim(r) /\ SavesResult(r)

-----------------------------------------------------------------------------
(* What becomes of a report that HackerOne may have accepted: its finding  *)
(* is settled, or its claim still stands, or a crash cut it off.           *)

Resolved(i) ==
  LET s == subRow[FindingOf[posts[i].draft]] IN
  \/ s.state \in Settled
  \/ crashes > 0 /\ posts[i].claim \in expired
  \/ /\ s.state = "submission_attempted" /\ s.lease = posts[i].claim
     /\ \/ crashes > 0
        \/ \E r \in Requests :
             Saving(r) /\ req[r].claim = posts[i].claim /\ req[r].draft = posts[i].draft

AllResolved == \A i \in 1 .. Len(posts) : MaybeAccepted(i) => Resolved(i)

InOrder ==
  /\ CopiesAgree /\ OneUnknown
  /\ \A r \in Requests : OpPlaced(r) /\ SubmitterFits(r)
  /\ AllResolved
  /\ RepostedOnlyAfterCrash

SerialInv == ClaimInv /\ InOrder

-----------------------------------------------------------------------------
(* What one step does to the copies. *)

\* A draft whose report and doubt are those of copies there are already.
Known(d, c) ==
  /\ c.report # 0 => \E b \in Draft : Copy(d, b) /\ b.report = c.report
  /\ IsUnknown(c) => \E b \in Draft : Copy(d, b) /\ IsUnknown(b)

Bland(c) == c.report = 0 /\ ~IsUnknown(c)

\* A copy is known, and so is a draft that says nothing.
LEMMA KnownAnyway ==
  /\ \A d \in Drafts, c \in Draft : Copy(d, c) => Known(d, c)
  /\ \A d \in Drafts : \A c : Bland(c) => Known(d, c)
  /\ Bland(NoDraft)
  BY DEF Known, Bland, IsUnknown, NoDraft

\* As long as only what is known already is copied, and no row forgets a report
\* or a doubt, the copies go on agreeing with the rows.
LEMMA KnownKeeps ==
  ASSUME CopiesAgree, OneUnknown,
         \A d \in Drafts, c \in Draft : Copy(d, c)' => Known(d, c),
         \A f \in Findings : /\ subRow'[f].report = subRow[f].report
                             /\ IsUnknown(subRow[f]) => IsUnknown(subRow'[f])
  PROVE  CopiesAgree' /\ OneUnknown'
<1>1. \A d \in Drafts : FindingOf[d] \in Findings
  OBVIOUS
<1>2. ASSUME NEW d \in Drafts, NEW c \in Draft, Copy(d, c)' PROVE Agrees(d, c)'
  <2>1. Known(d, c)
    BY <1>2
  <2>2. c.report # 0 => c.report = subRow[FindingOf[d]].report
    BY <2>1 DEF Known, CopiesAgree, Agrees
  <2>3. IsUnknown(c) => IsUnknown(subRow[FindingOf[d]]) /\ subRow[FindingOf[d]].report = 0
    BY <2>1 DEF Known, CopiesAgree, Agrees
  <2>4. QED
    BY <1>1, <2>2, <2>3 DEF Agrees, IsUnknown
<1>3. ASSUME NEW d \in Drafts, NEW e \in Drafts, NEW b \in Draft, NEW c \in Draft,
             FindingOf[d] = FindingOf[e],
             Copy(d, b)', IsUnknown(b), Copy(e, c)', IsUnknown(c)
      PROVE  d = e
  <2>1. Known(d, b) /\ Known(e, c)
    BY <1>3
  <2>2. PICK x \in Draft : Copy(d, x) /\ IsUnknown(x)
    BY <1>3, <2>1 DEF Known
  <2>3. PICK y \in Draft : Copy(e, y) /\ IsUnknown(y)
    BY <1>3, <2>1 DEF Known
  <2>4. QED
    BY <1>3, <2>2, <2>3 DEF OneUnknown
<1>4. CopiesAgree'
  BY <1>2 DEF CopiesAgree
<1>5. OneUnknown'
  BY <1>3 DEF OneUnknown, IsUnknown
<1>6. QED
  BY <1>4, <1>5

\* A handler's step puts only what is known into a row, into the memory and
\* into its own request.
OnlyKnown(r) ==
  /\ \A d \in Drafts : Known(d, draftRow'[d])
  /\ \A d \in Drafts : ~Window(d)' => Known(d, memDraft'[d])
  /\ \A d \in Drafts : Known(d, req'[r].snap.drafts[d])
  /\ ~Saving(r)' => Known(req'[r].draft, req'[r].out)

\* Then all there is to know afterwards is known before.
LEMMA MoveKnown ==
  ASSUME TypeOK, NEW r \in Requests, OnlyKnown(r),
         \A q \in Requests \ {r} : req'[q] = req[q]
  PROVE  \A d \in Drafts, c \in Draft : Copy(d, c)' => Known(d, c)
<1> SUFFICES ASSUME NEW d \in Drafts, NEW c \in Draft, Copy(d, c)' PROVE Known(d, c)
  OBVIOUS
<1>1. CASE c = draftRow'[d]
  BY <1>1 DEF OnlyKnown
<1>2. CASE ~Window(d)' /\ c = memDraft'[d]
  BY <1>2 DEF OnlyKnown
<1>3. ASSUME NEW q \in Requests,
             \/ c = req'[q].snap.drafts[d]
             \/ ~Saving(q)' /\ req'[q].draft = d /\ c = req'[q].out
      PROVE  Known(d, c)
  <2>1. CASE q = r
    BY <1>3, <2>1 DEF OnlyKnown
  <2>2. CASE q # r
    <3>1. Copy(d, c)
      BY <1>3, <2>2 DEF Copy, Saving
    <3>2. QED
      BY <3>1, KnownAnyway
  <2>3. QED
    BY <2>1, <2>2
<1>4. QED
  BY <1>1, <1>2, <1>3 DEF Copy

\* What is in a row, in the memory outside a submission, in a snapshot and in a
\* request is known.
LEMMA CopiesKnown ==
  ASSUME TypeOK
  PROVE  /\ \A d \in Drafts : Known(d, draftRow[d])
         /\ \A d \in Drafts : ~Window(d) => Known(d, memDraft[d])
         /\ \A r \in Requests, d \in Drafts : Known(d, req[r].snap.drafts[d])
         /\ \A r \in Requests : ~Saving(r) => Known(req[r].draft, req[r].out)
<1>1. \A d \in Drafts : draftRow[d] \in Draft /\ memDraft[d] \in Draft
  BY DEF TypeOK
<1>2. ASSUME NEW r \in Requests
      PROVE  /\ req[r].draft \in Drafts /\ req[r].out \in Draft
             /\ \A d \in Drafts : req[r].snap.drafts[d] \in Draft
  BY DEF TypeOK, Request
<1>3. QED
  BY <1>1, <1>2, KnownAnyway DEF Copy

-----------------------------------------------------------------------------
(* What the hypothesis gives: while a handler runs, no other one submits. *)

\* No other handler submits beside one that is in flight, nothing is in flight
\* beside a submission, and no draft is being saved by anyone else.
LEMMA RunsAlone ==
  ASSUME SubmitsAlone, NEW r \in Requests, req[r].stage # "idle",
         \A q \in Requests : OpPlaced(q)
  PROVE  /\ \A q \in Requests \ {r} : req[q].op \notin Submitters /\ ~Saving(q)
         /\ req[r].op \in Submitters => \A q \in Requests \ {r} : req[q].stage = "idle"
         /\ \A d \in Drafts : Window(d) => Saving(r) /\ req[r].draft = d
<1>1. ASSUME NEW q \in Requests \ {r} PROVE req[q].op \notin Submitters /\ ~Saving(q)
  BY DEF SubmitsAlone, Saving
<1>2. ASSUME NEW q \in Requests \ {r}, req[r].op \in Submitters PROVE req[q].stage = "idle"
  BY <1>2 DEF SubmitsAlone
<1>3. QED
  BY <1>1, <1>2 DEF Window

\* After a handler's step only its own submission is to be looked at.
LEMMA FitsStep ==
  ASSUME NEW r \in Requests, \A q \in Requests : OpPlaced(q),
         \A q \in Requests \ {r} : req'[q] = req[q],
         \/ SubmitsAlone /\ req[r].stage # "idle"
         \/ SubmitsAlone' /\ req'[r].stage # "idle",
         OpPlaced(r)', SubmitterFits(r)'
  PROVE  \A q \in Requests : OpPlaced(q)' /\ SubmitterFits(q)'
<1> SUFFICES ASSUME NEW q \in Requests PROVE OpPlaced(q)' /\ SubmitterFits(q)'
  OBVIOUS
<1>1. CASE q = r
  BY <1>1
<1>2. CASE q # r
  <2>1. OpPlaced(q)'
    BY <1>2 DEF OpPlaced, Saving
  <2>2. req'[q].op \notin Submitters
    BY <1>2 DEF SubmitsAlone
  <2>3. QED
    BY <2>1, <2>2 DEF SubmitterFits
<1>3. QED
  BY <1>1, <1>2

\* Reports stay resolved as long as the rows of the findings stay and no
\* submission loses its result.
LEMMA ResolvedStays ==
  ASSUME TypeOK, crashes' \in Nat, AllResolved, RepostedOnlyAfterCrash, UNCHANGED <<subRow, posts>>,
         crashes <= crashes', expired \subseteq expired',
         crashes' > 0 \/ \A q \in Requests :
           Saving(q) => Saving(q)' /\ req'[q].claim = req[q].claim
                                   /\ req'[q].draft = req[q].draft
  PROVE  AllResolved' /\ RepostedOnlyAfterCrash'
<1>1. crashes \in Nat /\ (crashes > 0 => crashes' > 0)
  BY DEF TypeOK
<1>2. RepostedOnlyAfterCrash'
  BY <1>1 DEF RepostedOnlyAfterCrash, SameFinding, MaybeAccepted
<1>3. ASSUME NEW i \in 1 .. Len(posts), MaybeAccepted(i) PROVE Resolved(i)'
  <2>1. Resolved(i)
    BY <1>3 DEF AllResolved
  <2>2. QED
    BY <1>1, <2>1 DEF Resolved
<1>4. AllResolved'
  BY <1>3 DEF AllResolved, MaybeAccepted
<1>5. QED
  BY <1>2, <1>4

\* The step of a handler that neither posts nor writes to a finding's row.
LEMMA QuietStep ==
  ASSUME SerialInv, NEW r \in Requests, OnlyKnown(r),
         \A q \in Requests \ {r} : req'[q] = req[q],
         \/ SubmitsAlone /\ req[r].stage # "idle"
         \/ SubmitsAlone' /\ req'[r].stage # "idle",
         UNCHANGED <<subRow, posts, crashes, expired>>,
         Saving(r) => Saving(r)' /\ req'[r].claim = req[r].claim
                                 /\ req'[r].draft = req[r].draft,
         OpPlaced(r)', SubmitterFits(r)'
  PROVE  InOrder'
<1>1. TypeOK /\ InOrder
  BY DEF SerialInv, ClaimInv
<1>2. CopiesAgree' /\ OneUnknown'
  BY <1>1, MoveKnown, KnownKeeps DEF InOrder
<1>3. \A q \in Requests : OpPlaced(q)' /\ SubmitterFits(q)'
  BY <1>1, FitsStep DEF InOrder
<1>4. AllResolved' /\ RepostedOnlyAfterCrash'
  <2>1. crashes \in Nat /\ crashes <= crashes'
    BY <1>1 DEF TypeOK
  <2>2. \A q \in Requests :
          Saving(q) => Saving(q)' /\ req'[q].claim = req[q].claim
                                  /\ req'[q].draft = req[q].draft
    BY DEF Saving
  <2>3. QED
    BY <1>1, <2>1, <2>2, ResolvedStays DEF InOrder
<1>5. QED
  BY <1>2, <1>3, <1>4 DEF InOrder

-----------------------------------------------------------------------------
(* The handlers, action by action. *)

\* A handler that ends without a result, or with one the rows now know.
LEMMA EndStep ==
  ASSUME SerialInv, SubmitsAlone, NEW r \in Requests, NEW reply,
         req[r].stage # "idle", ~Saving(r),
         req' = [req EXCEPT ![r] = Idle(reply)],
         \A d \in Drafts : Known(d, draftRow'[d]),
         \A d \in Drafts : Known(d, memDraft'[d]),
         UNCHANGED <<subRow, posts, crashes, expired>>
  PROVE  InOrder'
<1>1. /\ req'[r] = Idle(reply)
      /\ \A q \in Requests \ {r} : req'[q] = req[q]
  BY DEF SerialInv, ClaimInv, TypeOK
<1>2. OnlyKnown(r)
  BY <1>1, KnownAnyway DEF OnlyKnown, Idle, NoSnapshot
<1>3. OpPlaced(r)' /\ SubmitterFits(r)'
  BY <1>1 DEF OpPlaced, SubmitterFits, Submitters, Saving, Idle
<1>4. QED
  BY <1>1, <1>2, <1>3, QuietStep

\* A request that arrives has read the tables.
LEMMA BeginOrder ==
  ASSUME SerialInv, SubmitsAlone', NEW r \in Requests, NEW op \in Ops, NEW d \in Drafts,
         Begin(r, op, d)
  PROVE  InOrder'
<1> USE DEF db, memory, remote, environment
<1>1. TypeOK /\ InOrder
  BY DEF SerialInv, ClaimInv
<1>2. /\ req'[r] = [Idle("none") EXCEPT !.stage = "binding", !.op = op, !.draft = d,
                                        !.snap = Tables]
      /\ \A q \in Requests \ {r} : req'[q] = req[q]
      /\ req[r].stage = "idle" /\ (op # "create" => draftRow[d].made)
      /\ UNCHANGED <<draftRow, subRow, memDraft, memSub, posts, crashes, expired>>
  BY <1>1 DEF Begin, TypeOK
<1>3. /\ req'[r].stage = "binding" /\ req'[r].op = op /\ req'[r].draft = d
      /\ req'[r].snap = Tables /\ req'[r].out = NoDraft /\ req'[r].rec = NoSubmission
  BY <1>2 DEF Idle
<1>4. ~Saving(r) /\ ~Saving(r)'
  BY <1>2, <1>3 DEF Saving
<1>5. \A e \in Drafts : Window(e)' <=> Window(e)
  BY <1>2, <1>4 DEF Window, Saving
<1>6. OnlyKnown(r)
  <2>1. req'[r].snap.drafts = draftRow
    BY <1>3 DEF Tables
  <2>2. Known(d, NoDraft)
    BY KnownAnyway
  <2>3. QED
    BY <1>1, <1>2, <1>3, <1>5, <2>1, <2>2, CopiesKnown DEF OnlyKnown
<1>7. OpPlaced(r)'
  BY <1>3, <1>4 DEF OpPlaced, AllOps
<1>8. SubmitterFits(r)'
  <2>1. Tables' = Tables
    BY <1>2 DEF Tables
  <2>2. CASE op \in Submitters
    <3>1. ReadsStored(r)'
      BY <1>2, <1>3, <2>1, <2>2 DEF ReadsStored, Submitters
    <3>2. QED
      BY <1>3, <1>4, <3>1 DEF SubmitterFits, HoldsClaim, SavesResult
  <2>3. CASE op \notin Submitters
    BY <1>3, <2>3 DEF SubmitterFits
  <2>4. QED
    BY <2>2, <2>3
<1>9. QED
  BY <1>2, <1>3, <1>4, <1>6, <1>7, <1>8, QuietStep

\* The memory is filled only with what is in the tables or has been there.
LEMMA HydratedKnown ==
  ASSUME SerialInv, SubmitsAlone, NEW r \in Requests, req[r].stage # "idle", ~Saving(r),
         memDraft' = HydratedDrafts(req[r].snap)
  PROVE  \A d \in Drafts : Known(d, memDraft'[d])
<1>1. TypeOK /\ \A q \in Requests : OpPlaced(q)
  BY DEF SerialInv, ClaimInv, InOrder
<1>2. \A d \in Drafts : ~Window(d)
  BY <1>1, RunsAlone
<1>3. ASSUME NEW d \in Drafts PROVE memDraft'[d] \in {req[r].snap.drafts[d], memDraft[d]}
  BY DEF HydratedDrafts
<1>4. QED
  BY <1>1, <1>2, <1>3, CopiesKnown

\* A submission that has filled the memory works on what is stored.
LEMMA BindOrder ==
  ASSUME SerialInv, SubmitsAlone, NEW r \in Requests, Bind(r)
  PROVE  InOrder'
<1> USE DEF db, memory, remote, environment
<1>1. TypeOK /\ InOrder
  BY DEF SerialInv, ClaimInv
<1>2. /\ req[r].stage = "binding" /\ ~Saving(r)
      /\ memDraft' = HydratedDrafts(req[r].snap) /\ memSub' = HydratedSubs(req[r].snap)
      /\ UNCHANGED <<draftRow, subRow, posts, crashes, expired>>
  BY DEF Bind, Hydrate, Saving
<1>3. /\ \A d \in Drafts : Known(d, draftRow'[d])
      /\ \A d \in Drafts : Known(d, memDraft'[d])
  BY <1>1, <1>2, CopiesKnown, HydratedKnown
<1> DEFINE bound == [req[r] EXCEPT !.stage = "bound", !.snap = NoSnapshot, !.seen = world]
<1>4. CASE req' = [req EXCEPT ![r] = Idle("not_approved")]
  BY <1>2, <1>3, <1>4, EndStep
<1>5. CASE req' = [req EXCEPT ![r] = bound]
  <2>1. req[r] \in Request /\ req[r].draft \in Drafts
    BY <1>1, RequestTypes
  <2>2. /\ req'[r] = bound
        /\ \A q \in Requests \ {r} : req'[q] = req[q]
    BY <1>1, <1>5 DEF TypeOK
  <2>3. /\ req'[r].stage = "bound" /\ req'[r].op = req[r].op /\ req'[r].draft = req[r].draft
        /\ req'[r].snap = NoSnapshot /\ req'[r].out = req[r].out /\ req'[r].rec = req[r].rec
    BY <2>1, <2>2 DEF Request
  <2>4. ~Saving(r)'
    BY <2>3 DEF Saving
  <2>5. OnlyKnown(r)
    BY <1>1, <1>2, <1>3, <2>3, KnownAnyway, CopiesKnown DEF OnlyKnown, NoSnapshot
  <2>6. OpPlaced(r)'
    BY <1>1, <1>2, <2>3, <2>4 DEF InOrder, OpPlaced
  <2>7. SubmitterFits(r)'
    <3>1. CASE req[r].op \in Submitters
      <4>1. req[r].snap = Tables /\ draftRow[req[r].draft].made
        BY <1>1, <1>2, <3>1 DEF InOrder, SubmitterFits, ReadsStored
      <4>2. memDraft'[req[r].draft] = draftRow[req[r].draft]
        BY <1>2, <2>1, <4>1 DEF HydratedDrafts, Tables
      <4>3. LET f == FindingOf[req[r].draft]
            IN  subRow[f].state # "none" =>
                  memSub'[f] = [state |-> subRow[f].state, report |-> subRow[f].report]
        BY <1>2, <2>1, <4>1 DEF HydratedSubs, Tables
      <4>4. ReadsStored(r)'
        BY <1>2, <2>3, <4>1, <4>2, <4>3 DEF ReadsStored, FindingOfReq
      <4>5. QED
        BY <2>3, <2>4, <4>4 DEF SubmitterFits, HoldsClaim, SavesResult
    <3>2. CASE req[r].op \notin Submitters
      BY <2>3, <3>2 DEF SubmitterFits
    <3>3. QED
      BY <3>1, <3>2
  <2>8. QED
    BY <1>2, <2>2, <2>5, <2>6, <2>7, QuietStep
<1>6. QED
  BY <1>4, <1>5 DEF Bind

\* The workflow call of a handler that does not submit.
LEMMA StoreOrder ==
  ASSUME SerialInv, SubmitsAlone, NEW r \in Requests, NEW draft,
         req[r].stage = "bound", req[r].op \notin Submitters, Store(r, draft),
         Known(req[r].draft, draft),
         UNCHANGED <<draftRow, subRow, posts, crashes, expired>>
  PROVE  InOrder'
<1>1. TypeOK /\ InOrder
  BY DEF SerialInv, ClaimInv
<1>2. req[r] \in Request /\ req[r].draft \in Drafts
  BY <1>1, RequestTypes
<1>3. /\ req'[r] = [req[r] EXCEPT !.stage = "committing", !.out = draft,
                                  !.base = draftRow[req[r].draft]]
      /\ \A q \in Requests \ {r} : req'[q] = req[q]
  BY <1>1 DEF TypeOK, Store, Submitters
<1>4. /\ req'[r].stage = "committing" /\ req'[r].op = req[r].op
      /\ req'[r].draft = req[r].draft /\ req'[r].snap = req[r].snap
      /\ req'[r].out = draft /\ req'[r].rec = req[r].rec
  BY <1>2, <1>3 DEF Request
<1>5. ~Saving(r) /\ ~Saving(r)' /\ \A d \in Drafts : ~Window(d)
  BY <1>1, <1>4, RunsAlone DEF Saving, InOrder
<1>6. \A d \in Drafts : memDraft'[d] = IF d = req[r].draft THEN draft ELSE memDraft[d]
  BY <1>1 DEF Store, TypeOK
<1>7. OnlyKnown(r)
  BY <1>1, <1>4, <1>5, <1>6, CopiesKnown DEF OnlyKnown
<1>8. OpPlaced(r)' /\ SubmitterFits(r)'
  BY <1>1, <1>4, <1>5 DEF InOrder, OpPlaced, SubmitterFits
<1>9. QED
  BY <1>3, <1>5, <1>7, <1>8, QuietStep

\* While a handler runs that has no result of a submission, the draft in the
\* memory is known, and so is any edition of it that says no more.
LEMMA MemoryKnown ==
  ASSUME SerialInv, SubmitsAlone, NEW r \in Requests, req[r].stage # "idle", ~Saving(r)
  PROVE  \A d \in Drafts : Copy(d, memDraft[d]) /\ Known(d, memDraft[d])
  BY RunsAlone, CopiesKnown DEF SerialInv, ClaimInv, InOrder, Copy

\* An edition of a known draft that has its report, and no doubt of its own.
LEMMA EditionKnown ==
  ASSUME NEW d \in Drafts, NEW b, NEW c, Known(d, b), c.report = b.report,
         c.state = b.state \/ ~IsUnknown(c)
  PROVE  Known(d, c)
  BY DEF Known, IsUnknown

\* Drafting, review, editing and approval leave the report and its doubt alone.
LEMMA WorkflowOrder ==
  ASSUME SerialInv, SubmitsAlone, NEW r \in Requests,
         CreateDraft(r) \/ MarkReady(r) \/ ApplyEdits(r) \/ HumanApprove(r)
  PROVE  InOrder'
<1> USE DEF db, memory, remote, environment
<1> DEFINE d == req[r].draft
           draft == memDraft[d]
<1>1. /\ req[r].stage = "bound" /\ req[r].op \notin Submitters /\ ~Saving(r)
      /\ UNCHANGED <<draftRow, subRow, posts, crashes, expired>>
  BY DEF CreateDraft, MarkReady, ApplyEdits, HumanApprove, Calls, Submitters, Saving
<1>2. d \in Drafts /\ draft \in Draft
  BY RequestTypes DEF SerialInv, ClaimInv
<1>3. Known(d, draft)
  BY <1>1, <1>2, MemoryKnown
<1>4. CASE CreateDraft(r)
  <2> DEFINE drafted(c) == [NoDraft EXCEPT !.made = TRUE, !.content = c,
                                           !.scope = req[r].seen.scope]
  <2>1. PICK c \in Contents : Store(r, drafted(c))
    BY <1>4 DEF CreateDraft
  <2>2. drafted(c).report = 0 /\ drafted(c).state = "local_draft"
    BY DEF NoDraft
  <2> HIDE DEF drafted
  <2>3. Known(d, drafted(c))
    BY <2>2 DEF Known, IsUnknown
  <2>4. QED
    BY <1>1, <2>1, <2>3, StoreOrder
<1>5. CASE MarkReady(r)
  <2> DEFINE ready == [draft EXCEPT !.review = "ready_for_review",
                                    !.state = "ready_for_review"]
  <2>1. Store(r, ready)
    BY <1>5 DEF MarkReady
  <2>2. ready.report = draft.report /\ ready.state = "ready_for_review"
    BY <1>2 DEF Draft
  <2> HIDE DEF ready
  <2>3. Known(d, ready)
    BY <1>3, <2>2 DEF Known, IsUnknown
  <2>4. QED
    BY <1>1, <2>1, <2>3, StoreOrder
<1>6. CASE ApplyEdits(r)
  <2> DEFINE edited(c) == [draft EXCEPT !.content = c, !.scope = req[r].seen.scope]
             result(c) == IF draft.approval # 0
                             /\ ~Matches(edited(c), draft.approval, req[r].seen)
                          THEN Invalidated(edited(c)) ELSE edited(c)
  <2>1. PICK c \in Contents : Store(r, result(c))
    BY <1>6 DEF ApplyEdits
  <2>2. edited(c).report = draft.report /\ edited(c).state = draft.state
    BY <1>2 DEF Draft
  <2>3. /\ Invalidated(edited(c)).report = draft.report
        /\ Invalidated(edited(c)).state = "ready_for_review"
    BY <1>2 DEF Draft, Invalidated
  <2>4. Known(d, edited(c)) /\ Known(d, Invalidated(edited(c)))
    BY <1>2, <1>3, <2>2, <2>3, EditionKnown DEF IsUnknown
  <2>5. Known(d, result(c))
    BY <2>4
  <2> HIDE DEF result
  <2>6. QED
    BY <1>1, <2>1, <2>5, StoreOrder
<1>7. CASE HumanApprove(r)
  <2> DEFINE passed == [draft EXCEPT !.review = "human_approved", !.state = "human_approved",
                                     !.scope = req[r].seen.scope, !.approval = Len(granted')]
  <2>1. Store(r, passed)
    BY <1>7 DEF HumanApprove
  <2>2. passed.report = draft.report /\ passed.state = "human_approved"
    BY <1>2 DEF Draft
  <2> HIDE DEF passed
  <2>3. Known(d, passed)
    BY <1>3, <2>2 DEF Known, IsUnknown
  <2>4. QED
    BY <1>1, <2>1, <2>3, StoreOrder
<1>8. QED
  BY <1>4, <1>5, <1>6, <1>7

\* A handler that raises leaves everything as it was.
LEMMA RefuseOrder ==
  ASSUME SerialInv, SubmitsAlone, NEW r \in Requests, Refuse(r)
  PROVE  InOrder'
<1> USE DEF db, memory, remote, environment
<1>1. /\ req[r].stage # "idle" /\ ~Saving(r)
      /\ req' = [req EXCEPT ![r] = Idle("none")]
      /\ UNCHANGED <<draftRow, subRow, memDraft, posts, crashes, expired>>
  BY DEF Refuse, Saving
<1>2. \A d \in Drafts : Known(d, draftRow'[d]) /\ Known(d, memDraft'[d])
  BY <1>1, CopiesKnown, MemoryKnown DEF SerialInv, ClaimInv
<1>3. QED
  BY <1>1, <1>2, EndStep

\* The withdrawal of a stale approval ends the submission.
LEMMA RejectOrder ==
  ASSUME SerialInv, SubmitsAlone, NEW r \in Requests, RejectStale(r)
  PROVE  InOrder'
<1> USE DEF db, memory, remote, environment
<1>1. TypeOK /\ req[r].draft \in Drafts /\ memDraft[req[r].draft] \in Draft
  BY RequestTypes DEF SerialInv, ClaimInv
<1>2. /\ req[r].stage # "idle" /\ ~Saving(r)
      /\ req' = [req EXCEPT ![r] = Idle("none")]
      /\ memDraft' = [memDraft EXCEPT ![req[r].draft] = Invalidated(@)]
      /\ UNCHANGED <<draftRow, subRow, posts, crashes, expired>>
  BY DEF RejectStale, Saving
<1>3. \A d \in Drafts : Known(d, draftRow'[d]) /\ Known(d, memDraft[d])
  BY <1>1, <1>2, CopiesKnown, MemoryKnown
<1>4. Known(req[r].draft, Invalidated(memDraft[req[r].draft]))
  <2>1. /\ Invalidated(memDraft[req[r].draft]).report = memDraft[req[r].draft].report
        /\ Invalidated(memDraft[req[r].draft]).state = "ready_for_review"
    BY <1>1 DEF Draft, Invalidated
  <2>2. QED
    BY <1>1, <1>3, <2>1 DEF Known, IsUnknown
<1>5. \A d \in Drafts : Known(d, memDraft'[d])
  BY <1>1, <1>2, <1>3, <1>4 DEF TypeOK
<1>6. QED
  BY <1>2, <1>3, <1>5, EndStep

-----------------------------------------------------------------------------
(* The claim. *)

\* What the request holds once the claim has been answered.
LEMMA AnsweredClaim ==
  ASSUME TypeOK, NEW r \in Requests, NEW claim, NEW reply, AfterClaim(r, claim, reply)
  PROVE  /\ \A q \in Requests \ {r} : req'[q] = req[q]
         /\ req'[r].stage = "claimed" /\ req'[r].claim = claim
         /\ req'[r].snap.drafts = draftRow'
         /\ req'[r].op = req[r].op /\ req'[r].draft = req[r].draft
         /\ req'[r].out = req[r].out /\ req'[r].rec = req[r].rec
<1>1. req[r] \in Request
  BY DEF TypeOK
<1>2. /\ req'[r] = [req[r] EXCEPT !.stage = "claimed", !.claim = claim, !.reply = reply,
                                  !.snap = Tables']
      /\ \A q \in Requests \ {r} : req'[q] = req[q]
  BY DEF AfterClaim, TypeOK
<1>3. Tables'.drafts = draftRow'
  BY DEF Tables
<1>4. QED
  BY <1>1, <1>2, <1>3 DEF Request

\* A submission goes on to its claim only when the finding is neither settled nor
\* held by a claim that has not expired.
LEMMA ReadRowOrder ==
  ASSUME SerialInv, SubmitsAlone, NEW r \in Requests, ReadSubmissionRow(r)
  PROVE  InOrder'
<1> USE DEF db, memory, remote, environment
<1>1. TypeOK /\ InOrder /\ req[r] \in Request /\ req[r].draft \in Drafts
  BY RequestTypes DEF SerialInv, ClaimInv
<1>2. /\ req[r].stage = "bound" /\ req[r].op = "submit" /\ ~Saving(r)
      /\ UNCHANGED <<draftRow, subRow, memDraft, posts, crashes, expired>>
  BY DEF ReadSubmissionRow, Calls, Saving
<1>3. /\ \A q \in Requests \ {r} : req'[q] = req[q]
      /\ req'[r].op = "submit" /\ req'[r].draft = req[r].draft
      /\ req'[r].out = req[r].out /\ req'[r].rec = req[r].rec
      /\ \/ /\ req'[r].stage = "claiming" /\ Reading(r) = "none"
            /\ req'[r].snap = req[r].snap
         \/ /\ req'[r].stage = "claimed" /\ req'[r].claim = 0
            /\ req'[r].snap.drafts = draftRow
  <2>1. CASE Reading(r) = "none"
    <3>1. /\ req'[r] = [req[r] EXCEPT !.stage = "claiming",
                          !.found = subRow[FindingOfReq(r)].state # "none"]
          /\ \A q \in Requests \ {r} : req'[q] = req[q]
      BY <1>1, <2>1 DEF ReadSubmissionRow, TypeOK
    <3>2. QED
      BY <1>1, <1>2, <2>1, <3>1 DEF Request
  <2>2. CASE Reading(r) # "none"
    <3>1. AfterClaim(r, 0, Reading(r))
      BY <2>2 DEF ReadSubmissionRow
    <3>2. QED
      BY <1>1, <1>2, <3>1, AnsweredClaim
  <2>3. QED
    BY <2>1, <2>2
<1>4. ~Saving(r)'
  BY <1>3 DEF Saving
<1>5. OnlyKnown(r)
  <2>1. \A d \in Drafts : Known(d, req'[r].snap.drafts[d])
    BY <1>1, <1>3, CopiesKnown
  <2>2. QED
    BY <1>1, <1>2, <1>3, <1>4, <2>1, CopiesKnown, MemoryKnown DEF OnlyKnown
<1>6. OpPlaced(r)'
  BY <1>1, <1>2, <1>3, <1>4 DEF InOrder, OpPlaced
<1>7. SubmitterFits(r)'
  <2>1. draftRow[req[r].draft].made
    BY <1>1, <1>2 DEF InOrder, SubmitterFits, ReadsStored, Submitters
  <2>2. Reading(r) = "none" =>
          LET s == subRow[FindingOfReq(r)] IN
          /\ s.report = 0 /\ s.state \notin Settled
          /\ s.state = "submission_attempted" => s.lease \in expired
    BY DEF Reading, Settled
  <2>3. FindingOfReq(r)' = FindingOfReq(r)
    BY <1>3 DEF FindingOfReq
  <2>4. ReadsStored(r)'
    BY <1>2, <1>3, <2>1, <2>2, <2>3 DEF ReadsStored
  <2>5. HoldsClaim(r)' /\ SavesResult(r)'
    BY <1>3, <1>4 DEF HoldsClaim, SavesResult
  <2>6. QED
    BY <2>4, <2>5 DEF SubmitterFits
<1>8. QED
  BY <1>2, <1>3, <1>4, <1>5, <1>6, <1>7, QuietStep

\* The claim is written over a row that holds no report, no doubt and no claim
\* that has not expired.
LEMMA ClaimOrder ==
  ASSUME SerialInv, SubmitsAlone, NEW r \in Requests, ClaimSubmission(r)
  PROVE  InOrder'
<1> USE DEF db, memory, remote, environment
<1> DEFINE d == req[r].draft
           f == FindingOfReq(r)
           n == claims + 1
<1>1. TypeOK /\ InOrder /\ d \in Drafts /\ f \in Findings
  BY RequestTypes DEF SerialInv, ClaimInv
<1>2. /\ req[r].stage = "claiming" /\ req[r].op = "submit" /\ ~Saving(r)
      /\ UNCHANGED <<memDraft, posts, crashes, expired>>
  BY <1>1 DEF ClaimSubmission, InOrder, OpPlaced, Saving
<1>3. /\ draftRow[d].made /\ subRow[f].report = 0 /\ subRow[f].state \notin Settled
      /\ subRow[f].state = "submission_attempted" => subRow[f].lease \in expired
  BY <1>1, <1>2 DEF InOrder, SubmitterFits, ReadsStored, Submitters
<1>4. PICK claim, reply :
        /\ AfterClaim(r, claim, reply)
        /\ \/ claim = 0 /\ UNCHANGED subRow
           \/ claim = 0 /\ subRow' = [subRow EXCEPT ![f] = Attempted(@, n)]
           \/ claim = n /\ subRow' = [subRow EXCEPT ![f] = Attempted(@, n)]
        /\ \/ UNCHANGED draftRow
           \/ draftRow' = [draftRow EXCEPT ![d].state = "submission_attempted"]
  BY DEF ClaimSubmission, ClaimDraft
<1>5. /\ \A q \in Requests \ {r} : req'[q] = req[q]
      /\ req'[r].stage = "claimed" /\ req'[r].claim = claim
      /\ req'[r].snap.drafts = draftRow'
      /\ req'[r].op = "submit" /\ req'[r].draft = d
      /\ req'[r].out = req[r].out /\ req'[r].rec = req[r].rec
  BY <1>1, <1>2, <1>4, AnsweredClaim
<1>6. ~Saving(r)' /\ FindingOfReq(r)' = f
  BY <1>5 DEF Saving, FindingOfReq
<1>7. \A e \in Drafts : /\ draftRow'[e].report = draftRow[e].report
                        /\ draftRow'[e].made = draftRow[e].made
                        /\ draftRow'[e].state \in {draftRow[e].state, "submission_attempted"}
  <2>1. \A e \in Drafts : draftRow[e] \in Draft
    BY <1>1 DEF TypeOK
  <2>2. CASE draftRow' = [draftRow EXCEPT ![d].state = "submission_attempted"]
    BY <1>1, <2>1, <2>2 DEF TypeOK, Draft
  <2>3. QED
    BY <1>4, <2>2
<1>8. /\ \A g \in Findings : subRow'[g].report = subRow[g].report
      /\ \A g \in Findings \ {f} : subRow'[g] = subRow[g]
      /\ claim # 0 => subRow'[f].state = "submission_attempted" /\ subRow'[f].lease = claim
  <2>1. subRow \in [Findings -> Row] /\ subRow[f] \in Row
    BY <1>1 DEF TypeOK
  <2>2. /\ Attempted(subRow[f], n).state = "submission_attempted"
        /\ Attempted(subRow[f], n).lease = n
        /\ Attempted(subRow[f], n).report = subRow[f].report
    BY <2>1 DEF Attempted, Row
  <2> DEFINE row == Attempted(subRow[f], n)
  <2> HIDE DEF f, row
  <2>3. CASE subRow' = [subRow EXCEPT ![f] = row]
    <3>1. subRow'[f] = row /\ \A g \in Findings \ {f} : subRow'[g] = subRow[g]
      BY <1>1, <2>1, <2>3
    <3>2. claim # 0 => claim = n
      BY <1>4
    <3>3. QED
      BY <2>2, <3>1, <3>2 DEF row
  <2>4. CASE UNCHANGED subRow /\ claim = 0
    BY <2>4
  <2>5. QED
    BY <1>4, <2>3, <2>4 DEF row
<1>9. OnlyKnown(r)
  <2>1. \A e \in Drafts : Known(e, draftRow'[e])
    BY <1>1, <1>7, CopiesKnown DEF Known, IsUnknown
  <2>2. Known(d, req[r].out)
    BY <1>1, <1>2, CopiesKnown
  <2>3. \A e \in Drafts : Known(e, memDraft'[e])
    BY <1>2, MemoryKnown
  <2>4. QED
    BY <1>5, <2>1, <2>2, <2>3 DEF OnlyKnown
<1>10. CopiesAgree' /\ OneUnknown'
  <2>1. \A e \in Drafts, c \in Draft : Copy(e, c)' => Known(e, c)
    BY <1>1, <1>5, <1>9, MoveKnown
  <2>2. \A g \in Findings : IsUnknown(subRow[g]) => IsUnknown(subRow'[g])
    BY <1>3, <1>8 DEF IsUnknown, Settled
  <2>3. QED
    BY <1>1, <1>8, <2>1, <2>2, KnownKeeps DEF InOrder
<1>11. \A q \in Requests : OpPlaced(q)' /\ SubmitterFits(q)'
  <2>1. OpPlaced(r)'
    BY <1>1, <1>2, <1>5, <1>6 DEF InOrder, OpPlaced
  <2>2. ReadsStored(r)'
    BY <1>1, <1>3, <1>5, <1>7 DEF ReadsStored
  <2>3. HoldsClaim(r)' /\ SavesResult(r)'
    BY <1>1, <1>3, <1>5, <1>6, <1>8 DEF HoldsClaim, SavesResult
  <2>4. QED
    BY <1>1, <1>2, <1>5, <2>1, <2>2, <2>3, FitsStep DEF InOrder, SubmitterFits
<1>12. AllResolved'
  <2> SUFFICES ASSUME NEW i \in 1 .. Len(posts), MaybeAccepted(i) PROVE Resolved(i)'
    BY <1>2 DEF AllResolved, MaybeAccepted
  <2> DEFINE g == FindingOf[posts[i].draft]
  <2>1. Resolved(i)
    BY <1>1 DEF InOrder, AllResolved
  <2>2. g \in Findings
    <3>1. posts[i] \in Post
      BY <1>1 DEF TypeOK
    <3>2. QED
      BY <3>1 DEF Post
  <2>3. \A q \in Requests : ~Saving(q)
    BY <1>1, <1>2, RunsAlone DEF InOrder
  <2>4. CASE g = f
    BY <1>2, <1>3, <2>1, <2>3, <2>4 DEF Resolved
  <2>5. CASE g # f
    BY <1>2, <1>8, <2>1, <2>2, <2>3, <2>5 DEF Resolved
  <2>6. QED
    BY <2>4, <2>5
<1>13. RepostedOnlyAfterCrash'
  BY <1>1, <1>2 DEF InOrder, RepostedOnlyAfterCrash, SameFinding, MaybeAccepted
<1>14. QED
  BY <1>10, <1>11, <1>12, <1>13 DEF InOrder

\* The memory is filled again; a submission that holds no claim ends.
LEMMA RehydrateOrder ==
  ASSUME SerialInv, SubmitsAlone, NEW r \in Requests, Rehydrate(r)
  PROVE  InOrder'
<1> USE DEF db, memory, remote, environment
<1>1. TypeOK /\ InOrder /\ req[r] \in Request
  BY RequestTypes DEF SerialInv, ClaimInv
<1>2. /\ req[r].stage = "claimed" /\ req[r].op = "submit" /\ ~Saving(r)
      /\ memDraft' = HydratedDrafts(req[r].snap)
      /\ UNCHANGED <<draftRow, subRow, posts, crashes, expired>>
  BY <1>1 DEF Rehydrate, Hydrate, InOrder, OpPlaced, Saving
<1>3. /\ \A d \in Drafts : Known(d, draftRow'[d])
      /\ \A d \in Drafts : Known(d, memDraft'[d])
  BY <1>1, <1>2, CopiesKnown, HydratedKnown
<1>4. CASE req[r].claim = 0
  <2>1. req' = [req EXCEPT ![r] = Idle(req[r].reply)]
    BY <1>4 DEF Rehydrate
  <2>2. QED
    BY <1>2, <1>3, <2>1, EndStep
<1>5. CASE req[r].claim # 0
  <2>1. /\ req'[r] = [req[r] EXCEPT !.stage = "posting", !.snap = NoSnapshot]
        /\ \A q \in Requests \ {r} : req'[q] = req[q]
    BY <1>1, <1>5 DEF Rehydrate, TypeOK
  <2>2. /\ req'[r].stage = "posting" /\ req'[r].op = "submit" /\ req'[r].draft = req[r].draft
        /\ req'[r].snap = NoSnapshot /\ req'[r].claim = req[r].claim
        /\ req'[r].out = req[r].out /\ req'[r].rec = req[r].rec
    BY <1>1, <1>2, <2>1 DEF Request
  <2>3. ~Saving(r)' /\ FindingOfReq(r)' = FindingOfReq(r)
    BY <2>2 DEF Saving, FindingOfReq
  <2>4. OnlyKnown(r)
    <3>1. Known(req[r].draft, req[r].out)
      BY <1>1, <1>2, CopiesKnown
    <3>2. QED
      BY <1>3, <2>2, <3>1, KnownAnyway DEF OnlyKnown, NoSnapshot
  <2>5. OpPlaced(r)'
    BY <1>1, <1>2, <2>2, <2>3 DEF InOrder, OpPlaced
  <2>6. SubmitterFits(r)'
    <3>1. ReadsStored(r) /\ HoldsClaim(r)
      BY <1>1, <1>2 DEF InOrder, SubmitterFits, Submitters
    <3>2. ReadsStored(r)'
      BY <1>2, <2>2, <3>1 DEF ReadsStored
    <3>3. HoldsClaim(r)' /\ SavesResult(r)'
      BY <1>2, <1>5, <2>2, <2>3, <3>1 DEF HoldsClaim, SavesResult
    <3>4. QED
      BY <3>2, <3>3 DEF SubmitterFits
  <2>7. QED
    BY <1>2, <2>1, <2>3, <2>4, <2>5, <2>6, QuietStep
<1>6. QED
  BY <1>4, <1>5

-----------------------------------------------------------------------------
(* The result of a submission. *)

\* The result is left in the memory and in the request.
LEMMA ResultStored ==
  ASSUME SerialInv, SubmitsAlone, NEW r \in Requests, NEW draft,
         req[r].stage # "idle", ~Saving(r), req[r].op \in Submitters,
         Store(r, draft), UNCHANGED draftRow
  PROVE  /\ \A q \in Requests \ {r} : req'[q] = req[q]
         /\ req'[r].stage = "saving" /\ req'[r].op = req[r].op
         /\ req'[r].draft = req[r].draft /\ req'[r].claim = req[r].claim
         /\ req'[r].snap = req[r].snap /\ req'[r].out = draft
         /\ req'[r].base = draftRow[req[r].draft]
         /\ memDraft'[req[r].draft] = draft
         /\ Saving(r)' /\ FindingOfReq(r)' = FindingOfReq(r)
         /\ OnlyKnown(r)
<1> DEFINE d == req[r].draft
<1>1. TypeOK /\ req[r] \in Request /\ d \in Drafts
  BY RequestTypes DEF SerialInv, ClaimInv
<1>2. /\ req'[r] = [req[r] EXCEPT !.stage = "saving", !.out = draft, !.base = draftRow[d]]
      /\ \A q \in Requests \ {r} : req'[q] = req[q]
  BY <1>1 DEF TypeOK, Store, Submitters
<1>3. /\ req'[r].stage = "saving" /\ req'[r].op = req[r].op /\ req'[r].draft = d
      /\ req'[r].claim = req[r].claim /\ req'[r].snap = req[r].snap
      /\ req'[r].out = draft /\ req'[r].base = draftRow[d]
  BY <1>1, <1>2 DEF Request
<1>4. Saving(r)' /\ FindingOfReq(r)' = FindingOfReq(r)
  BY <1>3 DEF Saving, FindingOfReq
<1>5. \A e \in Drafts : memDraft'[e] = IF e = d THEN draft ELSE memDraft[e]
  BY <1>1 DEF Store, TypeOK
<1>6. OnlyKnown(r)
  <2>1. \A e \in Drafts : ~Window(e)' => e # d
    BY <1>3, <1>4 DEF Window
  <2>2. \A e \in Drafts : ~Window(e)' => Known(e, memDraft'[e])
    BY <1>1, <1>5, <2>1, MemoryKnown
  <2>3. QED
    BY <1>1, <1>3, <1>4, <2>2, CopiesKnown DEF OnlyKnown
<1>7. QED
  BY <1>1, <1>2, <1>3, <1>4, <1>5, <1>6

\* What the memory says of the draft of a running submission, its finding's row
\* says too.
LEMMA MemoryAgrees ==
  ASSUME SerialInv, SubmitsAlone, NEW r \in Requests, req[r].stage # "idle", ~Saving(r)
  PROVE  LET draft == memDraft[req[r].draft]
             s == subRow[FindingOfReq(r)]
         IN  /\ draft.report # 0 => draft.report = s.report
             /\ IsUnknown(draft) => IsUnknown(s) /\ s.report = 0
<1>1. req[r].draft \in Drafts /\ memDraft[req[r].draft] \in Draft
  BY RequestTypes DEF SerialInv, ClaimInv
<1>2. Agrees(req[r].draft, memDraft[req[r].draft])
  BY <1>1, MemoryKnown DEF SerialInv, InOrder, CopiesAgree
<1>3. QED
  BY <1>2 DEF Agrees, FindingOfReq

\* The POST goes out under a claim that stands in the finding's row; a report of
\* that finding that may have been accepted before has been cut off by a crash.
LEMMA PostOrder ==
  ASSUME SerialInv, SubmitsAlone, NEW r \in Requests, PostReport(r)
  PROVE  InOrder'
<1> USE DEF db, memory, remote, environment
<1> DEFINE d == req[r].draft
           f == FindingOfReq(r)
           draft == memDraft[d]
           result(o) == [draft EXCEPT !.state = StateAfter(o),
                                      !.report = IF o = "accepted" THEN Len(posts) + 1 ELSE @]
           post(o) == [draft |-> d, content |-> draft.content, scope |-> req[r].seen.scope,
                       evidence |-> req[r].seen.evidence, approval |-> draft.approval,
                       claim |-> req[r].claim, outcome |-> o]
<1>1. /\ TypeOK /\ InOrder /\ ClaimHeld(r) /\ req[r] \in Request
      /\ d \in Drafts /\ f \in Findings /\ draft \in Draft
  BY RequestTypes DEF SerialInv, ClaimInv, ClaimsHeld
<1>2. /\ req[r].stage = "posting" /\ req[r].op = "submit" /\ ~Saving(r)
      /\ UNCHANGED <<draftRow, subRow, crashes, expired>>
  BY <1>1 DEF PostReport, InOrder, OpPlaced, Saving
<1>3. PICK o \in Outcomes :
        /\ posts' = Append(posts, post(o))
        /\ Store(r, result(o))
        /\ memSub' = [memSub EXCEPT ![f] = [state |-> result(o).state, report |-> result(o).report]]
  BY DEF PostReport, FindingOfReq
<1>4. /\ result(o).state = StateAfter(o)
      /\ result(o).report = IF o = "accepted" THEN Len(posts) + 1 ELSE draft.report
  BY <1>1 DEF Draft
<1>5. /\ post(o).draft = d /\ post(o).claim = req[r].claim /\ post(o).outcome = o
  OBVIOUS
<1> HIDE DEF result, post
<1>6. /\ subRow[f].state = "submission_attempted" /\ subRow[f].lease = req[r].claim
      /\ subRow[f].report = 0 /\ draftRow[d].made
  BY <1>1, <1>2 DEF InOrder, SubmitterFits, HoldsClaim, ReadsStored, Submitters
<1>7. draft.report = 0
  BY <1>2, <1>6, MemoryAgrees
<1>8. Unposted(req[r].claim)
  BY <1>1, <1>2 DEF ClaimHeld, Armed
<1>9. /\ Len(posts') = Len(posts) + 1 /\ posts'[Len(posts) + 1] = post(o)
      /\ \A i \in 1 .. Len(posts) : posts'[i] = posts[i]
      /\ Len(posts) \in Nat
  BY <1>1, <1>3 DEF TypeOK
<1>10. /\ \A q \in Requests \ {r} : req'[q] = req[q]
       /\ req'[r].stage = "saving" /\ req'[r].op = "submit"
       /\ req'[r].draft = d /\ req'[r].claim = req[r].claim
       /\ req'[r].snap = req[r].snap /\ req'[r].out = result(o)
       /\ req'[r].base = draftRow[d] /\ memDraft'[d] = result(o)
       /\ Saving(r)' /\ FindingOfReq(r)' = f /\ OnlyKnown(r)
  BY <1>2, <1>3, ResultStored DEF Submitters
<1>11. CopiesAgree' /\ OneUnknown'
  <2>1. \A e \in Drafts, c \in Draft : Copy(e, c)' => Known(e, c)
    BY <1>1, <1>10, MoveKnown
  <2>2. QED
    BY <1>1, <1>2, <2>1, KnownKeeps DEF InOrder
<1>12. \A q \in Requests : OpPlaced(q)' /\ SubmitterFits(q)'
  <2>1. OpPlaced(r)'
    BY <1>1, <1>2, <1>10 DEF InOrder, OpPlaced, Submitters
  <2>2. ReadsStored(r)' /\ HoldsClaim(r)'
    BY <1>2, <1>6, <1>10 DEF ReadsStored, HoldsClaim
  <2>3. Pending(r)' = [state |-> StateAfter(o), report |-> result(o).report]
    BY <1>1, <1>3, <1>4, <1>10 DEF Pending, TypeOK
  <2>4. StateAfter(o) # "none"
    BY DEF StateAfter
  <2>5. StateAfter(o) = "submission_outcome_unknown" => result(o).report = 0
    BY <1>4, <1>7 DEF StateAfter
  <2>6. \A i \in 1 .. Len(posts') :
          MaybeAccepted(i)' /\ posts'[i].claim = req[r].claim => StateAfter(o) \in Settled
    <3>1. ASSUME NEW i \in 1 .. Len(posts'), MaybeAccepted(i)',
                 posts'[i].claim = req[r].claim
          PROVE  StateAfter(o) \in Settled
      <4>1. i = Len(posts) + 1
        BY <1>8, <1>9, <3>1 DEF Unposted
      <4>2. o \in {"accepted", "timeout_accepted", "timeout_lost"}
        BY <1>5, <1>9, <3>1, <4>1 DEF MaybeAccepted
      <4>3. QED
        BY <4>2 DEF StateAfter, Settled
    <3>2. QED
      BY <3>1
  <2>7. SavesResult(r)'
    BY <1>2, <1>4, <1>6, <1>10, <2>3, <2>4, <2>5, <2>6 DEF SavesResult, IsUnknown
  <2>8. QED
    BY <1>1, <1>2, <1>10, <2>1, <2>2, <2>7, FitsStep DEF InOrder, SubmitterFits
<1>13. \A q \in Requests : ~Saving(q)
  BY <1>1, <1>2, RunsAlone DEF InOrder
<1>14. AllResolved'
  <2> SUFFICES ASSUME NEW i \in 1 .. Len(posts'), MaybeAccepted(i)' PROVE Resolved(i)'
    BY DEF AllResolved
  <2>1. CASE i = Len(posts) + 1
    BY <1>2, <1>5, <1>6, <1>9, <1>10, <2>1 DEF Resolved, FindingOfReq
  <2>2. CASE i \in 1 .. Len(posts)
    <3>1. Resolved(i)
      BY <1>1, <1>9, <2>2 DEF InOrder, AllResolved, MaybeAccepted
    <3>2. QED
      BY <1>2, <1>9, <1>13, <2>2, <3>1 DEF Resolved
  <2>3. QED
    BY <1>9, <2>1, <2>2
<1>15. RepostedOnlyAfterCrash'
  <2> SUFFICES ASSUME NEW i \in 1 .. Len(posts'), NEW j \in 1 .. Len(posts'),
                      i < j, SameFinding(i, j)', MaybeAccepted(i)'
               PROVE  crashes' > 0 /\ posts'[i].claim \in expired'
    BY DEF RepostedOnlyAfterCrash
  <2>1. i \in 1 .. Len(posts) /\ posts'[i] = posts[i] /\ MaybeAccepted(i)
    BY <1>9 DEF MaybeAccepted
  <2>2. CASE j \in 1 .. Len(posts)
    BY <1>1, <1>2, <1>9, <2>1, <2>2 DEF InOrder, RepostedOnlyAfterCrash, SameFinding
  <2>3. CASE j = Len(posts) + 1
    <3>1. FindingOf[posts[i].draft] = f
      BY <1>5, <1>9, <2>1, <2>3 DEF SameFinding, FindingOfReq
    <3>2. Resolved(i)
      BY <1>1, <2>1 DEF InOrder, AllResolved
    <3>3. posts[i].claim # req[r].claim
      BY <1>8, <2>1 DEF Unposted
    <3>4. QED
      BY <1>2, <1>6, <2>1, <3>1, <3>2, <3>3 DEF Resolved, Settled
  <2>4. QED
    BY <1>9, <2>2, <2>3
<1>16. QED
  BY <1>11, <1>12, <1>14, <1>15 DEF InOrder

\* A reconciliation finds the report the finding's row names, or settles the one
\* doubt the row holds.
LEMMA ReconcileOrder ==
  ASSUME SerialInv, SubmitsAlone, NEW r \in Requests, Reconcile(r)
  PROVE  InOrder'
<1> USE DEF db, memory, remote, environment
<1> DEFINE d == req[r].draft
           f == FindingOfReq(r)
           draft == memDraft[d]
           s == subRow[f]
<1>1. /\ TypeOK /\ InOrder /\ req[r] \in Request
      /\ d \in Drafts /\ f \in Findings /\ draft \in Draft
  BY RequestTypes DEF SerialInv, ClaimInv
<1>2. /\ req[r].stage = "bound" /\ req[r].op = "reconcile" /\ ~Saving(r)
      /\ UNCHANGED <<draftRow, subRow, posts, crashes, expired>>
  BY DEF Reconcile, Calls, Saving
<1>3. /\ draftRow[d].made /\ memDraft[d] = draftRow[d]
      /\ s.state # "none" => memSub[f] = [state |-> s.state, report |-> s.report]
  BY <1>1, <1>2 DEF InOrder, SubmitterFits, ReadsStored, Submitters
<1>4. /\ draft.report # 0 => draft.report = s.report
      /\ IsUnknown(draft) => IsUnknown(s) /\ s.report = 0
  BY <1>2, MemoryAgrees
\* The result, and the submission record that goes with it.
<1> DEFINE Goes(result, record) ==
             /\ Store(r, result) /\ memSub'[f] = record
             /\ record.state \in Settled
             /\ s.report # 0 => record.report = s.report
             /\ result.report # 0 => result.report = record.report
             /\ IsUnknown(result) => IsUnknown(record) /\ record.report = 0
             /\ IsUnknown(record) => IsUnknown(result)
             /\ IsUnknown(draftRow[d]) \/ s.report # 0
<1>5. PICK result, record : Goes(result, record)
  <2> DEFINE fetched(report) == [draft EXCEPT !.state = "submitted", !.report = report]
             learned(report) == [state |-> "submitted", report |-> report]
  <2>1. ASSUME NEW report, ApplyRemote(r, report)
        PROVE  /\ Store(r, fetched(report)) /\ memSub'[f] = learned(report)
               /\ fetched(report).report = report /\ fetched(report).state = "submitted"
               /\ learned(report).report = report /\ learned(report).state = "submitted"
    BY <1>1, <2>1 DEF ApplyRemote, TypeOK, FindingOfReq, Draft
  <2> HIDE DEF fetched, remote
  <2>2. CASE draft.report # 0 /\ ApplyRemote(r, draft.report)
    <3>1. Goes(fetched(draft.report), learned(draft.report))
      BY <1>4, <2>1, <2>2 DEF IsUnknown, Settled
    <3>2. QED
      BY <3>1
  <2>3. CASE /\ draft.report = 0 /\ draft.state = "submission_outcome_unknown"
             /\ \E i \in Listed(d) : ApplyRemote(r, i)
    <3>1. IsUnknown(draftRow[d]) /\ s.report = 0
      BY <1>3, <1>4, <2>3 DEF IsUnknown
    <3>2. PICK i \in Listed(d) : ApplyRemote(r, i)
      BY <2>3
    <3>3. Goes(fetched(i), learned(i))
      BY <2>1, <3>1, <3>2 DEF IsUnknown, Settled
    <3>4. QED
      BY <3>3
  <2>4. CASE /\ draft.report = 0 /\ draft.state = "submission_outcome_unknown"
             /\ Store(r, draft) /\ UNCHANGED memSub
    <3>1. IsUnknown(draft) /\ IsUnknown(draftRow[d]) /\ IsUnknown(s) /\ s.report = 0
      BY <1>3, <1>4, <2>4 DEF IsUnknown
    <3>2. memSub'[f].state = s.state /\ memSub'[f].report = s.report
      BY <1>3, <2>4, <3>1 DEF IsUnknown
    <3>3. Goes(draft, memSub'[f])
      BY <2>4, <3>1, <3>2 DEF IsUnknown, Settled
    <3>4. QED
      BY <3>3
  <2>5. QED
    BY <2>2, <2>3, <2>4 DEF Reconcile
<1>6. /\ \A q \in Requests \ {r} : req'[q] = req[q]
      /\ req'[r].stage = "saving" /\ req'[r].op = "reconcile"
      /\ req'[r].draft = d /\ req'[r].snap = req[r].snap /\ req'[r].out = result
      /\ req'[r].base = draftRow[d] /\ memDraft'[d] = result
      /\ Saving(r)' /\ FindingOfReq(r)' = f /\ OnlyKnown(r)
  BY <1>2, <1>5, ResultStored DEF Submitters
<1>7. OpPlaced(r)'
  BY <1>1, <1>2, <1>6 DEF InOrder, OpPlaced, Submitters
<1>8. SubmitterFits(r)'
  <2>1. ReadsStored(r)' /\ HoldsClaim(r)'
    BY <1>2, <1>3, <1>6 DEF ReadsStored, HoldsClaim
  <2>2. Pending(r)' = record
    BY <1>5, <1>6 DEF Pending
  <2>3. SavesResult(r)'
    BY <1>2, <1>5, <1>6, <2>2 DEF SavesResult, Settled
  <2>4. QED
    BY <2>1, <2>3 DEF SubmitterFits
<1>9. QED
  BY <1>2, <1>6, <1>7, <1>8, QuietStep

\* The submission record is the one the result was left with.
LEMMA ReadRecordOrder ==
  ASSUME SerialInv, SubmitsAlone, NEW r \in Requests, ReadSubmissionRecord(r)
  PROVE  InOrder'
<1> USE DEF db, memory, remote, environment
<1>1. TypeOK /\ InOrder /\ req[r] \in Request
  BY RequestTypes DEF SerialInv, ClaimInv
<1>2. /\ req[r].stage = "saving" /\ req[r].op \in Submitters /\ Saving(r)
      /\ UNCHANGED <<draftRow, subRow, memDraft, memSub, posts, crashes, expired>>
  BY <1>1 DEF ReadSubmissionRecord, InOrder, OpPlaced, Saving
<1>3. /\ req'[r] = [req[r] EXCEPT !.stage = "committing", !.rec = memSub[FindingOfReq(r)],
                                  !.recBase = subRow[FindingOfReq(r)]]
      /\ \A q \in Requests \ {r} : req'[q] = req[q]
  BY <1>1 DEF ReadSubmissionRecord, TypeOK
<1>4. /\ req'[r].stage = "committing" /\ req'[r].op = req[r].op
      /\ req'[r].draft = req[r].draft /\ req'[r].claim = req[r].claim
      /\ req'[r].snap = req[r].snap /\ req'[r].out = req[r].out
      /\ req'[r].base = req[r].base /\ req'[r].rec = memSub[FindingOfReq(r)]
      /\ req'[r].recBase = subRow[FindingOfReq(r)]
  BY <1>1, <1>3 DEF Request
<1>5. Saving(r)' /\ FindingOfReq(r)' = FindingOfReq(r)
  BY <1>2, <1>4 DEF Saving, FindingOfReq
<1>6. \A d \in Drafts : Window(d) => Window(d)'
  BY <1>3, <1>4, <1>5 DEF Window, Saving
<1>7. OnlyKnown(r)
  BY <1>1, <1>2, <1>4, <1>5, <1>6, CopiesKnown DEF OnlyKnown
<1>8. OpPlaced(r)'
  BY <1>1, <1>2, <1>4, <1>5 DEF InOrder, OpPlaced, Submitters
<1>9. SubmitterFits(r)'
  <2>1. ReadsStored(r) /\ HoldsClaim(r) /\ SavesResult(r)
    BY <1>1, <1>2 DEF InOrder, SubmitterFits
  <2>2. Pending(r)' = Pending(r)
    BY <1>2, <1>4 DEF Pending
  <2>3. ReadsStored(r)' /\ HoldsClaim(r)'
    BY <1>2, <1>4, <1>5, <2>1 DEF ReadsStored, HoldsClaim
  <2>4. SavesResult(r)'
    BY <1>2, <1>4, <1>5, <2>1, <2>2 DEF SavesResult, MaybeAccepted
  <2>5. QED
    BY <2>3, <2>4 DEF SubmitterFits
<1>10. QED
  BY <1>2, <1>3, <1>4, <1>5, <1>7, <1>8, <1>9, QuietStep

-----------------------------------------------------------------------------
(* The commit. *)

\* Every column comes from the row or from the result; of a row that has not
\* changed since it was loaded, the result is what remains.
LEMMA FlushedColumns ==
  /\ \A row, base, out \in Draft :
       /\ Flushed(row, base, out).report \in {row.report, out.report}
       /\ Flushed(row, base, out).state \in {row.state, out.state}
  /\ \A row, out \in Draft : Flushed(row, row, out) = out
  /\ \A row \in Row, out \in Submission :
       /\ Flushed(row, row, out).state = out.state
       /\ Flushed(row, row, out).report = out.report
       /\ Flushed(row, row, out).lease = row.lease
<1>1. ASSUME NEW row \in Draft, NEW base \in Draft, NEW out \in Draft
      PROVE  /\ Flushed(row, base, out).report \in {row.report, out.report}
             /\ Flushed(row, base, out).state \in {row.state, out.state}
  BY DEF Flushed, Draft
<1>2. ASSUME NEW row \in Draft, NEW out \in Draft PROVE Flushed(row, row, out) = out
  BY DEF Flushed, Draft
<1>3. ASSUME NEW row \in Row, NEW out \in Submission
      PROVE  /\ Flushed(row, row, out).state = out.state
             /\ Flushed(row, row, out).report = out.report
             /\ Flushed(row, row, out).lease = row.lease
  BY DEF Flushed, Row, Submission
<1>4. QED
  BY <1>1, <1>2, <1>3

\* The result of a handler that does not submit is known already, column by column.
LEMMA CommitOtherOrder ==
  ASSUME SerialInv, SubmitsAlone, NEW r \in Requests, Commit(r), req[r].op \notin Submitters
  PROVE  InOrder'
<1> USE DEF db, memory, remote, environment
<1> DEFINE d == req[r].draft
           row == Flushed(draftRow[d], req[r].base, req[r].out)
<1>1. TypeOK /\ InOrder /\ d \in Drafts /\ req[r] \in Request
  BY RequestTypes DEF SerialInv, ClaimInv
<1>2. req[r].stage = "committing" /\ ~Saving(r) /\ req[r].rec = NoSubmission
  BY <1>1 DEF Commit, Saving, InOrder, OpPlaced
<1>3. /\ req' = [req EXCEPT ![r] = Idle("none")]
      /\ draftRow' = [draftRow EXCEPT ![d] = row]
      /\ UNCHANGED <<subRow, memDraft, posts, crashes, expired>>
  BY <1>2 DEF Commit, NoSubmission
<1>4. draftRow[d] \in Draft /\ req[r].base \in Draft /\ req[r].out \in Draft
  BY <1>1 DEF TypeOK, Request
<1>5. row.report \in {draftRow[d].report, req[r].out.report}
      /\ row.state \in {draftRow[d].state, req[r].out.state}
  BY <1>4, FlushedColumns
<1> HIDE DEF row
<1>6. Known(d, draftRow[d]) /\ Known(d, req[r].out)
  BY <1>1, <1>2, CopiesKnown
<1>7. Known(d, row)
  BY <1>5, <1>6 DEF Known, IsUnknown
<1>8. \A e \in Drafts : Known(e, draftRow'[e])
  BY <1>1, <1>3, <1>7, CopiesKnown DEF TypeOK
<1>9. \A e \in Drafts : Known(e, memDraft'[e])
  BY <1>2, <1>3, MemoryKnown
<1>10. QED
  BY <1>2, <1>3, <1>8, <1>9, EndStep

\* The commit of a submission: the draft's row and the finding's row say what its
\* result says, and the memory does.
LEMMA CommitWrites ==
  ASSUME SerialInv, SubmitsAlone, NEW r \in Requests, Commit(r), req[r].op \in Submitters
  PROVE  LET d == req[r].draft
             f == FindingOfReq(r)
             p == req[r].rec
         IN
         /\ \A e \in Drafts : draftRow'[e] = IF e = d THEN req[r].out ELSE draftRow[e]
         /\ memDraft' = memDraft /\ memDraft[d] = req[r].out
         /\ subRow'[f].state = p.state /\ subRow'[f].report = p.report
         /\ \A g \in Findings \ {f} : subRow'[g] = subRow[g]
         /\ req'[r] = Idle("none") /\ \A q \in Requests \ {r} : req'[q] = req[q]
         /\ Saving(r) /\ SavesResult(r) /\ HoldsClaim(r) /\ Pending(r) = p
         /\ UNCHANGED <<posts, crashes, expired>>
<1> USE DEF db, memory, remote, environment
<1> DEFINE d == req[r].draft
           f == FindingOfReq(r)
           p == req[r].rec
<1>1. TypeOK /\ InOrder /\ d \in Drafts /\ f \in Findings /\ req[r] \in Request
  BY RequestTypes DEF SerialInv, ClaimInv
<1>2. req[r].stage = "committing" /\ Saving(r)
  BY DEF Commit, Saving
<1>3. SavesResult(r) /\ HoldsClaim(r) /\ Pending(r) = p
  BY <1>1, <1>2 DEF InOrder, SubmitterFits, Pending
<1>4. /\ req[r].base = draftRow[d] /\ req[r].out = memDraft[d]
      /\ req[r].recBase = subRow[f] /\ p.state # "none"
  BY <1>2, <1>3 DEF SavesResult
<1>5. /\ draftRow[d] \in Draft /\ req[r].out \in Draft
      /\ subRow[f] \in Row /\ p \in Submission
  BY <1>1 DEF TypeOK, Request
<1>6. Flushed(draftRow[d], req[r].base, req[r].out) = req[r].out
  BY <1>4, <1>5, FlushedColumns
<1>7. \A e \in Drafts : draftRow'[e] = IF e = d THEN req[r].out ELSE draftRow[e]
  BY <1>1, <1>6 DEF Commit, TypeOK
<1> DEFINE row == Flushed(subRow[f], req[r].recBase, p)
<1>8. row.state = p.state /\ row.report = p.report
  BY <1>4, <1>5, FlushedColumns
<1>9. subRow' = [subRow EXCEPT ![f] = row]
  BY <1>4 DEF Commit
<1> HIDE DEF row, f
<1>10. subRow'[f] = row /\ \A g \in Findings \ {f} : subRow'[g] = subRow[g]
  BY <1>1, <1>9 DEF TypeOK
<1>11. /\ req'[r] = Idle("none") /\ \A q \in Requests \ {r} : req'[q] = req[q]
       /\ UNCHANGED <<memDraft, posts, crashes, expired>>
  BY <1>1 DEF Commit, TypeOK
<1>12. QED
  BY <1>2, <1>3, <1>4, <1>7, <1>8, <1>10, <1>11 DEF f

\* After the commit of a submission a draft's copies are its result, if it is the
\* submission's draft, and otherwise what they were, or say nothing.
LEMMA CommitCopies ==
  ASSUME SerialInv, SubmitsAlone, NEW r \in Requests, Commit(r), req[r].op \in Submitters,
         NEW e \in Drafts, NEW c \in Draft, Copy(e, c)'
  PROVE  \/ Bland(c)
         \/ e = req[r].draft /\ c = req[r].out
         \/ e # req[r].draft /\ Copy(e, c)
<1> DEFINE d == req[r].draft
<1>1. TypeOK /\ InOrder /\ d \in Drafts
  BY RequestTypes DEF SerialInv, ClaimInv
<1>2. /\ \A x \in Drafts : draftRow'[x] = IF x = d THEN req[r].out ELSE draftRow[x]
      /\ memDraft' = memDraft /\ memDraft[d] = req[r].out
      /\ req'[r] = Idle("none") /\ \A q \in Requests \ {r} : req'[q] = req[q]
      /\ Saving(r)
  BY CommitWrites
<1>3. \A q \in Requests \ {r} : req[q].stage = "idle"
  BY <1>1, <1>2, RunsAlone DEF InOrder, Saving
<1>4. \A q \in Requests : req'[q].snap = NoSnapshot /\ req'[q].out = NoDraft
  <2>1. \A q \in Requests \ {r} : req[q].snap = NoSnapshot /\ req[q].out = NoDraft
    BY <1>1, <1>3 DEF InOrder, OpPlaced
  <2>2. QED
    BY <1>2, <2>1 DEF Idle
<1>5. CASE c = draftRow'[e]
  BY <1>2, <1>5 DEF Copy
<1>6. CASE c = memDraft'[e]
  <2>1. e # d => ~Window(e)
    BY <1>1, <1>2, RunsAlone DEF InOrder, Saving
  <2>2. QED
    BY <1>2, <1>6, <2>1 DEF Copy
<1>7. CASE \E q \in Requests : c = req'[q].snap.drafts[e] \/ c = req'[q].out
  BY <1>4, <1>7, KnownAnyway DEF NoSnapshot
<1>8. QED
  BY <1>5, <1>6, <1>7 DEF Copy

\* The commit of a submission settles its finding, or leaves it as free as a POST
\* that HackerOne has not accepted leaves it.
LEMMA CommitOrder ==
  ASSUME SerialInv, SubmitsAlone, NEW r \in Requests, Commit(r), req[r].op \in Submitters
  PROVE  InOrder'
<1> DEFINE d == req[r].draft
           f == FindingOfReq(r)
           p == req[r].rec
           s == subRow[f]
<1>1. TypeOK /\ InOrder /\ d \in Drafts /\ f = FindingOf[d]
  BY RequestTypes DEF SerialInv, ClaimInv, FindingOfReq
<1>2. /\ \A e \in Drafts : draftRow'[e] = IF e = d THEN req[r].out ELSE draftRow[e]
      /\ subRow'[f].state = p.state /\ subRow'[f].report = p.report
      /\ \A g \in Findings \ {f} : subRow'[g] = subRow[g]
      /\ req'[r] = Idle("none") /\ \A q \in Requests \ {r} : req'[q] = req[q]
      /\ Saving(r) /\ SavesResult(r) /\ HoldsClaim(r) /\ Pending(r) = p
      /\ UNCHANGED <<posts, crashes, expired>>
  BY CommitWrites
<1>3. /\ s.report # 0 => p.report = s.report
      /\ req[r].out.report # 0 => req[r].out.report = p.report
      /\ IsUnknown(req[r].out) => IsUnknown(p) /\ p.report = 0
      /\ req[r].op = "reconcile" => p.state \in Settled
      /\ req[r].op = "reconcile" => IsUnknown(draftRow[d]) \/ s.report # 0
      /\ \A i \in 1 .. Len(posts) :
           MaybeAccepted(i) /\ posts[i].claim = req[r].claim => p.state \in Settled
  BY <1>2 DEF SavesResult
<1>4. req[r].op = "submit" =>
        s.state = "submission_attempted" /\ s.lease = req[r].claim /\ s.report = 0
  BY <1>2 DEF HoldsClaim
<1>5. ASSUME NEW e \in Drafts, NEW c \in Draft,
             e # d, FindingOf[e] = f, Copy(e, c), IsUnknown(c)
      PROVE  FALSE
  <2>1. IsUnknown(s) /\ s.report = 0
    BY <1>1, <1>5 DEF InOrder, CopiesAgree, Agrees
  <2>2. req[r].op = "reconcile"
    BY <1>2, <1>4, <2>1 DEF IsUnknown, Saving, Submitters
  <2>3. IsUnknown(draftRow[d]) /\ draftRow[d] \in Draft /\ Copy(d, draftRow[d])
    BY <1>1, <1>3, <2>1, <2>2 DEF TypeOK, Copy
  <2>4. QED
    BY <1>1, <1>5, <2>3 DEF InOrder, OneUnknown
<1>6. CopiesAgree'
  <2> SUFFICES ASSUME NEW e \in Drafts, NEW c \in Draft, Copy(e, c)' PROVE Agrees(e, c)'
    BY DEF CopiesAgree
  <2>1. CASE Bland(c)
    BY <2>1 DEF Bland, Agrees, IsUnknown
  <2>2. CASE e = d /\ c = req[r].out
    BY <1>1, <1>2, <1>3, <2>2 DEF Agrees, IsUnknown
  <2>3. CASE e # d /\ Copy(e, c)
    <3>1. Agrees(e, c)
      BY <1>1, <2>3 DEF InOrder, CopiesAgree
    <3>2. CASE FindingOf[e] = f
      <4>1. ~IsUnknown(c)
        BY <1>5, <2>3, <3>2
      <4>2. QED
        BY <1>2, <1>3, <3>1, <3>2, <4>1 DEF Agrees, IsUnknown
    <3>3. CASE FindingOf[e] # f
      <4>1. subRow'[FindingOf[e]] = subRow[FindingOf[e]]
        BY <1>2, <3>3
      <4>2. QED
        BY <3>1, <4>1 DEF Agrees, IsUnknown
    <3>4. QED
      BY <3>2, <3>3
  <2>4. QED
    BY <2>1, <2>2, <2>3, CommitCopies
<1>7. OneUnknown'
  <2> SUFFICES ASSUME NEW x \in Drafts, NEW y \in Drafts, NEW b \in Draft, NEW c \in Draft,
                      FindingOf[x] = FindingOf[y],
                      Copy(x, b)', IsUnknown(b), Copy(y, c)', IsUnknown(c)
               PROVE  x = y
    BY DEF OneUnknown, IsUnknown
  <2>1. x = d \/ Copy(x, b)
    BY CommitCopies DEF Bland
  <2>2. y = d \/ Copy(y, c)
    BY CommitCopies DEF Bland
  <2>3. CASE x = d \/ y = d
    BY <1>1, <1>5, <2>1, <2>2, <2>3
  <2>4. CASE x # d /\ y # d
    BY <1>1, <2>1, <2>2, <2>4 DEF InOrder, OneUnknown
  <2>5. QED
    BY <2>3, <2>4
<1>8. \A q \in Requests : OpPlaced(q)' /\ SubmitterFits(q)'
  <2>1. OpPlaced(r)' /\ SubmitterFits(r)'
    BY <1>2 DEF OpPlaced, SubmitterFits, Submitters, Saving, Idle
  <2>2. req[r].stage # "idle"
    BY <1>2 DEF Saving
  <2>3. QED
    BY <1>1, <1>2, <2>1, <2>2, FitsStep DEF InOrder
<1>9. AllResolved'
  <2> SUFFICES ASSUME NEW i \in 1 .. Len(posts), MaybeAccepted(i) PROVE Resolved(i)'
    BY <1>2 DEF AllResolved, MaybeAccepted
  <2> DEFINE g == FindingOf[posts[i].draft]
  <2>1. Resolved(i)
    BY <1>1 DEF InOrder, AllResolved
  <2>2. g \in Findings
    <3>1. posts[i] \in Post
      BY <1>1 DEF TypeOK
    <3>2. QED
      BY <3>1 DEF Post
  <2>3. \A q \in Requests : Saving(q) => q = r
    BY <1>1, <1>2, RunsAlone DEF InOrder, Saving
  <2>4. CASE g # f
    <3>1. subRow'[g] = subRow[g]
      BY <1>2, <2>2, <2>4
    <3>2. \A q \in Requests : Saving(q) => req[q].draft # posts[i].draft
      BY <1>1, <2>3, <2>4
    <3>3. QED
      BY <1>2, <2>1, <3>1, <3>2 DEF Resolved
  <2>5. CASE g = f
    <3>1. CASE s.state \in Settled
      <4>1. req[r].op = "reconcile"
        BY <1>2, <1>4, <3>1 DEF Saving, Submitters, Settled
      <4>2. QED
        BY <1>2, <1>3, <2>5, <4>1 DEF Resolved
    <3>2. CASE crashes > 0 /\ posts[i].claim \in expired
      BY <1>2, <3>2 DEF Resolved
    <3>3. CASE s.state = "submission_attempted" /\ s.lease = posts[i].claim
      <4>1. p.state \in Settled
        BY <1>2, <1>3, <1>4, <3>3 DEF Saving, Submitters
      <4>2. QED
        BY <1>2, <2>5, <4>1 DEF Resolved
    <3>4. QED
      BY <2>1, <2>5, <3>1, <3>2, <3>3 DEF Resolved
  <2>6. QED
    BY <2>4, <2>5
<1>10. RepostedOnlyAfterCrash'
  BY <1>1, <1>2 DEF InOrder, RepostedOnlyAfterCrash, SameFinding, MaybeAccepted
<1>11. QED
  BY <1>6, <1>7, <1>8, <1>9, <1>10 DEF InOrder

-----------------------------------------------------------------------------
(* Time, the world and the crash. *)

\* Claims that expire, approvals that lapse and a world that changes take nothing
\* from the submission in flight.
LEMMA EnvironmentOrder ==
  ASSUME SerialInv, NEW n,
         ExpireClaim(n) \/ LapseApproval(n) \/ ChangeWorld \/ UNCHANGED vars
  PROVE  InOrder'
<1> USE DEF db, memory, remote, environment
<1>1. TypeOK /\ InOrder
  BY DEF SerialInv, ClaimInv
<1>2. /\ UNCHANGED <<draftRow, subRow, memDraft, memSub, req, posts, crashes>>
      /\ expired \subseteq expired'
  BY DEF ExpireClaim, LapseApproval, ChangeWorld, vars
<1>3. \A d \in Drafts, c \in Draft : Copy(d, c)' <=> Copy(d, c)
  BY <1>2 DEF Copy, Window, Saving
<1>4. CopiesAgree' /\ OneUnknown'
  BY <1>1, <1>2, <1>3 DEF InOrder, CopiesAgree, OneUnknown, Agrees, IsUnknown
<1>5. ASSUME NEW q \in Requests PROVE OpPlaced(q)' /\ SubmitterFits(q)'
  <2>1. OpPlaced(q) /\ SubmitterFits(q)
    BY <1>1 DEF InOrder
  <2>2. Saving(q)' <=> Saving(q)
    BY <1>2 DEF Saving
  <2>3. OpPlaced(q)'
    BY <1>2, <2>1, <2>2 DEF OpPlaced
  <2>4. ASSUME req[q].op \in Submitters
        PROVE  ReadsStored(q)' /\ HoldsClaim(q)' /\ SavesResult(q)'
    <3>1. ReadsStored(q)'
      BY <1>2, <2>1, <2>4 DEF SubmitterFits, ReadsStored, FindingOfReq, Tables
    <3>2. HoldsClaim(q)'
      BY <1>2, <2>1, <2>2, <2>4 DEF SubmitterFits, HoldsClaim, FindingOfReq
    <3>3. SavesResult(q)'
      BY <1>2, <2>1, <2>2, <2>4
         DEF SubmitterFits, SavesResult, FindingOfReq, Pending, MaybeAccepted, IsUnknown
    <3>4. QED
      BY <3>1, <3>2, <3>3
  <2>5. QED
    BY <1>2, <2>3, <2>4 DEF SubmitterFits
<1>6. AllResolved' /\ RepostedOnlyAfterCrash'
  <2>1. crashes \in Nat /\ crashes <= crashes'
    BY <1>1, <1>2 DEF TypeOK
  <2>2. QED
    BY <1>1, <1>2, <2>1, ResolvedStays DEF InOrder, Saving
<1>7. QED
  BY <1>4, <1>5, <1>6 DEF InOrder

\* A crash leaves the tables, and the reports of the attempts it has cut off.
LEMMA CrashOrder ==
  ASSUME SerialInv, Crash
  PROVE  InOrder'
<1> USE DEF db, memory, remote, environment
<1>1. TypeOK /\ InOrder
  BY DEF SerialInv, ClaimInv
<1>2. /\ UNCHANGED <<draftRow, subRow, posts, expired>> /\ crashes' = crashes + 1
      /\ memDraft' = [d \in Drafts |-> NoDraft]
      /\ req' = [r \in Requests |-> Idle("none")]
  BY DEF Crash
<1>3. \A d \in Drafts, c \in Draft : Copy(d, c)' => Known(d, c)
  <2> SUFFICES ASSUME NEW d \in Drafts, NEW c \in Draft, Copy(d, c)' PROVE Known(d, c)
    OBVIOUS
  <2>1. CASE c = draftRow[d]
    BY <1>1, <2>1, CopiesKnown
  <2>2. CASE c = NoDraft
    BY <2>2, KnownAnyway
  <2>3. QED
    BY <1>2, <2>1, <2>2 DEF Copy, Idle, NoSnapshot
<1>4. CopiesAgree' /\ OneUnknown'
  BY <1>1, <1>2, <1>3, KnownKeeps DEF InOrder
<1>5. \A q \in Requests : OpPlaced(q)' /\ SubmitterFits(q)'
  BY <1>2 DEF OpPlaced, SubmitterFits, Submitters, Saving, Idle
<1>6. AllResolved' /\ RepostedOnlyAfterCrash'
  <2>1. crashes \in Nat /\ crashes' \in Nat /\ crashes <= crashes' /\ crashes' > 0
    BY <1>1, <1>2 DEF TypeOK
  <2>2. QED
    BY <1>1, <1>2, <2>1, ResolvedStays DEF InOrder
<1>7. QED
  BY <1>4, <1>5, <1>6 DEF InOrder

-----------------------------------------------------------------------------
(* The theorems. *)

\* The initial state, in which nothing is stored.
LEMMA InitOrder == Init => SerialInv
<1> SUFFICES ASSUME Init PROVE SerialInv
  OBVIOUS
<1>1. \A q \in Requests : req[q] = Idle("none")
  BY DEF Init
<1>2. ASSUME NEW q \in Requests
      PROVE  /\ req[q].stage = "idle" /\ req[q].op = "none" /\ req[q].claim = 0
             /\ req[q].snap = NoSnapshot /\ req[q].out = NoDraft
             /\ req[q].rec = NoSubmission
  <2>1. req[q] = Idle("none")
    BY <1>1
  <2>2. QED
    BY <2>1 DEF Idle
<1>3. ClaimInv
  <2>1. ClaimsHeld
    BY <1>2 DEF Init, ClaimsHeld, ClaimHeld, HeldAlone, Armed
  <2>2. OnePostPerClaim
    BY DEF Init, OnePostPerClaim
  <2>3. QED
    BY InitType, <2>1, <2>2 DEF ClaimInv
<1>4. \A d \in Drafts, c \in Draft : Copy(d, c) => Bland(c)
  BY <1>2, KnownAnyway DEF Init, Copy, NoSnapshot
<1>5. CopiesAgree /\ OneUnknown
  BY <1>4 DEF CopiesAgree, OneUnknown, Agrees, Bland, IsUnknown
<1>6. \A q \in Requests : OpPlaced(q) /\ SubmitterFits(q)
  BY <1>2 DEF OpPlaced, SubmitterFits, Submitters, Saving
<1>7. AllResolved /\ RepostedOnlyAfterCrash
  BY DEF Init, AllResolved, RepostedOnlyAfterCrash
<1>8. QED
  BY <1>3, <1>5, <1>6, <1>7 DEF SerialInv, InOrder

\* Every step keeps the order, as long as submissions run alone before and after.
LEMMA SerialStep ==
  SerialInv /\ SubmitsAlone /\ SubmitsAlone' /\ [Next]_vars => SerialInv'
<1> SUFFICES ASSUME SerialInv, SubmitsAlone, SubmitsAlone', [Next]_vars PROVE SerialInv'
  OBVIOUS
<1>1. ClaimInv'
  BY StepType, ClaimStep DEF SerialInv, ClaimInv
<1>2. ASSUME NEW r \in Requests, Handler(r) PROVE InOrder'
  <2>1. CASE Bind(r)
    BY <2>1, BindOrder
  <2>2. CASE Workflow(r)
    BY <2>2, WorkflowOrder, ReconcileOrder DEF Workflow
  <2>3. CASE Submitting(r)
    BY <2>3, ReadRowOrder, ClaimOrder, RehydrateOrder, RejectOrder, PostOrder DEF Submitting
  <2>4. CASE Refuse(r)
    BY <2>4, RefuseOrder
  <2>5. CASE ReadSubmissionRecord(r)
    BY <2>5, ReadRecordOrder
  <2>6. CASE Commit(r)
    BY <2>6, CommitOrder, CommitOtherOrder
  <2>7. QED
    BY <1>2, <2>1, <2>2, <2>3, <2>4, <2>5, <2>6 DEF Handler
<1>3. ASSUME NEW r \in Requests, NEW op \in Ops, NEW d \in Drafts, Begin(r, op, d)
      PROVE  InOrder'
  BY <1>3, BeginOrder
<1>4. ASSUME Environment PROVE InOrder'
  BY <1>4, EnvironmentOrder, CrashOrder DEF Environment
<1>5. ASSUME UNCHANGED vars PROVE InOrder'
  BY <1>5, EnvironmentOrder
<1>6. QED
  BY <1>1, <1>2, <1>3, <1>4, <1>5 DEF Next, SerialInv

\* Where submissions and reconciliations run alone, no draft of a finding is posted
\* again once HackerOne may have accepted a report of it, unless a crash has cut
\* the attempt off and its claim has expired (claim_submission, submit, reconcile).
\* Drafting, review, editing and approval may overlap each other without limit.
THEOREM RepostsOnlyAfterCrashes == Spec /\ []SubmitsAlone => []RepostedOnlyAfterCrash
<1>1. SerialInv => RepostedOnlyAfterCrash
  BY DEF SerialInv, InOrder
<1>2. QED
  BY InitOrder, SerialStep, <1>1, PTL DEF Spec

\* A step of the submission row: its report id stays once it is there.
KeepsReportId ==
  \A f \in Findings : subRow[f].report # 0 => subRow'[f].report = subRow[f].report

\* Only a claim and a commit write to the row: the claim leaves the id alone, the
\* commit of a submission that runs alone saves the id it has read.
LEMMA ReportIdStep ==
  SerialInv /\ SubmitsAlone /\ [Next]_vars => KeepsReportId \/ UNCHANGED vars
<1> SUFFICES ASSUME SerialInv, SubmitsAlone, Next PROVE KeepsReportId
  OBVIOUS
<1> USE DEF db, memory, remote, environment
<1>1. TypeOK /\ InOrder
  BY DEF SerialInv, ClaimInv
<1>2. ASSUME NEW r \in Requests, ClaimSubmission(r) PROVE KeepsReportId
  <2>1. FindingOfReq(r) \in Findings /\ subRow[FindingOfReq(r)] \in Row
    BY <1>1, RequestTypes DEF TypeOK
  <2>2. Attempted(subRow[FindingOfReq(r)], claims + 1).report = subRow[FindingOfReq(r)].report
    BY <2>1 DEF Attempted, Row
  <2>3. \/ UNCHANGED subRow
        \/ subRow' = [subRow EXCEPT ![FindingOfReq(r)] =
                        Attempted(subRow[FindingOfReq(r)], claims + 1)]
    BY <1>2 DEF ClaimSubmission
  <2>4. QED
    BY <1>1, <2>1, <2>2, <2>3 DEF KeepsReportId, TypeOK
<1>3. ASSUME NEW r \in Requests, Commit(r) PROVE KeepsReportId
  <2>1. CASE req[r].op \in Submitters
    <3>1. /\ subRow'[FindingOfReq(r)].report = req[r].rec.report
          /\ \A g \in Findings \ {FindingOfReq(r)} : subRow'[g] = subRow[g]
          /\ Saving(r) /\ SavesResult(r) /\ Pending(r) = req[r].rec
      BY <1>3, <2>1, CommitWrites
    <3>2. subRow[FindingOfReq(r)].report # 0 =>
            req[r].rec.report = subRow[FindingOfReq(r)].report
      BY <3>1 DEF SavesResult
    <3>3. QED
      BY <3>1, <3>2 DEF KeepsReportId
  <2>2. CASE req[r].op \notin Submitters
    <3>1. req[r].rec = NoSubmission
      BY <1>1, <2>2 DEF InOrder, OpPlaced, Saving
    <3>2. UNCHANGED subRow
      BY <1>3, <3>1 DEF Commit, NoSubmission
    <3>3. QED
      BY <3>2 DEF KeepsReportId
  <2>3. QED
    BY <2>1, <2>2
<1>4. ASSUME UNCHANGED subRow PROVE KeepsReportId
  BY <1>4 DEF KeepsReportId
<1>5. CASE \E r \in Requests : Handler(r)
  BY <1>2, <1>3, <1>4, <1>5
     DEF Handler, Workflow, Submitting, Bind, CreateDraft, MarkReady, ApplyEdits,
         HumanApprove, Reconcile, ReadSubmissionRow, Rehydrate, RejectStale, PostReport,
         Refuse, ReadSubmissionRecord
<1>6. CASE \E r \in Requests, op \in Ops, d \in Drafts : Begin(r, op, d)
  BY <1>4, <1>6 DEF Begin
<1>7. CASE Environment
  BY <1>4, <1>7 DEF Environment, ExpireClaim, LapseApproval, ChangeWorld, Crash
<1>8. QED
  BY <1>5, <1>6, <1>7 DEF Next

\* Where submissions and reconciliations run alone, the submission row never
\* forgets the id of a report (save_submission).
THEOREM ReportIdsAreKept == Spec /\ []SubmitsAlone => ReportIdIsKept
<1>1. SerialInv /\ SubmitsAlone /\ [Next]_vars =>
        [\A f \in Findings : subRow[f].report # 0 => subRow'[f].report = subRow[f].report]_vars
  BY ReportIdStep DEF KeepsReportId
<1>2. QED
  BY InitOrder, SerialStep, <1>1, PTL DEF Spec, ReportIdIsKept

\* A process that serves one handler at a time meets the hypothesis.
LEMMA OneHandlerAlone ==
  ASSUME \A q, r \in Requests : q = r
  PROVE  SubmitsAlone
  BY DEF SubmitsAlone

\* So it keeps both promises without further hypothesis: the run h1_crash is an
\* instance.
THEOREM OneHandlerIsEnough ==
  ASSUME \A q, r \in Requests : q = r
  PROVE  Spec => []RepostedOnlyAfterCrash /\ ReportIdIsKept
<1>1. SubmitsAlone
  BY OneHandlerAlone
<1>2. QED
  BY <1>1, RepostsOnlyAfterCrashes, ReportIdsAreKept, PTL

=============================================================================
