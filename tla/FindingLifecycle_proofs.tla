---------------------- MODULE FindingLifecycle_proofs ----------------------
(***************************************************************************)
(* Theorems about FindingLifecycle, for any number of requests, targets,   *)
(* rules, executions, scans and collections: the finding keeps the promise *)
(* of FindingPromise, what it stores of collected evidence and human       *)
(* review bears its status, and what was collected stays.                  *)
(***************************************************************************)
EXTENDS FindingLifecycle, FiniteSetTheorems, TLAPS

USE LifecycleAssumption

-----------------------------------------------------------------------------
(* The operators on findings keep their type *)

\* No finding is the absence of one.
LEMMA NoRowIsNoFinding == NoRow \notin Finding
  BY DEF NoRow, Finding, Statuses

\* A reproduction without a target gets one (_stamp_reproductions).
LEMMA StampedTypes ==
  ASSUME NEW f \in Finding
  PROVE  Stamped(f) \subseteq Evidence
<1> SUFFICES ASSUME NEW e \in f.evidence, e.kind = "reproduction", e.target = "none"
             PROVE  [e EXCEPT !.target = f.target] \in Evidence
  BY DEF Stamped, Finding
<1>1. e \in Evidence /\ f.target \in Targets
  BY DEF Finding
<1>2. e \in [kind : {"reproduction"}, id : Executions \union {"none"},
             target : Targets \union {"none"}, seen : Targets]
  BY <1>1 DEF Evidence
<1>3. QED
  BY <1>1, <1>2 DEF Evidence

\* What a row is read as is a finding of the same target (to_domain).
LEMMA LoadedTypes ==
  ASSUME NEW f \in Finding
  PROVE  /\ Loaded(f) \in Finding
         /\ Loaded(f).target = f.target
  BY StampedTypes DEF Loaded, Finding, Statuses

\* What a call may bring is evidence (record_collected_evidence).
LEMMA CollectionsTypes ==
  ASSUME NEW f \in Finding, NEW items \in Collections(f)
  PROVE  items \subseteq Evidence
<1> DEFINE new(kind, id, target) == [kind |-> kind, id |-> id, target |-> target, seen |-> f.target]
<1>1. f.target \in Targets
  BY DEF Finding
<1>2. new("reproduction", "none", "none") \in Evidence
  BY <1>1 DEF Evidence
<1>3. ASSUME NEW x \in Executions
      PROVE  new("observation", x, f.target) \in Evidence /\ new("reproduction", x, f.target) \in Evidence
  BY <1>1 DEF Evidence
<1>4. \/ items = {} \/ items = {new("reproduction", "none", "none")}
      \/ \E x \in Executions : items \subseteq {new("observation", x, f.target), new("reproduction", x, f.target)}
  BY DEF Collections
<1> HIDE DEF new
<1>5. QED
  BY <1>2, <1>3, <1>4

\* Adding evidence gives a finding of the same target and status
\* (correlate_finding).
LEMMA CorrelatedTypes ==
  ASSUME NEW f \in Finding, NEW items \in SUBSET Evidence
  PROVE  /\ Correlated(f, items) \in Finding
         /\ Correlated(f, items).target = f.target
         /\ Correlated(f, items).status = f.status
<1>1. Without(items, f.evidence) \subseteq Evidence
  BY DEF Without
<1>2. QED
  BY <1>1 DEF Correlated, Finding

\* So does a transition, accepted or refused (_apply).
LEMMA UpdatedTypes ==
  ASSUME NEW f \in Finding, NEW transition \in Transitions
  PROVE  Updated(f, transition) \in Finding
<1>1. Stamped(f) \subseteq Evidence
  BY StampedTypes
<1>2. After(f, transition) \in Finding
  BY <1>1 DEF After, Transitions, Finding, Statuses
<1>3. QED
  BY <1>2 DEF Updated

\* Merging keeps the target, and takes one of the two statuses
\* (merge_lifecycle_state).
LEMMA MergedStateTypes ==
  ASSUME NEW current \in Finding, NEW incoming \in Finding
  PROVE  LET merged == MergedState(current, incoming) IN
         /\ merged \in Finding
         /\ merged.target = current.target
         /\ merged.status = PreferStatus(current.status, incoming.status)
         /\ merged.evidence = current.evidence \union Without(incoming.evidence, current.evidence)
<1>1. PreferStatus(current.status, incoming.status) \in Statuses
  BY DEF PreferStatus, Finding, Statuses
<1>2. Without(incoming.evidence, current.evidence) \subseteq Evidence
  BY DEF Without, Finding
<1>3. QED
  BY <1>1, <1>2 DEF MergedState, Finding

\* What a scan reports is a finding with static evidence and no standing
\* beyond corroborated (bulk_create).
LEMMA ReportedTypes ==
  ASSUME NEW found \in Report
  PROVE  /\ Reported(found) \in Finding
         /\ Reported(found).status \in {"potential", "corroborated"}
         /\ Reported(found).target \in Targets
         /\ ~Reported(found).accepted
         /\ \A e \in Reported(found).evidence : e.kind = "static"
<1>1. found.target \in Targets /\ found.rules \subseteq Rules
  BY DEF Report
<1>2. Statics(found) \subseteq Evidence /\ \A e \in Statics(found) : e.kind = "static"
  BY <1>1 DEF Statics, Evidence
<1>3. QED
  BY <1>1, <1>2 DEF Reported, Finding, Statuses

\* A finding that a scan reports again (_reconcile_row).
LEMMA ReconciledTypes ==
  ASSUME NEW f \in Finding, NEW found \in Report
  PROVE  /\ Reconciled(f, found) \in Finding
         /\ Reconciled(f, found).target = found.target
         /\ f.target = found.target => Reconciled(f, found).status = f.status
         /\ f.status = "rejected" => Reconciled(f, found).status = "rejected"
         /\ f.target # found.target =>
              Reconciled(f, found).status \in {"potential", "corroborated", "rejected"}
         /\ f.status # "rejected" => Reconciled(f, found).status # "rejected"
         /\ \A e : e.kind # "static" => (e \in Reconciled(f, found).evidence <=> e \in f.evidence)
<1>1. /\ Reported(found).status \in {"potential", "corroborated"}
      /\ found.target \in Targets /\ Statics(found) \subseteq Evidence
      /\ \A e \in Statics(found) : e.kind = "static"
  BY ReportedTypes DEF Reported, Finding, Report
<1>2. f.status \in Statuses /\ f.accepted \in BOOLEAN /\ f.evidence \subseteq Evidence
  BY DEF Finding
<1>3. QED
  BY <1>1, <1>2 DEF Reconciled, Finding, Statuses

\* Writing the columns that changed gives a finding, and writing over what was
\* read gives what was made of it.
LEMMA ColumnsTypes ==
  ASSUME NEW stored \in Finding, NEW read \in Finding, NEW mine \in Finding
  PROVE  /\ Columns(stored, read, mine) \in Finding
         /\ stored = read => Columns(stored, read, mine) = mine
<1>1. DOMAIN stored = {"status", "accepted", "target", "evidence"}
  BY DEF Finding
<1>2. Columns(stored, read, mine) =
        [status   |-> IF mine.status # read.status THEN mine.status ELSE stored.status,
         accepted |-> IF mine.accepted # read.accepted THEN mine.accepted ELSE stored.accepted,
         target   |-> IF mine.target # read.target THEN mine.target ELSE stored.target,
         evidence |-> IF mine.evidence # read.evidence THEN mine.evidence ELSE stored.evidence]
  BY <1>1 DEF Columns
<1>3. Columns(stored, read, mine) \in Finding
  BY <1>2 DEF Finding
<1>4. ASSUME stored = read PROVE Columns(stored, read, mine) = mine
  <2>1. Columns(stored, read, mine) =
          [status |-> mine.status, accepted |-> mine.accepted, target |-> mine.target, evidence |-> mine.evidence]
    BY <1>2, <1>4
  <2>2. QED
    BY <2>1 DEF Finding
<1>5. QED
  BY <1>3, <1>4

-----------------------------------------------------------------------------
(* The inductive invariant *)

RequestState ==
  [pc : {"idle", "loaded", "scanned"}, read : Finding \union {NoRow},
   found : Report \union {NoReport}]

\* A scan that calls its finding corroborated has records that agree.
Agreeing(found) == found.corroborated => CanCorroborate(Statics(found), found.target)

\* While a request holds the lock nobody else writes, so what it read is what
\* is stored: a scan's flush waits for the lock, and its insert finds the row.
ReadOK(r) ==
  /\ req[r].pc = "loaded" <=> lock = r
  /\ req[r].pc = "loaded" => row \in Finding /\ req[r].read = row
  /\ req[r].pc = "scanned" => req[r].found \in Report /\ Agreeing(req[r].found)
  /\ req[r].read # NoRow => row # NoRow

Typed ==
  /\ row \in Finding \union {NoRow}
  /\ lock \in Requests \union {"free"}
  /\ req \in [Requests -> RequestState]
  /\ overlapped \in BOOLEAN /\ scans \in 0 .. MaxScans /\ collections \in 0 .. MaxCollections

Inv ==
  /\ Typed
  /\ \A r \in Requests : ReadOK(r)
  /\ CollectedStatusIsEarned

\* The invariant is stronger than the one TLC checks.
LEMMA InvType == Inv => TypeOK
<1> SUFFICES ASSUME Inv PROVE TypeOK
  OBVIOUS
<1>1. ASSUME row.status = "no row" PROVE row = NoRow
  BY <1>1 DEF Inv, Typed, Finding, Statuses
<1>2. ASSUME row.status # "no row"
      PROVE  row.status \in Statuses /\ row.accepted \in BOOLEAN /\ row.target \in Targets
             /\ row.evidence \subseteq Evidence
  <2>1. NoRow.status = "no row"
    BY DEF NoRow
  <2>2. row \in Finding
    BY <1>2, <2>1 DEF Inv, Typed
  <2>3. QED
    BY <2>2 DEF Finding
<1>3. ASSUME NEW r \in Requests
      PROVE  /\ req[r].pc \in {"idle", "loaded", "scanned"}
             /\ req[r].pc = "loaded" <=> lock = r
             /\ req[r].pc = "loaded" => req[r].read.status \in Statuses
             /\ req[r].pc = "scanned" => req[r].found.target \in Targets
  BY DEF Inv, Typed, ReadOK, RequestState, Finding, Report
<1>4. QED
  BY <1>1, <1>2, <1>3 DEF TypeOK, Inv, Typed

\* The static records of a scan are no collected evidence, so what a finding's
\* status rests on is what it rested on before (_reconcile_row).
LEMMA ReconciledRests ==
  ASSUME NEW f \in Finding, NEW found \in Report, NEW target
  PROVE  /\ IsReproduced(Reconciled(f, found).evidence, target) <=> IsReproduced(f.evidence, target)
         /\ Independent(Reconciled(f, found).evidence, target) = Independent(f.evidence, target)
<1> DEFINE g == Reconciled(f, found)
<1>1. \A e : e.kind # "static" => (e \in g.evidence <=> e \in f.evidence)
  BY ReconciledTypes
<1> HIDE DEF g
<1>2. Reproductions(g.evidence) = Reproductions(f.evidence)
  BY <1>1 DEF Reproductions
<1>3. Independent(g.evidence, target) = Independent(f.evidence, target)
  BY <1>1, <1>2 DEF Independent
<1>4. IsReproduced(g.evidence, target) <=> IsReproduced(f.evidence, target)
  BY <1>2 DEF IsReproduced
<1>5. QED
  BY <1>3, <1>4 DEF g

\* A finding that could be built still can after a scan.
LEMMA ReconciledValid ==
  ASSUME NEW f \in Finding, NEW found \in Report, Valid(f)
  PROVE  Valid(Reconciled(f, found))
<1> DEFINE g == Reconciled(f, found)
<1>1. CASE f.target = found.target
  <2>1. g.status = f.status /\ g.target = f.target
    BY <1>1, ReconciledTypes
  <2>2. QED
    BY <2>1, ReconciledRests DEF Valid
<1>2. CASE f.target # found.target
  <2>1. g.status \in {"potential", "corroborated", "rejected"}
    BY <1>2, ReconciledTypes
  <2>2. QED
    BY <2>1 DEF Valid
<1>3. QED
  BY <1>1, <1>2

\* A human's acceptance belongs to the status it was given to, or to a rejection
\* that followed.
Reviewed(f) == f.accepted => f.status \in {"human_accepted", "rejected"}

\* A scan takes the acceptance away with the status (_reconcile_row).
LEMMA ReconciledReviewed ==
  ASSUME NEW f \in Finding, NEW found \in Report, Reviewed(f)
  PROVE  Reviewed(Reconciled(f, found))
  BY DEF Reconciled, Reviewed, Finding, Statuses

\* A valid finding is read with the status and the review it has, but for a
\* corroboration, which nobody has reviewed (to_domain).
LEMMA LoadedReviewed ==
  ASSUME NEW f \in Finding, Valid(f), Reviewed(f)
  PROVE  Reviewed(Loaded(f))
<1>1. Loaded(f).accepted = f.accepted
  BY DEF Loaded, Finding
<1>2. Loaded(f).status = f.status \/ f.status = "corroborated"
  BY DEF Loaded, Finding
<1>3. QED
  BY <1>1, <1>2 DEF Reviewed

\* A transition accepts only what it makes accepted, and an accepted finding may
\* only be rejected (SecurityFinding's guards).
LEMMA UpdatedReviewed ==
  ASSUME NEW f \in Finding, NEW transition \in Transitions, Reviewed(f)
  PROVE  Reviewed(Updated(f, transition))
<1>1. CASE ~Accepts(f, transition)
  BY <1>1 DEF Updated
<1>2. CASE Accepts(f, transition)
  <2>1. Updated(f, transition) = After(f, transition)
    BY <1>2 DEF Updated
  <2>2. After(f, transition).accepted => f.accepted \/ After(f, transition).status = "human_accepted"
    BY DEF After, Transitions, Finding
  <2>3. f.status \in {"human_accepted", "rejected"} =>
          After(f, transition).status \in {"human_accepted", "rejected"}
    BY <1>2 DEF After, Accepts, Transitions, Finding
  <2>4. QED
    BY <2>1, <2>2, <2>3 DEF Reviewed
<1>3. QED
  BY <1>1, <1>2

\* Nor does a merge separate them (merge_lifecycle_state).
LEMMA MergedReviewed ==
  ASSUME NEW current \in Finding, NEW incoming \in Finding, Reviewed(current), Reviewed(incoming)
  PROVE  Reviewed(MergedState(current, incoming))
<1> DEFINE status == PreferStatus(current.status, incoming.status)
           merged == MergedState(current, incoming)
<1>1. current.status \in Statuses /\ incoming.status \in Statuses
  BY DEF Finding
<1>2. /\ merged.status = status
      /\ merged.accepted = (current.accepted \/ incoming.accepted \/ status = "human_accepted")
  BY DEF MergedState, Finding
<1>3. "human_accepted" \in {current.status, incoming.status} => status \in {"human_accepted", "rejected"}
  BY <1>1 DEF PreferStatus, Rank, Statuses
<1>4. "rejected" \in {current.status, incoming.status} => status = "rejected"
  BY DEF PreferStatus
<1> HIDE DEF status, merged
<1>5. merged.accepted => status \in {"human_accepted", "rejected"}
  BY <1>2, <1>3, <1>4 DEF Reviewed
<1>6. QED
  BY <1>2, <1>5 DEF Reviewed, merged

\* So a lifecycle call keeps review and status together.
LEMMA SavedReviewed ==
  ASSUME NEW f \in Finding, Valid(f), Reviewed(f),
         NEW items \in SUBSET Evidence, NEW transition \in Transitions
  PROVE  LET finding == Loaded(f)
         IN Reviewed(MergedState(finding, Updated(Correlated(finding, items), transition)))
<1> DEFINE finding == Loaded(f)
           collected == Correlated(finding, items)
<1>1. finding \in Finding /\ Reviewed(finding)
  BY LoadedTypes, LoadedReviewed
<1> HIDE DEF finding
<1>2. collected \in Finding /\ collected.status = finding.status
  BY <1>1, CorrelatedTypes
<1>3. collected.accepted = finding.accepted
  BY <1>1 DEF Correlated, Finding
<1>4. Reviewed(collected)
  BY <1>1, <1>2, <1>3 DEF Reviewed
<1> HIDE DEF collected
<1>5. Updated(collected, transition) \in Finding /\ Reviewed(Updated(collected, transition))
  BY <1>2, <1>4, UpdatedTypes, UpdatedReviewed
<1>6. QED
  BY <1>1, <1>5, MergedReviewed DEF finding, collected

\* What a scan writes when nobody wrote since it read: the row it made.
LEMMA RescanWrites ==
  ASSUME Typed, NEW r \in Requests, ReadOK(r), Rescan(r)
  PROVE  /\ row' \in Finding
         /\ row = req[r].read => row \in Finding /\ row' = Reconciled(row, req[r].found)
<1> DEFINE read == req[r].read
           found == req[r].found
           mine == Reconciled(read, found)
<1>1. read \in Finding /\ found \in Report
  BY DEF Typed, ReadOK, RequestState, Rescan
<1>2. mine \in Finding
  BY <1>1, ReconciledTypes
<1>3. row' = [Columns(row, read, mine) EXCEPT !.evidence = mine.evidence]
  BY DEF Rescan
<1>4. CASE row = read
  <2>1. Columns(row, read, mine) = mine
    BY <1>1, <1>2, <1>4, ColumnsTypes
  <2>2. row' = mine
    <3> HIDE DEF mine
    <3>1. QED
      BY <1>2, <1>3, <2>1 DEF Finding
  <2>3. QED
    BY <1>1, <1>2, <1>4, <2>2
<1>5. CASE row \in Finding /\ row # read
  <2>1. Columns(row, read, mine) \in Finding
    BY <1>1, <1>2, <1>5, ColumnsTypes
  <2>2. row' \in Finding
    <3> HIDE DEF mine
    <3>1. QED
      BY <1>2, <1>3, <2>1 DEF Finding
  <2>3. QED
    BY <1>5, <2>2
<1>6. row # NoRow
  BY DEF ReadOK, Rescan
<1>7. QED
  BY <1>4, <1>5, <1>6 DEF Typed

\* Merging one's own changes into the row as it was read: the target stays, and
\* what was collected stays with it (save_domain).
LEMMA SaveWrites ==
  ASSUME Typed, NEW r \in Requests, ReadOK(r),
         NEW items \in Collections(Loaded(req[r].read)), NEW transition \in Transitions,
         Save(r, items, transition)
  PROVE  LET finding == Loaded(row)
             updated == Updated(Correlated(finding, items), transition)
             merged == MergedState(finding, updated)
         IN /\ row \in Finding /\ row' \in Finding
            /\ items \in SUBSET Evidence
            /\ finding \in Finding /\ updated \in Finding /\ merged \in Finding
            /\ row' = row \/ (row' = merged /\ Valid(merged))
<1>1. row \in Finding /\ req[r].read = row
  BY DEF ReadOK, Save
<1> DEFINE finding == Loaded(row)
           collected == Correlated(finding, items)
           updated == Updated(collected, transition)
           merged == MergedState(finding, updated)
<1>2. finding \in Finding
  BY <1>1, LoadedTypes
<1>3. items \in SUBSET Evidence
  BY <1>1, <1>2, CollectionsTypes
<1>4. collected \in Finding
  <2> HIDE DEF finding
  <2>1. QED
    BY <1>2, <1>3, CorrelatedTypes
<1>5. updated \in Finding
  <2> HIDE DEF collected
  <2>1. QED
    BY <1>4, UpdatedTypes
<1>6. merged \in Finding
  <2> HIDE DEF finding, updated
  <2>1. QED
    BY <1>2, <1>5, MergedStateTypes
<1>7. row' = IF Valid(collected) /\ Valid(merged) THEN Columns(row, row, merged) ELSE row
  BY <1>1 DEF Save
<1>8. Columns(row, row, merged) = merged
  <2> HIDE DEF merged
  <2>1. QED
    BY <1>1, <1>6, ColumnsTypes
<1>9. row' = row \/ (row' = merged /\ Valid(merged))
  <2> HIDE DEF merged, collected
  <2>1. QED
    BY <1>7, <1>8
<1>10. QED
  BY <1>1, <1>2, <1>3, <1>5, <1>6, <1>9

\* The inductive invariant holds of an empty table.
LEMMA InvInit == Init => Inv
<1> SUFFICES ASSUME Init PROVE Inv
  OBVIOUS
<1>1. Idle \in RequestState
  BY DEF Idle, RequestState
<1>2. Typed
  <2>1. [r \in Requests |-> Idle] \in [Requests -> RequestState]
    BY <1>1
  <2>2. 0 \in 0 .. MaxScans /\ 0 \in 0 .. MaxCollections
    OBVIOUS
  <2>3. overlapped \in BOOLEAN
    BY DEF Init
  <2>4. QED
    BY <2>1, <2>2, <2>3 DEF Init, Typed
<1>3. ASSUME NEW r \in Requests PROVE ReadOK(r)
  BY DEF Init, ReadOK, Idle
<1>4. CollectedStatusIsEarned
  BY DEF Init, CollectedStatusIsEarned
<1>5. QED
  BY <1>2, <1>3, <1>4 DEF Inv

\* A request that nobody touches keeps what it read while the row is not
\* written, or while it does not hold the lock and the row is there.
LEMMA OthersKeep ==
  ASSUME Typed, NEW r \in Requests, NEW q \in Requests \ {r}, ReadOK(q), req'[q] = req[q],
         (lock' = q) <=> (lock = q), row' = row \/ (row' \in Finding /\ lock # q)
  PROVE  ReadOK(q)'
  BY NoRowIsNoFinding DEF ReadOK, Typed

\* Every step keeps it.
LEMMA InvStep == Inv /\ [Next]_vars => Inv'
<1> SUFFICES ASSUME Inv, [Next]_vars PROVE Inv'
  OBVIOUS
<1> USE DEF Inv
<1>1. ASSUME NEW r \in Requests, Load(r) PROVE Inv'
  <2>1. Typed'
    <3>1. [Idle EXCEPT !.pc = "loaded", !.read = row] \in RequestState
      BY DEF Idle, RequestState, Typed
    <3>2. QED
      BY <1>1, <3>1 DEF Load, Typed
  <2>2. ReadOK(r)'
    BY <1>1 DEF Load, ReadOK, Typed, Idle
  <2>3. ASSUME NEW q \in Requests \ {r} PROVE ReadOK(q)'
    BY <1>1, OthersKeep DEF Load, MayLoad, Typed
  <2>4. CollectedStatusIsEarned'
    BY <1>1 DEF Load, CollectedStatusIsEarned, Valid
  <2>5. QED
    BY <2>1, <2>2, <2>3, <2>4
<1>2. ASSUME NEW r \in Requests, Insert(r) PROVE Inv'
  <2>1. req[r].found \in Report /\ row' = Reported(req[r].found)
    BY <1>2 DEF Insert, ReadOK
  <2>2. row' \in Finding /\ row'.status \in {"potential", "corroborated"} /\ ~row'.accepted
    BY <2>1, ReportedTypes
  <2>3. lock' = lock /\ req' = [req EXCEPT ![r] = Idle] /\ Idle \in RequestState
    BY <1>2 DEF Insert, Idle, RequestState
  <2>4. Typed'
    BY <1>2, <2>2, <2>3 DEF Insert, Typed
  <2>5. \A q \in Requests : lock # q
    BY <1>2, NoRowIsNoFinding DEF Insert, ReadOK
  <2>6. ReadOK(r)'
    BY <2>2, <2>3, <2>5 DEF ReadOK, Typed, Idle
  <2>7. ASSUME NEW q \in Requests \ {r} PROVE ReadOK(q)'
    BY <2>2, <2>3, <2>5, OthersKeep DEF Typed
  <2>8. CollectedStatusIsEarned'
    BY <2>2 DEF CollectedStatusIsEarned, Valid
  <2>9. QED
    BY <2>4, <2>6, <2>7, <2>8
<1>3. ASSUME NEW r \in Requests, InsertRaced(r) PROVE Inv'
  <2>1. [req[r] EXCEPT !.read = row] \in RequestState
    BY DEF Typed, RequestState
  <2>2. /\ req' = [req EXCEPT ![r].read = row]
        /\ row' = row /\ lock' = lock
        /\ row # NoRow /\ req[r].pc = "scanned"
    BY <1>3 DEF InsertRaced
  <2>3. req'[r] = [req[r] EXCEPT !.read = row]
    BY <2>2 DEF Typed
  <2>4. Typed'
    BY <1>3, <2>1, <2>2 DEF InsertRaced, Typed
  <2>5. ReadOK(r)'
    BY <2>2, <2>3 DEF ReadOK, Typed, RequestState
  <2>6. ASSUME NEW q \in Requests \ {r} PROVE ReadOK(q)'
    BY <2>2, OthersKeep DEF Typed
  <2>7. CollectedStatusIsEarned'
    BY <1>3 DEF InsertRaced, CollectedStatusIsEarned, Valid
  <2>8. QED
    BY <2>4, <2>5, <2>6, <2>7
<1>4. ASSUME NEW r \in Requests, Rescan(r) PROVE Inv'
  <2>1. /\ row' \in Finding
        /\ row = req[r].read => row \in Finding /\ row' = Reconciled(row, req[r].found)
    BY <1>4, RescanWrites
  <2>2. /\ lock = "free" /\ lock' = lock /\ req' = [req EXCEPT ![r] = Idle] /\ Idle \in RequestState
        /\ overlapped' = (overlapped \/ row # req[r].read)
    BY <1>4 DEF Rescan, Idle, RequestState
  <2>3. Typed'
    BY <1>4, <2>1, <2>2 DEF Rescan, Typed
  <2>4. ReadOK(r)'
    BY <2>1, <2>2 DEF ReadOK, Typed, Idle
  <2>5. ASSUME NEW q \in Requests \ {r} PROVE ReadOK(q)'
    BY <2>1, <2>2, OthersKeep DEF Typed
  <2>6. CollectedStatusIsEarned'
    <3> SUFFICES ASSUME ~overlapped' PROVE Valid(row') /\ Reviewed(row')
      BY DEF CollectedStatusIsEarned, Valid, Reviewed
    <3>1. /\ row \in Finding /\ row' = Reconciled(row, req[r].found)
          /\ req[r].found \in Report /\ Valid(row) /\ Reviewed(row)
      BY <1>4, <2>1, <2>2, NoRowIsNoFinding DEF Rescan, ReadOK, CollectedStatusIsEarned, Reviewed
    <3>2. QED
      BY <3>1, ReconciledValid, ReconciledReviewed
  <2>7. QED
    BY <2>3, <2>4, <2>5, <2>6
<1>5. ASSUME NEW r \in Requests, RollBack(r) PROVE Inv'
  <2>1. /\ row' = row /\ lock' = (IF lock = r THEN "free" ELSE lock)
        /\ req' = [req EXCEPT ![r] = Idle] /\ Idle \in RequestState
    BY <1>5 DEF RollBack, Idle, RequestState
  <2>2. Typed'
    BY <1>5, <2>1 DEF RollBack, Typed
  <2>3. ReadOK(r)'
    BY <2>1 DEF ReadOK, Typed, Idle
  <2>4. ASSUME NEW q \in Requests \ {r} PROVE ReadOK(q)'
    BY <2>1, OthersKeep DEF Typed
  <2>5. CollectedStatusIsEarned'
    BY <1>5 DEF RollBack, CollectedStatusIsEarned, Valid
  <2>6. QED
    BY <2>2, <2>3, <2>4, <2>5
<1>6. ASSUME NEW r \in Requests, NEW found \in Report, Scan(r, found) PROVE Inv'
  <2>1. [pc |-> "scanned", read |-> row, found |-> found] \in RequestState
    BY DEF Typed, RequestState
  <2>2. /\ req' = [req EXCEPT ![r] = [pc |-> "scanned", read |-> row, found |-> found]]
        /\ row' = row /\ lock' = lock /\ scans' \in 0 .. MaxScans /\ req[r] = Idle
        /\ Agreeing(found)
    BY <1>6 DEF Scan, Typed, Agreeing
  <2>3. Typed'
    BY <1>6, <2>1, <2>2 DEF Scan, Typed
  <2>4. ReadOK(r)'
    BY <2>2 DEF ReadOK, Typed, Idle
  <2>5. ASSUME NEW q \in Requests \ {r} PROVE ReadOK(q)'
    BY <2>2, OthersKeep DEF Typed
  <2>6. CollectedStatusIsEarned'
    BY <1>6 DEF Scan, CollectedStatusIsEarned, Valid
  <2>7. QED
    BY <2>3, <2>4, <2>5, <2>6
<1>7. ASSUME NEW r \in Requests, NEW items \in Collections(Loaded(req[r].read)),
             NEW transition \in Transitions, Save(r, items, transition)
      PROVE  Inv'
  <2>1. /\ row \in Finding /\ row' \in Finding
        /\ row' = row \/ (Valid(row') /\ (Valid(row) /\ Reviewed(row) => Reviewed(row')))
    <3> HIDE DEF Inv
    <3>1. Typed /\ ReadOK(r)
      BY DEF Inv
    <3>2. QED
      BY <1>7, <3>1, SaveWrites, SavedReviewed
  <2>2. /\ lock = r /\ lock' = "free" /\ req' = [req EXCEPT ![r] = Idle] /\ Idle \in RequestState
        /\ overlapped' = overlapped
    BY <1>7 DEF Save, Idle, RequestState
  <2>3. collections' \in 0 .. MaxCollections
    BY <1>7 DEF Save, Typed
  <2>4. Typed'
    BY <1>7, <2>1, <2>2, <2>3 DEF Save, Typed
  <2>5. ReadOK(r)'
    BY <2>1, <2>2 DEF ReadOK, Typed, Idle
  <2>6. ASSUME NEW q \in Requests \ {r} PROVE ReadOK(q)'
    BY <2>1, <2>2, OthersKeep DEF Typed
  <2>7. CollectedStatusIsEarned'
    <3>1. CASE row' = row
      BY <2>2, <3>1 DEF CollectedStatusIsEarned, Valid
    <3>2. CASE Valid(row') /\ (Valid(row) /\ Reviewed(row) => Reviewed(row'))
      <4>1. ~overlapped => Valid(row) /\ Reviewed(row)
        BY <2>1, NoRowIsNoFinding DEF CollectedStatusIsEarned, Reviewed
      <4>2. ~overlapped' => Valid(row') /\ Reviewed(row')
        BY <2>2, <3>2, <4>1
      <4>3. QED
        BY <4>2 DEF CollectedStatusIsEarned, Valid, Reviewed
    <3>3. QED
      BY <2>1, <3>1, <3>2
  <2>8. QED
    BY <2>4, <2>5, <2>6, <2>7
<1>8. ASSUME UNCHANGED vars PROVE Inv'
  BY <1>8 DEF vars, Typed, ReadOK, CollectedStatusIsEarned, Valid
<1>9. QED
  BY <1>1, <1>2, <1>3, <1>4, <1>5, <1>6, <1>7, <1>8 DEF Next

\* The inductive invariant, for every number of requests.
LEMMA Invariant == Spec => []Inv
<1>1. Init => Inv
  BY InvInit
<1>2. Inv /\ [Next]_vars => Inv'
  BY InvStep
<1>3. QED
  BY <1>1, <1>2, PTL DEF Spec

\* The row, the lock and what each request holds have their types, and the lock
\* is held by the one request that loaded the row.
THEOREM TypeCorrect == Spec => []TypeOK
<1>1. Inv => TypeOK
  BY InvType
<1>2. QED
  BY <1>1, Invariant, PTL

\* A status beyond corroboration that a row stores is one its own evidence bears,
\* so no load downgrades it, and a human's acceptance never outlives it, unless a
\* scan wrote over a row that had changed since it read it
\* (SecurityFinding.__post_init__, to_domain, _reconcile_row).
THEOREM StatusIsEarned == Spec => []CollectedStatusIsEarned
<1>1. Inv => CollectedStatusIsEarned
  BY DEF Inv
<1>2. QED
  BY <1>1, Invariant, PTL

-----------------------------------------------------------------------------
(* Evidence *)

\* Giving a reproduction a target loses none of what was collected.
LEMMA LoadedKeeps ==
  ASSUME NEW f \in Finding
  PROVE  Collected(f) \subseteq Collected(Loaded(f))
<1>1. ASSUME NEW e \in f.evidence, e.kind # "static"
      PROVE  \E x \in Stamped(f) : x.kind = e.kind /\ x.id = e.id /\ x.seen = e.seen
  <2>1. e \in Evidence
    BY DEF Finding
  <2>2. CASE e.kind = "reproduction" /\ e.target = "none"
    <3>1. [e EXCEPT !.target = f.target] \in Stamped(f)
      BY <2>2 DEF Stamped
    <3>2. e \in [kind : {"reproduction"}, id : Executions \union {"none"},
                 target : Targets \union {"none"}, seen : Targets]
      BY <2>1, <2>2 DEF Evidence
    <3>3. LET x == [e EXCEPT !.target = f.target]
          IN  x.kind = e.kind /\ x.id = e.id /\ x.seen = e.seen
      BY <3>2
    <3>4. QED
      BY <3>1, <3>3
  <2>3. CASE ~(e.kind = "reproduction" /\ e.target = "none")
    <3>1. e \in Stamped(f)
      BY <2>3 DEF Stamped
    <3>2. QED
      BY <3>1
  <2>4. QED
    BY <2>2, <2>3
<1>2. Loaded(f).evidence = f.evidence \/ Loaded(f).evidence = Stamped(f)
  BY DEF Loaded, Finding
<1>3. QED
  BY <1>1, <1>2 DEF Collected

\* What was collected from a running system is not dropped, unless a scan
\* writes over a save it has not seen (save_domain, _reconcile_row).
THEOREM EvidenceKept == Spec => EvidenceIsKept
<1>1. ASSUME Inv, [Next]_vars, ~overlapped' PROVE Collected(row) \subseteq Collected(row')
  <2>1. ASSUME row' = row PROVE Collected(row) \subseteq Collected(row')
    BY <2>1
  <2>2. ASSUME NEW r \in Requests, Insert(r) PROVE Collected(row) \subseteq Collected(row')
    BY <2>2 DEF Insert, Collected, NoRow
  <2>3. ASSUME NEW r \in Requests, Rescan(r) PROVE Collected(row) \subseteq Collected(row')
    <3>1. row = req[r].read
      BY <1>1, <2>3 DEF Rescan
    <3>2. row \in Finding /\ row' = Reconciled(row, req[r].found)
      BY <1>1, <2>3, <3>1, RescanWrites DEF Inv
    <3>3. req[r].found \in Report
      BY <1>1, <2>3 DEF Inv, ReadOK, Rescan
    <3>4. \A e \in row.evidence : e.kind # "static" => e \in row'.evidence
      BY <3>2, <3>3, ReconciledTypes
    <3>5. QED
      BY <3>4 DEF Collected
  <2>4. ASSUME NEW r \in Requests, NEW items \in Collections(Loaded(req[r].read)),
               NEW transition \in Transitions, Save(r, items, transition)
        PROVE  Collected(row) \subseteq Collected(row')
    <3> DEFINE finding == Loaded(row)
               updated == Updated(Correlated(finding, items), transition)
    <3>1. /\ row \in Finding /\ finding \in Finding /\ updated \in Finding
          /\ row' = row \/ row' = MergedState(finding, updated)
      BY <1>1, <2>4, SaveWrites DEF Inv
    <3>2. Collected(row) \subseteq Collected(finding)
      BY <3>1, LoadedKeeps
    <3> HIDE DEF finding, updated
    <3>3. MergedState(finding, updated).evidence
            = finding.evidence \union Without(updated.evidence, finding.evidence)
      BY <3>1, MergedStateTypes
    <3>4. Collected(finding) \subseteq Collected(MergedState(finding, updated))
      BY <3>3 DEF Collected
    <3>5. QED
      BY <3>1, <3>2, <3>4
  <2>5. QED
    BY <1>1, <2>1, <2>2, <2>3, <2>4
       DEF Next, vars, Load, InsertRaced, RollBack, Scan
<1>2. QED
  BY <1>1, Invariant, PTL DEF Spec, EvidenceIsKept

-----------------------------------------------------------------------------
(* The promise *)

\* What a finding says of itself to the promise.
StandingOf(f) ==
  CASE f.status = "no row" -> "none"
    [] f.status = "human_accepted" -> "accepted"
    [] OTHER -> f.status
SupportOf(f) ==
  {s \in {"correlated", "reproduced", "observed"} :
     \/ s = "correlated" /\ CanCorroborate(f.evidence, f.target)
     \/ s = "reproduced" /\ IsReproduced(f.evidence, f.target)
     \/ s = "observed" /\ Independent(f.evidence, f.target) # {}}

\* The abstract state is read off the row.
LEMMA MappingIs ==
  /\ Standing = StandingOf(row) /\ Support = SupportOf(row)
  /\ Standing' = StandingOf(row') /\ Support' = SupportOf(row')
  BY DEF Standing, Support, StandingOf, SupportOf

\* A corroboration that the evidence bears: to_domain withdraws any other.
Supported(f) == f.status = "corroborated" => CanCorroborate(f.evidence, f.target)

\* More evidence corroborates more (can_corroborate).
LEMMA MoreCorroborates ==
  ASSUME NEW more \in SUBSET Evidence, NEW ev \in SUBSET more, NEW target, CanCorroborate(ev, target)
  PROVE  CanCorroborate(more, target)
<1> DEFINE Agree(S) == {e.id : e \in {s \in S : s.kind = "static" /\ s.target = target}}
<1>1. CASE Cardinality(Agree(ev)) >= 2
  <2>1. Agree(more) \subseteq Rules
    BY DEF Evidence
  <2>2. Agree(ev) \subseteq Agree(more)
    OBVIOUS
  <2> HIDE DEF Agree
  <2>3. IsFiniteSet(Agree(more))
    BY <2>1, FS_Subset
  <2>4. IsFiniteSet(Agree(ev)) /\ Cardinality(Agree(ev)) <= Cardinality(Agree(more))
    BY <2>2, <2>3, FS_Subset
  <2>5. Cardinality(Agree(ev)) \in Nat /\ Cardinality(Agree(more)) \in Nat
    BY <2>3, <2>4, FS_CardinalityType
  <2>6. Cardinality(Agree(more)) >= 2
    BY <1>1, <2>4, <2>5
  <2>7. QED
    BY <2>6 DEF CanCorroborate, Agree
<1>2. CASE \E e \in ev : e.kind = "observation" /\ e.target = target
  BY <1>2 DEF CanCorroborate
<1>3. QED
  BY <1>1, <1>2 DEF CanCorroborate

\* Every finding stands somewhere, on some support, and a valid one on what its
\* standing rests on.
LEMMA MappingTypes ==
  ASSUME NEW f \in Finding
  PROVE  /\ StandingOf(f) \in Promise!Standings \ {"none"}
         /\ SupportOf(f) \subseteq Promise!Supports
         /\ f.target \in Targets
         /\ Valid(f) /\ Supported(f) => Promise!Rests(StandingOf(f), SupportOf(f))
         /\ StandingOf(f) = "rejected" <=> f.status = "rejected"
         /\ StandingOf(f) # "rejected" => StandingOf(f) \in DOMAIN Promise!Rises
<1>1. f.status \in Statuses /\ f.target \in Targets
  BY DEF Finding
<1>2. /\ StandingOf(f) \in Promise!Standings \ {"none"}
      /\ StandingOf(f) = "rejected" <=> f.status = "rejected"
      /\ StandingOf(f) # "rejected" => StandingOf(f) \in DOMAIN Promise!Rises
  BY <1>1 DEF StandingOf, Statuses, Promise!Standings, Promise!Rises
<1>3. SupportOf(f) \subseteq Promise!Supports
  BY DEF SupportOf, Promise!Supports
<1>4. ASSUME Valid(f), Supported(f) PROVE Promise!Rests(StandingOf(f), SupportOf(f))
  BY <1>1, <1>4 DEF StandingOf, SupportOf, Statuses, Valid, Supported, Promise!Rests
<1>5. QED
  BY <1>1, <1>2, <1>3, <1>4

\* An operation moves a finding that is not rejected only where the promise
\* lets it rise, or to rejected (the guards of SecurityFinding's transitions).
LEMMA MergedRises ==
  ASSUME NEW f \in Finding, f.status # "rejected",
         NEW items \in SUBSET Evidence, NEW transition \in Transitions
  PROVE  LET merged == MergedState(f, Updated(Correlated(f, items), transition))
         IN StandingOf(merged) \in Promise!Rises[StandingOf(f)] \union {"rejected"}
<1> DEFINE g == Correlated(f, items)
           u == Updated(g, transition)
           merged == MergedState(f, u)
<1>1. g \in Finding /\ g.status = f.status
  BY CorrelatedTypes
<1>2. u \in Finding /\ u.status \in Statuses
  <2> HIDE DEF g
  <2>1. QED
    BY <1>1, UpdatedTypes DEF Finding
<1>3. u.status \in
        CASE f.status = "potential" ->
               {"potential", "corroborated", "reproduced", "verified", "rejected"}
          [] f.status = "corroborated" -> {"corroborated", "reproduced", "verified", "rejected"}
          [] f.status = "reproduced" -> {"reproduced", "verified", "human_accepted", "rejected"}
          [] f.status = "verified" -> {"verified", "human_accepted", "rejected"}
          [] OTHER -> {"human_accepted", "rejected"}
  <2>1. f.status \in Statuses
    BY DEF Finding
  <2> HIDE DEF g
  <2>2. u.status = IF Accepts(g, transition) THEN After(g, transition).status ELSE g.status
    BY DEF Updated
  <2>3. After(g, transition).status =
          CASE transition = "none" -> g.status
            [] transition = "corroborate" -> "corroborated"
            [] transition = "reproduce" -> "reproduced"
            [] transition = "verify" -> "verified"
            [] transition = "human_accept" -> "human_accepted"
            [] transition = "reject" -> "rejected"
    BY <1>1 DEF After, Transitions, Finding
  <2>4. Accepts(g, transition) =>
          /\ transition = "corroborate" => g.status \in {"potential", "corroborated"}
          /\ transition = "reproduce" => g.status \notin {"rejected", "verified", "human_accepted"}
          /\ transition = "verify" => g.status \notin {"rejected", "human_accepted"}
          /\ transition = "human_accept" => g.status \in {"reproduced", "verified", "human_accepted"}
    BY DEF Accepts, Transitions
  <2> HIDE DEF u
  <2>5. QED
    BY <1>1, <2>1, <2>2, <2>3, <2>4 DEF Statuses, Transitions
<1>4. merged.status = PreferStatus(f.status, u.status)
  <2> HIDE DEF u
  <2>1. QED
    BY <1>2, MergedStateTypes
<1> HIDE DEF u, merged
<1>5. merged.status \in {f.status, u.status, "rejected"}
  BY <1>4 DEF PreferStatus
<1>6. f.status \in Statuses \ {"rejected"}
  BY DEF Finding
<1>7. StandingOf(merged) \in Promise!Rises[StandingOf(f)] \union {"rejected"}
  BY <1>3, <1>5, <1>6 DEF StandingOf, Statuses, Promise!Rises
<1>8. QED
  BY <1>7 DEF merged, u

\* A merge with a rejected finding is rejected (prefer_status).
LEMMA MergedStaysRejected ==
  ASSUME NEW f \in Finding, NEW u \in Finding, f.status = "rejected"
  PROVE  MergedState(f, u).status = "rejected"
  BY MergedStateTypes DEF PreferStatus

\* What a call leaves corroborated is borne by what it leaves as evidence: it
\* was corroborated before, or is by this transition (corroborate).
LEMMA MergedSupported ==
  ASSUME NEW f \in Finding, Supported(f),
         NEW items \in SUBSET Evidence, NEW transition \in Transitions
  PROVE  Supported(MergedState(f, Updated(Correlated(f, items), transition)))
<1> DEFINE g == Correlated(f, items)
           u == Updated(g, transition)
           merged == MergedState(f, u)
<1>1. /\ g \in Finding /\ g.status = f.status /\ g.target = f.target
      /\ g.evidence = f.evidence \union Without(items, f.evidence)
  BY CorrelatedTypes DEF Correlated, Finding
<1> HIDE DEF g
<1>2. u \in Finding
  BY <1>1, UpdatedTypes
<1>3. /\ merged \in Finding /\ merged.target = f.target
      /\ merged.status = PreferStatus(f.status, u.status)
      /\ merged.evidence = f.evidence \union Without(u.evidence, f.evidence)
  <2> HIDE DEF u
  <2>1. QED
    BY <1>2, MergedStateTypes
<1>4. SUFFICES ASSUME merged.status = "corroborated"
               PROVE  CanCorroborate(merged.evidence, merged.target)
  BY DEF Supported, u, g
<1>5. merged.evidence \in SUBSET Evidence /\ f.evidence \in SUBSET merged.evidence
  BY <1>3 DEF Finding
<1>6. CASE f.status = "corroborated"
  <2>1. CanCorroborate(f.evidence, f.target)
    BY <1>6 DEF Supported
  <2> HIDE DEF merged
  <2>2. QED
    BY <1>3, <1>5, <2>1, MoreCorroborates
<1>7. CASE f.status # "corroborated"
  <2>1. u.status = "corroborated"
    BY <1>3, <1>4, <1>7 DEF PreferStatus
  <2>2. Accepts(g, transition) /\ transition = "corroborate" /\ u = After(g, transition)
    BY <1>1, <1>7, <2>1 DEF Updated, After, Transitions, Finding
  <2>3. CanCorroborate(g.evidence, g.target) /\ u.evidence = g.evidence
    BY <1>1, <2>2 DEF Accepts, After, Finding
  <2>4. g.evidence \in SUBSET merged.evidence
    BY <1>1, <1>3, <2>3 DEF Without
  <2> HIDE DEF merged, u
  <2>5. QED
    BY <1>1, <1>3, <1>5, <2>3, <2>4, MoreCorroborates
<1>8. QED
  BY <1>6, <1>7

\* What a valid row is read as stands where the row stands (to_domain): only a
\* corroboration that the evidence no longer bears is withdrawn.
LEMMA LoadedStands ==
  ASSUME NEW f \in Finding, Valid(f)
  PROVE  /\ Supported(Loaded(f))
         /\ IF Supported(f) THEN StandingOf(Loaded(f)) = StandingOf(f)
            ELSE StandingOf(f) = "corroborated" /\ Loaded(f).status = "potential"
<1>1. CASE Supported(f)
  <2>1. Loaded(f).status = f.status /\ (f.status = "corroborated" => Loaded(f) = f)
    BY <1>1 DEF Loaded, Supported, Finding
  <2>2. QED
    BY <1>1, <2>1 DEF StandingOf, Supported
<1>2. CASE ~Supported(f)
  <2>1. f.status = "corroborated" /\ Loaded(f).status = "potential"
    BY <1>2 DEF Loaded, Supported, Finding
  <2>2. QED
    BY <1>2, <2>1 DEF StandingOf, Supported
<1>3. QED
  BY <1>1, <1>2

\* A scan that leaves a finding of other code corroborated has the records for
\* it (_reconcile_row).
LEMMA RetargetedSupported ==
  ASSUME NEW f \in Finding, NEW found \in Report, Agreeing(found), f.target # found.target
  PROVE  Supported(Reconciled(f, found))
<1> DEFINE g == Reconciled(f, found)
<1>1. g \in Finding /\ g.target = found.target
  BY ReconciledTypes
<1>2. g.evidence \in SUBSET Evidence /\ Statics(found) \in SUBSET g.evidence
  BY <1>1 DEF Finding, Reconciled
<1>3. g.status = "corroborated" => found.corroborated
  BY DEF Reconciled, Reported
<1> HIDE DEF g
<1>4. QED
  BY <1>1, <1>2, <1>3, MoreCorroborates DEF Supported, Agreeing, g

\* The initial states map to initial states.
LEMMA PromiseInit == Init => Promise!Init
<1> SUFFICES ASSUME Init PROVE Promise!Init
  OBVIOUS
<1>1. Standing = "none" /\ row.target = "none"
  BY DEF Init, Standing, NoRow
<1>2. Support = {}
  <2>1. row.evidence = {}
    BY DEF Init, NoRow
  <2>2. ~CanCorroborate(row.evidence, row.target)
    <3>1. {e.id : e \in {s \in row.evidence : s.kind = "static" /\ s.target = row.target}} = {}
      BY <2>1
    <3>2. QED
      BY <2>1, <3>1, FS_EmptySet DEF CanCorroborate
  <2>3. QED
    BY <2>1, <2>2 DEF Support, IsReproduced, Independent, Reproductions
<1>3. QED
  BY <1>1, <1>2 DEF Init, Promise!Init

\* Anything may follow once a scan has written over a save it has not seen.
LEMMA PromiseOverlap ==
  ASSUME row' \in Finding, overlapped'
  PROVE  Promise!Overlap
  BY MappingIs, MappingTypes DEF Promise!Overlap

\* A scan inserts the finding: a report.
LEMMA PromiseInsert ==
  ASSUME Inv, NEW r \in Requests, Insert(r)
  PROVE  Promise!Report
<1> DEFINE found == req[r].found
<1>1. /\ found \in Report /\ Agreeing(found)
      /\ row = NoRow /\ row' = Reported(found) /\ overlapped' = overlapped
  BY DEF Inv, ReadOK, Insert
<1>2. /\ row' \in Finding /\ row'.status \in {"potential", "corroborated"} /\ row'.target \in Targets
      /\ \A e \in row'.evidence : e.kind = "static"
  BY <1>1, ReportedTypes
<1>3. Standing = "none" /\ Standing' \in Promise!Reports
  BY <1>1, <1>2 DEF Standing, NoRow, Promise!Reports
<1>4. Support' \subseteq {"correlated"}
  BY <1>2 DEF Support, IsReproduced, Independent, Reproductions
<1>5. Promise!Rests(Standing', Support')
  <2>1. Supported(row') /\ Valid(row')
    BY <1>1, <1>2 DEF Supported, Agreeing, Reported, Valid
  <2>2. QED
    BY <1>2, <2>1, MappingIs, MappingTypes
<1>6. QED
  BY <1>1, <1>2, <1>3, <1>4, <1>5 DEF Promise!Report

\* A scan finds it again: where the code changed it falls, elsewhere it stands
\* on what it stood on (_reconcile_row).
LEMMA PromiseRescan ==
  ASSUME Inv, NEW r \in Requests, Rescan(r)
  PROVE  Promise!Next
<1> DEFINE found == req[r].found
<1>1. row' \in Finding /\ found \in Report /\ Agreeing(found)
  BY RescanWrites DEF Inv, ReadOK, Rescan
<1>2. CASE overlapped'
  BY <1>1, <1>2, PromiseOverlap DEF Promise!Next
<1>3. CASE ~overlapped'
  <2>1. row = req[r].read /\ overlapped' = overlapped /\ ~overlapped
    BY <1>3 DEF Inv, Typed, Rescan
  <2>2. row \in Finding /\ row' = Reconciled(row, found)
    BY <2>1, RescanWrites DEF Inv
  <2>3. Valid(row)
    BY <2>1, <2>2, NoRowIsNoFinding DEF Inv, CollectedStatusIsEarned
  <2>4. Valid(row')
    BY <1>1, <2>2, <2>3, ReconciledValid
  <2>5. row'.target = found.target /\ found.target \in Targets /\ row.target \in Targets
    BY <1>1, <2>2, ReconciledTypes DEF Report, Finding
  <2>6. CASE row.status = "rejected"
    <3>1. row'.status = "rejected"
      BY <1>1, <2>2, <2>6, ReconciledTypes
    <3>2. Standing = "rejected" /\ Standing' = "rejected" /\ Support' \subseteq Promise!Supports
      BY <1>1, <2>2, <2>6, <3>1, MappingIs, MappingTypes
    <3>3. QED
      BY <2>1, <2>5, <3>2 DEF Promise!StayRejected, Promise!Next
  <2>7. CASE row.status # "rejected" /\ row.target # found.target
    <3>1. row'.status \in {"potential", "corroborated"}
      BY <1>1, <2>2, <2>7, ReconciledTypes
    <3>2. Standing' \in Promise!Reports
      BY <3>1 DEF Standing, Promise!Reports
    <3>3. /\ Standing \in DOMAIN Promise!Rises /\ Support' \subseteq Promise!Supports
          /\ Promise!Rests(Standing', Support')
      BY <1>1, <2>2, <2>4, <2>7, RetargetedSupported, MappingIs, MappingTypes
    <3>4. QED
      BY <2>1, <2>5, <2>7, <3>2, <3>3 DEF Promise!Retarget, Promise!Next
  <2>8. CASE row.status # "rejected" /\ row.target = found.target
    <3>1. row'.status = row.status
      BY <1>1, <2>2, <2>8, ReconciledTypes
    <3>2. Standing' = Standing
      BY <3>1 DEF Standing
    <3>3. Standing \in DOMAIN Promise!Rises /\ Support' \subseteq Promise!Supports
      BY <1>1, <2>2, <2>8, MappingIs, MappingTypes
    <3>4. Support' \ {"correlated"} = Support \ {"correlated"}
      <4>1. /\ IsReproduced(row'.evidence, row'.target) <=> IsReproduced(row.evidence, row.target)
            /\ Independent(row'.evidence, row'.target) = Independent(row.evidence, row.target)
        BY <1>1, <2>2, <2>5, <2>8, ReconciledRests
      <4>2. SupportOf(row') \ {"correlated"} = SupportOf(row) \ {"correlated"}
        BY <4>1 DEF SupportOf
      <4>3. QED
        BY <4>2, MappingIs
    <3>5. QED
      BY <2>1, <2>5, <2>8, <3>2, <3>3, <3>4 DEF Promise!Rescan, Promise!Next
  <2>9. QED
    BY <2>6, <2>7, <2>8
<1>4. QED
  BY <1>2, <1>3

\* A lifecycle call is saved: it rises on its evidence, or is rejected, or
\* stays rejected (save_domain).
LEMMA PromiseSave ==
  ASSUME Inv, NEW r \in Requests, NEW items \in Collections(Loaded(req[r].read)),
         NEW transition \in Transitions, Save(r, items, transition), row' # row
  PROVE  Promise!Next
<1> DEFINE finding == Loaded(row)
           updated == Updated(Correlated(finding, items), transition)
           merged == MergedState(finding, updated)
<1>1. /\ row \in Finding /\ row' \in Finding /\ items \in SUBSET Evidence
      /\ finding \in Finding /\ updated \in Finding
      /\ row' = merged /\ Valid(row')
  BY SaveWrites DEF Inv
<1>2. overlapped' = overlapped
  BY DEF Save
<1>3. CASE overlapped'
  BY <1>1, <1>3, PromiseOverlap DEF Promise!Next
<1>4. CASE ~overlapped'
  <2>1. Valid(row)
    BY <1>1, <1>2, <1>4, NoRowIsNoFinding DEF Inv, CollectedStatusIsEarned
  <2>2. row'.target = row.target /\ row'.target \in Targets
    <3>1. finding.target = row.target
      BY <1>1, LoadedTypes
    <3>2. merged.target = finding.target
      <4> HIDE DEF finding, updated
      <4>1. QED
        BY <1>1, MergedStateTypes
    <3>3. QED
      BY <1>1, <3>1, <3>2 DEF Finding
  <2>3. /\ Supported(finding)
        /\ IF Supported(row) THEN StandingOf(finding) = StandingOf(row)
           ELSE StandingOf(row) = "corroborated" /\ finding.status = "potential"
    BY <1>1, <2>1, LoadedStands
  <2>4. /\ Standing' = StandingOf(merged) /\ Standing' # "none" /\ Standing # "none"
        /\ Support' \subseteq Promise!Supports /\ Promise!Rests(Standing', Support')
        /\ finding.status # "rejected" => Standing \in DOMAIN Promise!Rises
        /\ finding.status = "rejected" <=> Standing = "rejected"
    <3>1. Supported(merged)
      <4> HIDE DEF finding
      <4>1. QED
        BY <1>1, <2>3, MergedSupported
    <3>2. StandingOf(row) = "rejected" <=> finding.status = "rejected"
      <4> HIDE DEF finding
      <4>1. QED
        BY <1>1, <2>3, MappingTypes
    <3> HIDE DEF finding, merged
    <3>3. QED
      BY <1>1, <3>1, <3>2, MappingIs, MappingTypes
  <2>5. CASE finding.status = "rejected"
    <3>1. merged.status = "rejected"
      <4> HIDE DEF finding, updated
      <4>1. QED
        BY <1>1, <2>5, MergedStaysRejected
    <3>2. Standing' = "rejected"
      BY <2>4, <3>1 DEF StandingOf
    <3> HIDE DEF finding, updated, merged
    <3>3. QED
      BY <1>2, <2>2, <2>4, <2>5, <3>2 DEF Promise!StayRejected, Promise!Next
  <2>6. CASE finding.status # "rejected"
    <3>1. \/ Standing' \in Promise!Rises[Standing] \union {"rejected"}
          \/ Standing = "corroborated" /\ Standing' = "potential" /\ ~Supported(row)
      <4>1. StandingOf(merged) \in Promise!Rises[StandingOf(finding)] \union {"rejected"}
        <5> HIDE DEF finding
        <5>1. QED
          BY <1>1, <2>6, MergedRises
      <4>2. Standing = StandingOf(row)
        BY MappingIs
      <4> HIDE DEF finding, merged
      <4>3. CASE Supported(row)
        BY <2>3, <2>4, <4>1, <4>2, <4>3
      <4>4. CASE ~Supported(row)
        <5>1. Standing = "corroborated" /\ StandingOf(finding) = "potential"
          BY <2>3, <4>2, <4>4 DEF StandingOf
        <5>2. QED
          BY <2>4, <4>1, <4>4, <5>1 DEF Promise!Rises
      <4>5. QED
        BY <4>3, <4>4
    <3> HIDE DEF finding, updated, merged
    <3>2. CASE Standing' = "rejected"
      BY <1>2, <2>2, <2>4, <2>6, <3>2 DEF Promise!Reject, Promise!Next
    <3>3. CASE Standing' \in Promise!Rises[Standing]
      BY <1>2, <2>2, <2>4, <2>6, <3>3 DEF Promise!Rise, Promise!Next
    <3>4. CASE Standing = "corroborated" /\ Standing' = "potential" /\ ~Supported(row)
      <4>1. "correlated" \notin Support
        BY <3>4 DEF Support, Supported
      <4>2. QED
        BY <1>2, <2>2, <2>4, <3>4, <4>1 DEF Promise!Lapse, Promise!Next
    <3>5. QED
      BY <3>1, <3>2, <3>3, <3>4
  <2>7. QED
    BY <2>5, <2>6
<1>5. QED
  BY <1>3, <1>4

\* Scans and lifecycle calls, with failed ones among them and in any order, are
\* steps of the promise or change nothing it speaks of: a finding rises on
\* evidence for its own code, falls only when that changes or when a scan has
\* taken a corroboration's records, and stays rejected (domain/findings.py, _reconcile_row, merge_lifecycle_state).
THEOREM PromiseKept == Spec => KeepsPromise
<1>1. Init => Promise!Init
  BY PromiseInit
<1>2. Inv /\ [Next]_vars => [Promise!Next]_<<Standing, Support, row.target, overlapped>>
  <2> SUFFICES ASSUME Inv, [Next]_vars
               PROVE  \/ Promise!Next
                      \/ UNCHANGED <<Standing, Support, row.target, overlapped>>
    OBVIOUS
  <2>1. ASSUME row' = row, overlapped' = overlapped
        PROVE  UNCHANGED <<Standing, Support, row.target, overlapped>>
    BY <2>1, MappingIs
  <2>2. ASSUME NEW r \in Requests, Insert(r) PROVE Promise!Next
    BY <2>2, PromiseInsert DEF Promise!Next
  <2>3. ASSUME NEW r \in Requests, Rescan(r) PROVE Promise!Next
    BY <2>3, PromiseRescan
  <2>4. ASSUME NEW r \in Requests, NEW items \in Collections(Loaded(req[r].read)),
               NEW transition \in Transitions, Save(r, items, transition), row' # row
        PROVE  Promise!Next
    BY <2>4, PromiseSave
  <2>5. ASSUME NEW r \in Requests, NEW items \in Collections(Loaded(req[r].read)),
               NEW transition \in Transitions, Save(r, items, transition)
        PROVE  overlapped' = overlapped
    BY <2>5 DEF Save
  <2>6. QED
    BY <2>1, <2>2, <2>3, <2>4, <2>5 DEF Next, vars, Load, InsertRaced, RollBack, Scan
<1>3. QED
  BY <1>1, <1>2, Invariant, PTL DEF Spec, KeepsPromise, Promise!Spec
=============================================================================
