-------------------------- MODULE FindingLifecycle --------------------------
(***************************************************************************)
(* One security finding of a project: the row it is stored in, the scans   *)
(* that report it again, and the lifecycle service that adds evidence to   *)
(* it and moves its status.                                                *)
(*                                                                         *)
(* A lifecycle request reads the row under a row lock and holds the lock   *)
(* until it commits.  A scan reads without a lock and waits for one only   *)
(* when it writes; either writes the columns it changed of what it read.   *)
(*                                                                         *)
(* Evidence that no rule counts (AI text, contradictions, failed           *)
(* reproductions, unsigned runtime records) is left out.                   *)
(***************************************************************************)
EXTENDS Naturals, FiniteSets

CONSTANTS
  Requests,       \* requests in flight: scans and lifecycle calls
  Targets,        \* semantic targets: the code the finding is about
  Rules,          \* static rules; a record of a rule is one observation
  Executions,     \* execution ids of collections
  MaxScans,       \* bound: scans
  MaxCollections  \* bound: lifecycle calls that bring evidence

ASSUME LifecycleAssumption ==
  /\ "none" \notin Targets /\ "none" \notin Executions /\ "free" \notin Requests
  /\ Targets # {} /\ IsFiniteSet(Rules) /\ MaxScans \in Nat /\ MaxCollections \in Nat

VARIABLES
  row,         \* the finding's row; NoRow before the first scan
  lock,        \* the request that holds the row lock, or "free"
  req,         \* the requests
  overlapped,  \* a scan wrote over a row that had changed since it read it
  scans, collections

vars == <<row, lock, req, overlapped, scans, collections>>

-----------------------------------------------------------------------------
\* A record of evidence.  id is the rule of a static record and the execution
\* of a collected one; target is observed_target; seen is the target the
\* finding had when the record came in (not stored: the properties speak of it).
Evidence ==
  [kind : {"static"}, id : Rules, target : Targets, seen : Targets]
  \union [kind : {"observation"}, id : Executions, target : Targets, seen : Targets]
  \union [kind : {"reproduction"}, id : Executions \union {"none"},
          target : Targets \union {"none"}, seen : Targets]

Statuses == {"potential", "corroborated", "reproduced", "verified", "human_accepted", "rejected"}

\* accepted: human_review_state.
Finding == [status : Statuses, accepted : BOOLEAN, target : Targets, evidence : SUBSET Evidence]
NoRow == [status |-> "no row", accepted |-> FALSE, target |-> "none", evidence |-> {}]

\* found: what a scan reports.
Report == [target : Targets, rules : SUBSET Rules \ {{}}, corroborated : BOOLEAN]
NoReport == [target |-> "none", rules |-> {}, corroborated |-> FALSE]
Idle == [pc |-> "idle", read |-> NoRow, found |-> NoReport]

TypeOK ==
  /\ row.status = "no row" => row = NoRow
  /\ row.status # "no row" =>
       /\ row.status \in Statuses /\ row.accepted \in BOOLEAN /\ row.target \in Targets
       /\ row.evidence \subseteq Evidence
  /\ lock \in Requests \union {"free"}
  /\ \A r \in Requests :
       /\ req[r].pc \in {"idle", "loaded", "scanned"}
       /\ req[r].pc = "loaded" <=> lock = r
       /\ req[r].pc = "loaded" => req[r].read.status \in Statuses
       /\ req[r].pc = "scanned" => req[r].found.target \in Targets
  /\ overlapped \in BOOLEAN /\ scans \in 0 .. MaxScans /\ collections \in 0 .. MaxCollections

-----------------------------------------------------------------------------
(* The rules of lifecycle_policy.py *)

Reproductions(ev) == {e \in ev : e.kind = "reproduction"}

\* reproduction_for_target, of some record.
IsReproduced(ev, target) == \E e \in Reproductions(ev) : e.target = target

\* independent_verification_items.
Independent(ev, target) ==
  {e \in ev : /\ e.kind = "observation" /\ e.target = target
              /\ ~ \E p \in Reproductions(ev) : p.id = e.id}

CanCorroborate(ev, target) ==
  \/ Cardinality({e.id : e \in {s \in ev : s.kind = "static" /\ s.target = target}}) >= 2
  \/ \E e \in ev : e.kind = "observation" /\ e.target = target

\* SecurityFinding.__post_init__: the findings that can be built at all.
Valid(f) ==
  /\ f.status = "reproduced" => IsReproduced(f.evidence, f.target)
  /\ f.status = "verified" => Independent(f.evidence, f.target) # {}
  /\ f.status = "human_accepted" =>
       IsReproduced(f.evidence, f.target) \/ Independent(f.evidence, f.target) # {}

\* observation_identity: an observation's target is no part of it.
Identity(e) == <<e.kind, e.id, IF e.kind = "reproduction" THEN e.target ELSE "none">>
Without(new, old) == {e \in new : \A o \in old : Identity(o) # Identity(e)}

\* _stamp_reproductions: what has no target gets the finding's.  Two records
\* that differ in "seen" only stand for one that came in more than once.
Stamped(f) ==
  {IF e.kind = "reproduction" /\ e.target = "none" THEN [e EXCEPT !.target = f.target] ELSE e :
   e \in f.evidence}

\* to_domain: a status that the evidence does not bear reads as potential; a
\* status that rests on a reproduction is reached through reproduce() again.
Loaded(f) ==
  IF ~ Valid(f) \/ (f.status = "corroborated" /\ ~ CanCorroborate(f.evidence, f.target))
  THEN [f EXCEPT !.status = "potential"]
  ELSE IF \/ f.status = "reproduced"
          \/ f.status = "human_accepted" /\ Independent(f.evidence, f.target) = {}
  THEN [f EXCEPT !.evidence = Stamped(f)]
  ELSE f

-----------------------------------------------------------------------------
(* SecurityFinding's transitions *)

Transitions == {"none", "corroborate", "reproduce", "verify", "human_accept", "reject"}

Accepts(f, transition) ==
  CASE transition \in {"none", "reject"} -> TRUE
    [] transition = "corroborate" ->
         f.status \in {"potential", "corroborated"} /\ CanCorroborate(f.evidence, f.target)
    [] transition = "reproduce" ->
         /\ f.status \notin {"rejected", "verified", "human_accepted"}
         /\ IsReproduced(Stamped(f), f.target)
    [] transition = "verify" ->
         f.status \notin {"rejected", "human_accepted"} /\ Independent(f.evidence, f.target) # {}
    [] transition = "human_accept" ->
         /\ f.status \in {"reproduced", "verified", "human_accepted"}
         /\ IsReproduced(f.evidence, f.target) \/ Independent(f.evidence, f.target) # {}

After(f, transition) ==
  CASE transition = "none" -> f
    [] transition = "corroborate" -> [f EXCEPT !.status = "corroborated"]
    [] transition = "reproduce" -> [f EXCEPT !.status = "reproduced", !.evidence = Stamped(f)]
    [] transition = "verify" -> [f EXCEPT !.status = "verified"]
    [] transition = "human_accept" -> [f EXCEPT !.status = "human_accepted", !.accepted = TRUE]
    [] transition = "reject" -> [f EXCEPT !.status = "rejected"]

-----------------------------------------------------------------------------
(* The repository *)

Rank == [potential |-> 0, corroborated |-> 1, reproduced |-> 2, verified |-> 3, human_accepted |-> 4]

PreferStatus(current, incoming) ==
  IF "rejected" \in {current, incoming} THEN "rejected"
  ELSE IF Rank[incoming] >= Rank[current] THEN incoming ELSE current

\* merge_lifecycle_state.
MergedState(current, incoming) ==
  LET status == PreferStatus(current.status, incoming.status) IN
  [current EXCEPT
     !.status = status,
     !.accepted = current.accepted \/ incoming.accepted \/ status = "human_accepted",
     !.evidence = current.evidence \union Without(incoming.evidence, current.evidence)]

\* The columns of mine that differ from what was read; the others stay.
Columns(stored, read, mine) ==
  [c \in DOMAIN stored |-> IF mine[c] # read[c] THEN mine[c] ELSE stored[c]]

\* What a scan reports, as a finding of its own.
Statics(found) ==
  {[kind |-> "static", id |-> rule, target |-> found.target, seen |-> found.target] : rule \in found.rules}
Reported(found) ==
  [status |-> IF found.corroborated THEN "corroborated" ELSE "potential",
   accepted |-> FALSE, target |-> found.target, evidence |-> Statics(found)]

\* Faulty variants: a human acceptance outlives a changed target; a rejection
\* falls with the others; what was collected goes with the static records.
ReconciledAccepted(f, found) ==
  LET falls == f.target # found.target /\ f.status \in {"corroborated", "reproduced", "verified"}
  IN [status |-> IF falls THEN Reported(found).status ELSE f.status,
      accepted |-> f.accepted /\ ~falls, target |-> found.target,
      evidence |-> Statics(found) \union {e \in f.evidence : e.kind # "static"}]
ReconciledRejected(f, found) ==
  LET falls == f.target # found.target
  IN [status |-> IF falls THEN Reported(found).status ELSE f.status,
      accepted |-> f.accepted /\ ~falls, target |-> found.target,
      evidence |-> Statics(found) \union {e \in f.evidence : e.kind # "static"}]
ReconciledForgetful(f, found) ==
  [f EXCEPT !.status = IF f.target # found.target /\ @ # "rejected" THEN Reported(found).status ELSE @,
            !.target = found.target, !.evidence = Statics(found)]

\* _reconcile_row: static facts are replaced; the status falls to the scan's
\* when the target changed, unless the finding was potential or rejected.
Reconciled(f, found) ==
  LET falls == /\ f.target # found.target
               /\ f.status \in {"corroborated", "reproduced", "verified", "human_accepted"}
  IN [status |-> IF falls THEN Reported(found).status ELSE f.status,
      accepted |-> f.accepted /\ ~falls,
      target |-> found.target,
      evidence |-> Statics(found) \union {e \in f.evidence : e.kind # "static"}]

-----------------------------------------------------------------------------
Init ==
  /\ row = NoRow /\ lock = "free" /\ req = [r \in Requests |-> Idle]
  /\ overlapped = FALSE /\ scans = 0 /\ collections = 0

\* Faulty variant: the row is read without its lock.
MayLoadUnlocked == TRUE

\* get_for_update: the row is read once it can be locked.
MayLoad == lock = "free"

Load(r) ==
  /\ req[r] = Idle /\ row # NoRow /\ MayLoad
  /\ lock' = r /\ req' = [req EXCEPT ![r] = [Idle EXCEPT !.pc = "loaded", !.read = row]]
  /\ UNCHANGED <<row, overlapped, scans, collections>>

\* What a call may bring: what record_collected_evidence signs for the target,
\* all of one execution, or a reproduction that attach_evidence stripped.
Collections(f) ==
  LET new(kind, id, target) == [kind |-> kind, id |-> id, target |-> target, seen |-> f.target] IN
  {{}, {new("reproduction", "none", "none")}} \union
  UNION {{ {new("observation", x, f.target)}, {new("reproduction", x, f.target)},
           {new("observation", x, f.target), new("reproduction", x, f.target)} } : x \in Executions}

\* correlate_finding.
Correlated(f, items) == [f EXCEPT !.evidence = @ \union Without(items, f.evidence)]

\* _apply: a refused transition still saves the evidence.
Updated(f, transition) == IF Accepts(f, transition) THEN After(f, transition) ELSE f

Save(r, items, transition) ==
  LET finding == Loaded(req[r].read)
      collected == Correlated(finding, items)
      merged == MergedState(finding, Updated(collected, transition))
  IN /\ req[r].pc = "loaded" /\ lock = r
     /\ items # {} => collections < MaxCollections
     /\ collections' = collections + (IF items # {} THEN 1 ELSE 0)
     /\ row' = IF Valid(collected) /\ Valid(merged) THEN Columns(row, req[r].read, merged) ELSE row
     /\ lock' = "free" /\ req' = [req EXCEPT ![r] = Idle]
     /\ UNCHANGED <<overlapped, scans>>

\* bulk_create reads the rows of its keys.  Two rules of one flow are two
\* records, and do not corroborate each other (ObservationCluster.corroborated).
Scan(r, found) ==
  /\ req[r] = Idle /\ scans < MaxScans /\ scans' = scans + 1
  /\ found.corroborated => CanCorroborate(Statics(found), found.target)
  /\ req' = [req EXCEPT ![r] = [pc |-> "scanned", read |-> row, found |-> found]]
  /\ UNCHANGED <<row, lock, overlapped, collections>>

\* _add_row, and no other scan was first.
Insert(r) ==
  /\ req[r].pc = "scanned" /\ req[r].read = NoRow /\ row = NoRow
  /\ row' = Reported(req[r].found) /\ req' = [req EXCEPT ![r] = Idle]
  /\ UNCHANGED <<lock, overlapped, scans, collections>>

\* Its insert meets the unique key: the row that won is read instead.
InsertRaced(r) ==
  /\ req[r].pc = "scanned" /\ req[r].read = NoRow /\ row # NoRow
  /\ req' = [req EXCEPT ![r].read = row]
  /\ UNCHANGED <<row, lock, overlapped, scans, collections>>

\* The flush waits for the row lock.  The evidence column is always written:
\* the records of a scan carry its time.
Rescan(r) ==
  LET read == req[r].read
      mine == Reconciled(read, req[r].found)
  IN /\ req[r].pc = "scanned" /\ read # NoRow /\ lock = "free"
     /\ row' = [Columns(row, read, mine) EXCEPT !.evidence = mine.evidence]
     /\ overlapped' = (overlapped \/ row # read)
     /\ req' = [req EXCEPT ![r] = Idle]
     /\ UNCHANGED <<lock, scans, collections>>

\* The request fails, and its transaction is rolled back.
RollBack(r) ==
  /\ req[r] # Idle /\ req' = [req EXCEPT ![r] = Idle]
  /\ lock' = IF lock = r THEN "free" ELSE lock
  /\ UNCHANGED <<row, overlapped, scans, collections>>

Next ==
  \E r \in Requests :
    \/ Load(r) \/ Insert(r) \/ InsertRaced(r) \/ Rescan(r) \/ RollBack(r)
    \/ \E found \in Report : Scan(r, found)
    \/ \E items \in Collections(Loaded(req[r].read)), transition \in Transitions : Save(r, items, transition)

Spec == Init /\ [][Next]_vars

-----------------------------------------------------------------------------
(* Properties *)

Standing ==
  CASE row.status = "no row" -> "none"
    [] row.status = "human_accepted" -> "accepted"
    [] OTHER -> row.status

Support ==
  {s \in {"correlated", "reproduced", "observed"} :
     \/ s = "correlated" /\ CanCorroborate(row.evidence, row.target)
     \/ s = "reproduced" /\ IsReproduced(row.evidence, row.target)
     \/ s = "observed" /\ Independent(row.evidence, row.target) # {}}

Promise == INSTANCE FindingPromise WITH
  standing <- Standing, support <- Support, overlapped <- overlapped,
  target <- row.target, Targets <- Targets \union {"none"}

\* Scans, evidence and transitions, in any order and with failed requests among
\* them, keep the promise: a row rises on evidence for its own target, falls
\* only when the target changes, and stays rejected (domain/findings.py,
\* _reconcile_row, merge_lifecycle_state).  One fall on an unchanged target is
\* part of it: a corroboration whose static records a scan has replaced lapses
\* at the next save (to_domain).
KeepsPromise == Promise!Spec

\* What was collected or decided by a human is not downgraded by a load: a
\* stored status beyond corroboration is one its own evidence bears, so what the
\* operator was told is what a later request reads, and a human's acceptance does
\* not outlive the status it was given to; unless a scan wrote over a row that had
\* changed since it read it.  Nothing is said of "corroborated": a
\* scan of the same target may leave it without its records, and to_domain then
\* reads it as potential (Lapse of FindingPromise).
CollectedStatusIsEarned ==
  ~overlapped /\ row # NoRow =>
    /\ Valid(row)
    /\ row.accepted => row.status \in {"human_accepted", "rejected"}

\* What was collected from a running system is not dropped from the row by a
\* later commit ("There is no overwrite path that can drop evidence",
\* save_domain), unless a scan wrote over a row that had changed since it read
\* it: such a scan stores the evidence it read, without what was added since.
Collected(f) == {<<e.kind, e.id, e.seen>> : e \in {x \in f.evidence : x.kind # "static"}}
EvidenceIsKept == [][~overlapped' => Collected(row) \subseteq Collected(row')]_vars

\* A reproduction of other code is not enough to be reproduced ("A historical
\* reproduction ... is not enough", SecurityFinding.reproduce).
ReproducedHere ==
  ~overlapped /\ row.status = "reproduced" =>
    \E e \in Reproductions(row.evidence) : e.target = row.target /\ e.seen = row.target
=============================================================================
