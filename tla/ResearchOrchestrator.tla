------------------------ MODULE ResearchOrchestrator ------------------------
(***************************************************************************)
(* The adaptive research orchestrator: rounds of one engine run each, a    *)
(* budget ledger, a write-ahead record of every run, stops and resumes,    *)
(* and the SQL store with its optimistic revision check.                   *)
(*                                                                         *)
(* A process holds one orchestrator of the campaign and serialises its     *)
(* calls with the campaign lock.  Processes share only the database.  Two  *)
(* orchestrators in one process, which service.get can build since it      *)
(* restores them outside that lock, are the subject of BountyCampaign.     *)
(* A call changes the orchestrator's memory and then saves it: the save    *)
(* reads the row and compares its revision, and writes in a second step.   *)
(***************************************************************************)
EXTENDS Naturals, Sequences, FiniteSets

CONSTANTS
  Procs,       \* processes that may open the campaign
  Inputs,      \* an engine, a capability and the digest of its input
  Budgets,     \* limits an orchestrator may be constructed with
  Results,     \* what an engine run may come back with
  Verdicts,    \* what availability, prerequisites and gate may say of an input
  MaxOpens,    \* bound: orchestrators constructed
  MaxResumes,  \* bound: explicit resumes
  MaxFaults    \* bound: saves the database fails

AllResults == {"completed", "tool_failure", "infrastructure", "timed_out",
               "unavailable", "no_outcome", "raised"}

AllVerdicts == {"run", "environment", "identity", "safety", "approval"}

ASSUME OrchestratorAssumption ==
  /\ Inputs # {}
  /\ Budgets \subseteq [engines : Nat, rounds : Nat]
  /\ Budgets # {}
  /\ Results \subseteq AllResults
  /\ Verdicts \subseteq AllVerdicts
  /\ MaxOpens \in Nat /\ MaxResumes \in Nat /\ MaxFaults \in Nat

VARIABLES
  row,      \* table discovery_orchestration_campaigns: revision and document
  history,  \* table discovery_orchestration_decisions, by sequence
  obj,      \* the orchestrator of each process
  runs,     \* every engine run that was started, in order
  opens, resumes, faults

vars == <<row, history, obj, runs, opens, resumes, faults>>
db == <<row, history>>
counters == <<opens, resumes, faults>>

-----------------------------------------------------------------------------
States == {"created", "planning", "executing", "continue", "stopped",
           "completed", "inconclusive", "failed"}
Terminal == {"completed", "inconclusive", "failed"}

\* Reasons with the same end and the same resumability share one name:
\* safety_blocked stands for scope_blocked too, environment_unavailable for
\* prerequisites_unavailable, all_capabilities_exercised for
\* completed_bounded_research.
StopReasons ==
  {"rounds_exhausted", "execution_cap_exhausted", "budget_exhausted",
   "safety_blocked", "approval_required", "environment_unavailable",
   "no_useful_capability", "all_capabilities_exercised", "redundant_evidence",
   "deterministic_identity_missing", "unresolved_uncertainty",
   "operator_paused", "operator_stopped"}

Resumable == {"approval_required", "environment_unavailable", "operator_paused"}

StopState(reason) ==
  CASE reason \in {"no_useful_capability", "all_capabilities_exercised",
                   "redundant_evidence"} -> "completed"
    [] reason \in {"deterministic_identity_missing", "unresolved_uncertainty"} ->
         "inconclusive"
    [] OTHER -> "stopped"

\* A run that is unsupported counts as blocked.
Phases == {"started", "completed", "timed_out", "failed", "unavailable",
           "blocked", "unknown", "superseded"}
AttemptedPhases == {"started", "completed", "timed_out", "failed", "unknown"}
RefusedPhases == {"unavailable", "blocked"}

Dimensions == {"engines", "rounds", "attempts"}
Ledger == [Dimensions -> Nat]
Nothing == [d \in Dimensions |-> 0]
Plus(a, b) == [d \in Dimensions |-> a[d] + b[d]]
Minus(a, b) == [d \in Dimensions |-> IF a[d] > b[d] THEN a[d] - b[d] ELSE 0]

Execution == [input : Inputs, retry : Nat, phase : Phases, retryable : BOOLEAN]
Decision == [source : {"round", "stop", "recovery"}, input : Inputs \union {"none"}, retry : Nat,
             result : Phases \union StopReasons]

Doc == [state : States, stop : StopReasons \union {""},
        execs : Seq(Execution), decisions : Seq(Decision),
        limits : Ledger, consumed : Ledger, reserved : Ledger,
        health : [Inputs -> Nat]]

Stages ==
  {"closed",      \* the process has no orchestrator of the campaign
   "idle",        \* between two calls
   "saving",      \* memory changed, the row not yet read
   "committing",  \* the revision was right, the row not yet written
   "calling"}     \* the start is saved, the engine runs

Orchestrator ==
  [stage : Stages, op : {"open", "resume", "step", "halt", "retry"},
   doc : Doc, rev : Nat, budget : Budgets, started : Nat]

Run == [input : Inputs, retry : Nat, executed : BOOLEAN]

TypeOK ==
  /\ row \in [rev : Nat, doc : Doc]
  /\ history \in Seq(Decision)
  /\ obj \in [Procs -> Orchestrator]
  /\ runs \in Seq(Run)
  /\ opens \in Nat /\ resumes \in Nat /\ faults \in Nat

\* The limits come from the scheduler and the caller; engines the scheduler
\* has already run count as consumed.
Limits(budget) ==
  [d \in Dimensions |-> CASE d = "engines" -> budget.engines
                          [] d = "rounds" -> budget.rounds
                          [] OTHER -> 2 * budget.rounds + 2]

NewConsumed(started) == [Nothing EXCEPT !["engines"] = started]

NewDoc(budget) ==
  [state |-> "created", stop |-> "", execs |-> <<>>, decisions |-> <<>>,
   limits |-> Limits(budget), consumed |-> Nothing, reserved |-> Nothing,
   health |-> [i \in Inputs |-> 0]]

AnyBudget == CHOOSE b \in Budgets : TRUE

Closed == [stage |-> "closed", op |-> "open", doc |-> NewDoc(AnyBudget), rev |-> 0,
           budget |-> AnyBudget, started |-> 0]

Init ==
  /\ row = [rev |-> 0, doc |-> NewDoc(AnyBudget)]
  /\ history = <<>>
  /\ obj = [p \in Procs |-> Closed]
  /\ runs = <<>>
  /\ opens = 0 /\ resumes = 0 /\ faults = 0

-----------------------------------------------------------------------------
(* The ledger. *)

Estimate == [d \in Dimensions |-> 1]
AttemptOnly == [Nothing EXCEPT !["attempts"] = 1]

Remaining(doc, d) == Minus(doc.limits, Plus(doc.consumed, doc.reserved))[d]

Shortfall(doc) == \E d \in Dimensions : Estimate[d] > Remaining(doc, d)

Reserve(doc) == [doc EXCEPT !.reserved = Plus(@, Estimate)]

Settle(doc, actual) ==
  [doc EXCEPT !.reserved = Minus(@, Estimate), !.consumed = Plus(@, actual)]

\* Faulty variant: the limits of the new process replace the stored ones.
MergedWithNewLimits(doc, budget, started) ==
  [doc EXCEPT !.limits = Limits(budget),
              !.consumed = [d \in Dimensions |-> IF NewConsumed(started)[d] > @[d]
                                                 THEN NewConsumed(started)[d] ELSE @[d]],
              !.reserved = Nothing]

\* A restored ledger never raises a limit or lowers a consumption.
Merged(doc, budget, started) ==
  [doc EXCEPT !.limits = [d \in Dimensions |-> IF Limits(budget)[d] < @[d]
                                               THEN Limits(budget)[d] ELSE @[d]],
              !.consumed = [d \in Dimensions |-> IF NewConsumed(started)[d] > @[d]
                                                 THEN NewConsumed(started)[d] ELSE @[d]],
              !.reserved = Nothing]

-----------------------------------------------------------------------------
(* Decisions and stops. *)

Decided(doc, source, input, retry, result) ==
  [doc EXCEPT !.decisions = Append(@, [source |-> source, input |-> input,
                                       retry |-> retry, result |-> result])]

Stopped(doc, reason) ==
  [Decided(doc, "stop", "none", 0, reason) EXCEPT
     !.state = StopState(reason), !.stop = reason]

\* Run n has got its outcome, or is given up so that it can be retried.
Marked(execs, n, phase, retryable) ==
  [execs EXCEPT ![n].phase = phase, ![n].retryable = retryable]

\* A call leaves its document in memory and saves it.
Save(p, op, doc) ==
  obj' = [obj EXCEPT ![p].stage = "saving", ![p].op = op, ![p].doc = doc]

-----------------------------------------------------------------------------
(* Loading and restoring. *)

Unfinished(doc) == {n \in DOMAIN doc.execs : doc.execs[n].phase = "started"}

\* Faulty variants: the interrupted run is forgotten; its cost is forgotten.
RecoveredWithoutRecord(doc) ==
  IF Unfinished(doc) = {} THEN doc
  ELSE [doc EXCEPT !.execs = SelectSeq(@, LAMBDA e : e.phase # "started"),
                   !.consumed = Plus(@, Estimate)]
RecoveredWithoutCost(doc) ==
  IF Unfinished(doc) = {} THEN doc
  ELSE LET n == CHOOSE m \in Unfinished(doc) : TRUE
           e == doc.execs[n]
       IN  Decided([doc EXCEPT !.execs = Marked(@, n, "unknown", TRUE)],
                   "recovery", e.input, e.retry, "unknown")

\* A run that was interrupted has an unknown outcome and keeps its whole cost;
\* there is at most one.
Recovered(doc) ==
  IF Unfinished(doc) = {} THEN doc
  ELSE LET n == CHOOSE m \in Unfinished(doc) : TRUE
           e == doc.execs[n]
       IN  Decided([doc EXCEPT !.execs = Marked(@, n, "unknown", TRUE),
                               !.consumed = Plus(@, Estimate)],
                   "recovery", e.input, e.retry, "unknown")

Normalized(doc) == [doc EXCEPT !.state = IF @ = "executing" THEN "continue" ELSE @]

\* Faulty variant: every stopped campaign is resumed.
ResumedWhateverStopped(doc, available) ==
  IF doc.state = "stopped" THEN [doc EXCEPT !.state = "planning", !.stop = ""] ELSE doc

\* An explicit resume of a resumable stop; engines that are available again
\* may be planned again.
Resumed(doc, available) ==
  IF doc.state = "stopped" /\ doc.stop \in Resumable
  THEN [doc EXCEPT
          !.state = "planning", !.stop = "",
          !.execs = [n \in DOMAIN @ |->
                       IF @[n].phase = "unavailable" /\ @[n].input \in available
                       THEN [@[n] EXCEPT !.phase = "superseded"] ELSE @[n]]]
  ELSE doc

Restored(doc, budget, started) ==
  Normalized(Recovered(Merged(doc, budget, started)))

\* A request constructs the orchestrator and starts it, here in a process that
\* has none.
Open(p) ==
  /\ obj[p].stage = "closed" /\ opens < MaxOpens
  /\ opens' = opens + 1
  /\ \E b \in Budgets :
       obj' = [obj EXCEPT ![p] =
                 [Closed EXCEPT
                    !.stage = "saving", !.budget = b, !.rev = row.rev,
                    !.doc = IF row.rev = 0 THEN NewDoc(b) ELSE Restored(row.doc, b, 0)]]
  /\ UNCHANGED <<db, runs, resumes, faults>>

\* start(explicit_resume=True) on an orchestrator that is already there.
Resume(p) ==
  LET o == obj[p] IN
  /\ o.stage = "idle" /\ resumes < MaxResumes
  /\ resumes' = resumes + 1
  /\ \E available \in SUBSET Inputs :
       obj' = [obj EXCEPT ![p] =
                 [o EXCEPT !.stage = "saving", !.op = "resume", !.rev = row.rev,
                           !.doc = Resumed(Restored(row.doc, o.budget, o.started),
                                           available)]]
  /\ UNCHANGED <<db, runs, opens, faults>>

-----------------------------------------------------------------------------
(* Planning. *)

Superseded(doc, i) ==
  Cardinality({n \in DOMAIN doc.execs :
                 doc.execs[n].phase = "superseded" /\ doc.execs[n].input = i})

\* The execution key counts the superseded runs of the same input.
Previous(doc, i) ==
  {doc.execs[n].phase : n \in {m \in DOMAIN doc.execs :
     doc.execs[m].input = i /\ doc.execs[m].retry = Superseded(doc, i)}}

CircuitFailures == 2

\* Why an input cannot run, "" if it can.  The verdict stands for what the
\* engine's availability, the prerequisites and the gate say at this moment.
Rejection(doc, i, verdict) ==
  CASE verdict \in {"environment", "identity"} -> verdict
    [] doc.health[i] >= CircuitFailures -> "environment"
    [] "completed" \in Previous(doc, i) -> "duplicate"
    [] Previous(doc, i) \intersect AttemptedPhases # {} -> "environment"
    [] Previous(doc, i) \intersect RefusedPhases # {} -> "duplicate"
    [] Shortfall(doc) -> "budget"
    [] OTHER -> IF verdict = "run" THEN "" ELSE verdict

\* Without a candidate: the first reason in the fixed order.
Blocking(rejections) ==
  CASE "safety" \in rejections -> "safety_blocked"
    [] "approval" \in rejections -> "approval_required"
    [] "identity" \in rejections -> "deterministic_identity_missing"
    [] "budget" \in rejections -> "budget_exhausted"
    [] "environment" \in rejections -> "environment_unavailable"
    [] OTHER -> "no_useful_capability"

Exhausted(doc) == {d \in Dimensions : Remaining(doc, d) = 0}

Steppable(p) ==
  /\ obj[p].stage = "idle"
  /\ obj[p].doc.state \in {"created", "planning", "continue"}

\* No capability is needed any more, or none that is needed can run.
StepStops(p) ==
  LET doc == obj[p].doc IN
  /\ Steppable(p)
  /\ \/ \E reason \in {"all_capabilities_exercised", "unresolved_uncertainty"} :
          Save(p, "step", Stopped(doc, reason))
     \/ /\ Exhausted(doc) # {}
        /\ Save(p, "step", Stopped(doc, IF "rounds" \in Exhausted(doc)
                                        THEN "rounds_exhausted"
                                        ELSE "execution_cap_exhausted"))
     \/ /\ Exhausted(doc) = {}
        /\ \E wanted \in SUBSET Inputs \ {{}} : \E verdict \in [wanted -> Verdicts] :
             LET rejections == {Rejection(doc, i, verdict[i]) : i \in wanted} IN
             /\ "" \notin rejections
             /\ Save(p, "step", Stopped(doc, Blocking(rejections)))
  /\ UNCHANGED <<db, runs, counters>>

\* The best candidate reserves its cost and its start is recorded before the
\* engine runs.  The reservation fits: the planner has just asked the ledger.
StepRuns(p) ==
  LET doc == obj[p].doc IN
  /\ Steppable(p)
  /\ Exhausted(doc) = {}
  /\ \E i \in Inputs :
       /\ Rejection(doc, i, "run") = ""
       /\ Save(p, "step",
               [Reserve(doc) EXCEPT
                  !.state = "executing",
                  !.execs = Append(@, [input |-> i, retry |-> Superseded(doc, i),
                                       phase |-> "started", retryable |-> FALSE])])
  /\ UNCHANGED <<db, runs, counters>>

\* A step from inside a round is an illegal transition and fails the campaign.
StepFails(p) ==
  /\ obj[p].stage = "idle" /\ obj[p].doc.state = "executing"
  /\ Save(p, "step", [obj[p].doc EXCEPT !.state = "failed"])
  /\ UNCHANGED <<db, runs, counters>>

-----------------------------------------------------------------------------
(* The engine run and its outcome. *)

\* A spent scheduler refuses the run.
ResultsOf(o) == IF o.started >= o.budget.engines THEN {"refused"} ELSE Results

Executed(result) == result \in {"completed", "tool_failure", "timed_out"}

\* Faulty variant: an engine that raised has left no phase.
PhaseWithoutRaised(result) ==
  CASE result = "tool_failure" \/ result = "infrastructure" -> "failed"
    [] result = "no_outcome" -> "unknown"
    [] result = "refused" -> "blocked"
    [] OTHER -> result

Phase(result) ==
  CASE result = "tool_failure" \/ result = "infrastructure" -> "failed"
    [] result = "no_outcome" \/ result = "raised" -> "unknown"
    [] result = "refused" -> "blocked"
    [] OTHER -> result

Retryable(result) == result \in {"infrastructure", "timed_out", "no_outcome", "raised"}

\* A run that never started consumes an attempt; one that raised may have run.
Actual(result) ==
  IF Executed(result) \/ result = "raised" THEN Estimate ELSE AttemptOnly

Health(before, phase) ==
  CASE phase = "completed" -> 0
    [] phase \in {"failed", "unknown", "timed_out"} -> before + 1
    [] OTHER -> before

Observed(doc, result) ==
  LET n == Len(doc.execs)
      e == doc.execs[n]
  IN  Decided([Settle(doc, Actual(result)) EXCEPT
                 !.state = "continue",
                 !.execs = Marked(@, n, Phase(result), Retryable(result)),
                 !.health[e.input] = Health(@, Phase(result))],
              "round", e.input, e.retry, Phase(result))

Completions(doc) ==
  {n \in DOMAIN doc.decisions :
     doc.decisions[n].source = "round" /\ doc.decisions[n].result = "completed"}

\* The engine runs, and the round is settled and decided in memory.  Two
\* completed rounds that added nothing end the campaign.
CallEngine(p) ==
  LET o == obj[p]
      e == o.doc.execs[Len(o.doc.execs)]
  IN
  /\ o.stage = "calling"
  /\ \E result \in ResultsOf(o), redundant \in BOOLEAN :
       LET doc == Observed(o.doc, result) IN
       /\ redundant => Cardinality(Completions(doc)) >= 2
       /\ runs' = Append(runs, [input |-> e.input, retry |-> e.retry,
                                executed |-> Executed(result) \/ result = "raised"])
       /\ obj' = [obj EXCEPT ![p] =
                    [o EXCEPT !.stage = "saving",
                              !.doc = IF redundant THEN Stopped(doc, "redundant_evidence")
                                                   ELSE doc,
                              !.started = IF Executed(result) THEN @ + 1 ELSE @]]
  /\ UNCHANGED <<db, counters>>

-----------------------------------------------------------------------------
(* The operator. *)

Haltable(doc, reason) ==
  \/ doc.state \in {"created", "planning", "continue"}
  \/ doc.state = "stopped" /\ doc.stop \in Resumable \ {reason}

Halt(p) ==
  /\ obj[p].stage = "idle"
  /\ \E reason \in {"operator_paused", "operator_stopped"} :
       /\ Haltable(obj[p].doc, reason)
       /\ Save(p, "halt", Stopped(obj[p].doc, reason))
  /\ UNCHANGED <<db, runs, counters>>

MaxSuperseded == 2

GrantRetry(p) ==
  LET doc == obj[p].doc
      resumed == doc.state = "stopped" /\ doc.stop \in Resumable
  IN
  /\ obj[p].stage = "idle"
  /\ doc.state \notin Terminal
  /\ \E n \in DOMAIN doc.execs :
       /\ doc.execs[n].retryable
       /\ doc.execs[n].phase \in {"timed_out", "failed", "unknown"}
       /\ Superseded(doc, doc.execs[n].input) < MaxSuperseded
       /\ Save(p, "retry",
               [doc EXCEPT !.execs = Marked(@, n, "superseded", FALSE),
                           !.state = IF resumed THEN "planning" ELSE @,
                           !.stop = IF resumed THEN "" ELSE @])
  /\ UNCHANGED <<db, runs, counters>>

-----------------------------------------------------------------------------
(* Saving. *)

\* Faulty variant: the engine is called although its start could not be saved.
RaisedAndCalled(p, conflict) ==
  obj' = [obj EXCEPT ![p] =
            IF obj[p].op = "open" \/ (conflict /\ obj[p].op \in {"step", "resume"})
            THEN Closed
            ELSE [obj[p] EXCEPT !.stage = IF obj[p].doc.state = "executing"
                                          THEN "calling" ELSE "idle"]]

\* The error reaches the caller.  A conflict makes the service forget the
\* orchestrator, except in halt and grant_retry; one that could not be started
\* is never kept.
Raised(p, conflict) ==
  obj' = [obj EXCEPT ![p] =
            IF obj[p].op = "open" \/ (conflict /\ obj[p].op \in {"step", "resume"})
            THEN Closed ELSE [obj[p] EXCEPT !.stage = "idle"]]

SaveReads(p) ==
  /\ obj[p].stage = "saving"
  /\ IF obj[p].rev = row.rev
     THEN obj' = [obj EXCEPT ![p].stage = "committing"]
     ELSE Raised(p, TRUE)
  /\ UNCHANGED <<db, runs, counters>>

Agree(s, t) ==
  \A n \in 1 .. (IF Len(s) < Len(t) THEN Len(s) ELSE Len(t)) : s[n] = t[n]

\* Faulty variant: decisions that are already stored are not compared.
StorableWithoutHistory(p) == obj[p].rev = 0 => row.rev = 0

\* The insert finds no row of another process, and no stored decision is
\* contradicted.  The revision is not compared again.
Storable(p) ==
  /\ obj[p].rev = 0 => row.rev = 0
  /\ Agree(obj[p].doc.decisions, history)

Write(p) ==
  LET decisions == obj[p].doc.decisions IN
  /\ row' = [rev |-> obj[p].rev + 1, doc |-> obj[p].doc]
  /\ history' = IF Len(decisions) > Len(history) THEN decisions ELSE history

Saved(p, stage) ==
  obj' = [obj EXCEPT ![p].stage = stage, ![p].rev = obj[p].rev + 1]

SaveCommits(p) ==
  /\ obj[p].stage = "committing"
  /\ IF Storable(p)
     THEN /\ Write(p)
          /\ Saved(p, IF obj[p].op = "step" /\ obj[p].doc.state = "executing"
                      THEN "calling" ELSE "idle")
     ELSE Raised(p, FALSE) /\ UNCHANGED db
  /\ UNCHANGED <<runs, counters>>

\* The database cannot be reached, or answers after the save has been given
\* up: then the row is written although the caller sees an error.
SaveFails(p) ==
  /\ obj[p].stage \in {"saving", "committing"} /\ faults < MaxFaults
  /\ faults' = faults + 1
  /\ \/ Raised(p, FALSE) /\ UNCHANGED db
     \/ /\ obj[p].stage = "committing" /\ Storable(p) /\ Write(p)
        /\ IF obj[p].op = "open" THEN obj' = [obj EXCEPT ![p] = Closed]
                                ELSE Saved(p, "idle")
  /\ UNCHANGED <<runs, opens, resumes>>

\* The process dies, or drops the campaign.
Crash(p) ==
  /\ obj[p].stage # "closed"
  /\ obj' = [obj EXCEPT ![p] = Closed]
  /\ UNCHANGED <<db, runs, counters>>

-----------------------------------------------------------------------------
Step(p) == StepStops(p) \/ StepRuns(p) \/ StepFails(p) \/ CallEngine(p)

Operator(p) == Open(p) \/ Resume(p) \/ Halt(p) \/ GrantRetry(p)

Store(p) == SaveReads(p) \/ SaveCommits(p) \/ SaveFails(p)

Next == \E p \in Procs : Step(p) \/ Operator(p) \/ Store(p) \/ Crash(p)

Spec == Init /\ [][Next]_vars

-----------------------------------------------------------------------------
(* Properties.  All but HistoryIsConsistent are about a campaign that has   *)
(* at most one orchestrator at any time: one process, and no two threads    *)
(* of it in service.get for this campaign.                                  *)

\* "An unchanged input never repeats": no execution key reaches an engine a
\* second time, whatever crashes, failed saves, resumes and granted retries lie
\* between (_run_round's write-ahead record, _restore, _first_rejection).
EachKeyRunsOnce ==
  \A m, n \in DOMAIN runs :
    runs[m].input = runs[n].input /\ runs[m].retry = runs[n].retry => m = n

ExecutedRuns(s) == Cardinality({n \in DOMAIN s : s[n].executed})

\* Whenever an engine runs, the runs of the whole campaign are within the limit
\* the stored ledger has at that moment: what a crash interrupted is counted.
RunsWithinLimit ==
  [][runs' # runs => ExecutedRuns(runs') <= row.doc.limits["engines"]]_vars

\* "Limits only tighten. Consumption only grows" (BudgetLedger): also across
\* restarts with other limits and saves that fail.
LedgerIsMonotone ==
  [][row.rev > 0 => \A d \in Dimensions :
       /\ row'.doc.limits[d] <= row.doc.limits[d]
       /\ row'.doc.consumed[d] >= row.doc.consumed[d]]_vars

Ended(doc) == doc.state \in Terminal \/ doc.stop = "operator_stopped"

\* A stored campaign that has ended, or that an operator has stopped for good,
\* stays as it is (TRANSITIONS, halt, _maybe_resume).
EndsAreFinal ==
  [][row.rev > 0 /\ Ended(row.doc) =>
       row'.doc.state = row.doc.state /\ row'.doc.stop = row.doc.stop]_vars

\* The run that the row announces.
OnRecord(doc) ==
  IF doc.state # "executing" THEN <<>>
  ELSE LET e == doc.execs[Len(doc.execs)] IN <<[input |-> e.input, retry |-> e.retry]>>

WriteAhead == INSTANCE RunLedger WITH
  created <- row.rev > 0, limit <- row.doc.limits["engines"],
  spent <- row.doc.consumed["engines"], onRecord <- OnRecord(row.doc),
  over <- Ended(row.doc), ran <- runs

\* An engine runs only when its start is in the row, under a new key and within
\* the limit, and every save pays for all runs there have been: no failed or late
\* save, restart or resume starts a run that nobody recorded (_run_round, _save,
\* restore).
KeepsLedger == WriteAhead!Spec

\* The document never contradicts the decision rows, even when several processes
\* save at the same time: its history is the beginning of theirs.
HistoryIsConsistent ==
  /\ Len(row.doc.decisions) <= Len(history)
  /\ Agree(row.doc.decisions, history)

=============================================================================
