-------------------- MODULE ResearchOrchestrator_proofs --------------------
(***************************************************************************)
(* Theorems about ResearchOrchestrator, for every number of processes,     *)
(* inputs and budgets, and any number of restarts, resumes and failing     *)
(* saves.                                                                  *)
(***************************************************************************)
EXTENDS ResearchOrchestrator, SequenceTheorems, FiniteSetTheorems, TLAPS

USE OrchestratorAssumption

-----------------------------------------------------------------------------
(* The operators on documents keep their type *)

\* A document that is executing has the run it executes.
RunningDoc == {doc \in Doc : doc.state = "executing" => Len(doc.execs) > 0}

\* The operations of the ledger stay within ledgers (budget.py, BudgetLedger).
LEMMA LedgerTypes ==
  /\ Nothing \in Ledger /\ Estimate \in Ledger /\ AttemptOnly \in Ledger
  /\ \A a, b \in Ledger : Plus(a, b) \in Ledger /\ Minus(a, b) \in Ledger
  /\ \A b \in Budgets : Limits(b) \in Ledger
  /\ \A n \in Nat : NewConsumed(n) \in Ledger
<1>1. Nothing \in Ledger /\ Estimate \in Ledger
  BY DEF Nothing, Estimate, Ledger
<1>2. AttemptOnly \in Ledger /\ \A n \in Nat : NewConsumed(n) \in Ledger
  BY <1>1 DEF AttemptOnly, NewConsumed, Ledger
<1>3. \A a, b \in Ledger : Plus(a, b) \in Ledger /\ Minus(a, b) \in Ledger
  BY DEF Plus, Minus, Ledger
<1>4. ASSUME NEW b \in Budgets PROVE Limits(b) \in Ledger
  BY DEF Limits, Ledger
<1>5. QED
  BY <1>1, <1>2, <1>3, <1>4

\* Changing entries of a sequence of executions leaves one.
LEMMA ExecsTypes ==
  ASSUME NEW s \in Seq(Execution), NEW t, DOMAIN t = DOMAIN s, t = [n \in DOMAIN s |-> t[n]],
         \A n \in DOMAIN s : t[n] \in Execution
  PROVE  t \in Seq(Execution) /\ Len(t) = Len(s)
<1>1. Len(s) \in Nat /\ DOMAIN s = 1 .. Len(s)
  BY LenProperties
<1>2. t \in [1 .. Len(s) -> Execution]
  BY <1>1
<1>3. t \in Seq(Execution)
  BY <1>1, <1>2, SeqDef
<1>4. Len(t) = Len(s)
  BY <1>1, <1>3, LenProperties, SMT
<1>5. QED
  BY <1>3, <1>4

\* A new campaign's document is well typed and runs nothing (start).
LEMMA NewDocTypes ==
  ASSUME NEW b \in Budgets
  PROVE  NewDoc(b) \in RunningDoc
<1>1. NewDoc(b) \in Doc
  BY LedgerTypes DEF NewDoc, Doc, States
<1>2. QED
  BY <1>1 DEF NewDoc, RunningDoc

\* A process without an orchestrator is well typed.
LEMMA ClosedTypes ==
  /\ AnyBudget \in Budgets
  /\ Closed \in Orchestrator /\ Closed.doc \in RunningDoc
  /\ Closed.stage = "closed"
<1>1. AnyBudget \in Budgets
  BY DEF AnyBudget
<1>2. QED
  BY <1>1, NewDocTypes DEF Closed, Orchestrator, Stages, RunningDoc

\* A decision appends one record and nothing else.
LEMMA DecidedTypes ==
  ASSUME NEW doc \in Doc, NEW source \in {"round", "stop", "recovery"},
         NEW input \in Inputs \union {"none"}, NEW retry \in Nat,
         NEW result \in Phases \union StopReasons
  PROVE  /\ Decided(doc, source, input, retry, result) \in Doc
         /\ Decided(doc, source, input, retry, result).state = doc.state
         /\ Decided(doc, source, input, retry, result).execs = doc.execs
<1> DEFINE record == [source |-> source, input |-> input, retry |-> retry, result |-> result]
           longer == Append(doc.decisions, record)
<1>1. record \in Decision
  BY DEF Decision
<1>2. longer \in Seq(Decision)
  <2>1. doc.decisions \in Seq(Decision)
    BY DEF Doc
  <2> HIDE DEF record
  <2>2. QED
    BY <1>1, <2>1, AppendProperties
<1>3. Decided(doc, source, input, retry, result) = [doc EXCEPT !.decisions = longer]
  BY DEF Decided
<1> HIDE DEF longer
<1>4. [doc EXCEPT !.decisions = longer] \in Doc
  BY <1>2 DEF Doc
<1>5. /\ [doc EXCEPT !.decisions = longer].state = doc.state
      /\ [doc EXCEPT !.decisions = longer].execs = doc.execs
  BY DEF Doc
<1>6. QED
  BY <1>3, <1>4, <1>5

\* A stop leaves a well-typed document that executes nothing (_stop).
LEMMA StoppedTypes ==
  ASSUME NEW doc \in Doc, NEW reason \in StopReasons
  PROVE  Stopped(doc, reason) \in RunningDoc
<1>1. Decided(doc, "stop", "none", 0, reason) \in Doc
  BY DecidedTypes
<1>2. StopState(reason) \in States \ {"executing"}
  BY DEF StopState, States
<1>3. Stopped(doc, reason) \in Doc
  BY <1>1, <1>2 DEF Stopped, Doc
<1>4. Stopped(doc, reason).state = StopState(reason)
  BY <1>1 DEF Stopped, Doc
<1>5. QED
  BY <1>2, <1>3, <1>4 DEF RunningDoc

\* Merging the stored ledger with a new process's limits gives a ledger
\* (merge_restored).
LEMMA MergedTypes ==
  ASSUME NEW doc \in Doc, NEW b \in Budgets, NEW started \in Nat
  PROVE  Merged(doc, b, started) \in Doc
<1>1. /\ doc.limits \in Ledger /\ doc.consumed \in Ledger
      /\ Limits(b) \in Ledger /\ NewConsumed(started) \in Ledger /\ Nothing \in Ledger
  BY LedgerTypes DEF Doc
<1>2. [d \in Dimensions |-> IF Limits(b)[d] < doc.limits[d]
                            THEN Limits(b)[d] ELSE doc.limits[d]] \in Ledger
  BY <1>1 DEF Ledger
<1>3. [d \in Dimensions |-> IF NewConsumed(started)[d] > doc.consumed[d]
                            THEN NewConsumed(started)[d] ELSE doc.consumed[d]] \in Ledger
  BY <1>1 DEF Ledger
<1>4. QED
  BY <1>1, <1>2, <1>3 DEF Merged, Doc

\* Changing the phase of one run keeps the executions well typed.
LEMMA MarkedTypes ==
  ASSUME NEW s \in Seq(Execution), NEW n \in DOMAIN s, NEW phase \in Phases,
         NEW retryable \in BOOLEAN
  PROVE  /\ Marked(s, n, phase, retryable) \in Seq(Execution)
         /\ Len(Marked(s, n, phase, retryable)) = Len(s)
<1> DEFINE t == Marked(s, n, phase, retryable)
<1>1. DOMAIN t = DOMAIN s /\ t = [m \in DOMAIN s |-> t[m]]
  BY DEF Marked
<1>2. \A m \in DOMAIN s : s[m] \in Execution
  BY LenProperties, ElementOfSeq
<1>3. ASSUME NEW m \in DOMAIN s PROVE t[m] \in Execution
  BY <1>2 DEF Marked, Execution
<1> HIDE DEF t
<1>4. t \in Seq(Execution) /\ Len(t) = Len(s)
  BY <1>1, <1>3, ExecsTypes
<1>5. QED
  BY <1>4 DEF t

\* Unfinished runs are runs of the document.
LEMMA UnfinishedTypes ==
  ASSUME NEW doc \in Doc
  PROVE  Unfinished(doc) \subseteq DOMAIN doc.execs
  BY DEF Unfinished

\* A run of a document has an input and a retry number.
LEMMA ExecTypes ==
  ASSUME NEW doc \in Doc, NEW n \in DOMAIN doc.execs
  PROVE  /\ doc.execs \in Seq(Execution) /\ doc.execs[n] \in Execution
         /\ doc.execs[n].input \in Inputs /\ doc.execs[n].retry \in Nat
<1>1. doc.execs \in Seq(Execution)
  BY DEF Doc
<1>2. doc.execs[n] \in Execution
  BY <1>1, LenProperties, ElementOfSeq
<1>3. QED
  BY <1>1, <1>2 DEF Execution

\* Recovering an interrupted run keeps the document well typed (_restore).
LEMMA RecoveredTypes ==
  ASSUME NEW doc \in Doc
  PROVE  Recovered(doc) \in Doc
<1>1. CASE Unfinished(doc) = {}
  BY <1>1 DEF Recovered
<1>2. CASE Unfinished(doc) # {}
  <2> DEFINE n == CHOOSE m \in Unfinished(doc) : TRUE
             e == doc.execs[n]
             unknown == [doc EXCEPT !.execs = Marked(@, n, "unknown", TRUE),
                                    !.consumed = Plus(@, Estimate)]
  <2>1. n \in DOMAIN doc.execs
    BY <1>2, UnfinishedTypes
  <2>2. Recovered(doc) = Decided(unknown, "recovery", e.input, e.retry, "unknown")
    BY <1>2 DEF Recovered
  <2> HIDE DEF n
  <2>3. e.input \in Inputs /\ e.retry \in Nat /\ doc.execs \in Seq(Execution)
    BY <2>1, ExecTypes
  <2>4. Marked(doc.execs, n, "unknown", TRUE) \in Seq(Execution)
    BY <2>1, <2>3, MarkedTypes DEF Phases
  <2>5. Plus(doc.consumed, Estimate) \in Ledger
    BY LedgerTypes DEF Doc
  <2>6. unknown \in Doc
    BY <2>4, <2>5 DEF Doc
  <2>7. "unknown" \in Phases \union StopReasons
    BY DEF Phases
  <2> HIDE DEF e, unknown
  <2>8. Decided(unknown, "recovery", e.input, e.retry, "unknown") \in Doc
    BY <2>3, <2>6, <2>7, DecidedTypes, Zenon
  <2>9. QED
    BY <2>2, <2>8
<1>3. QED
  BY <1>1, <1>2

\* A restored document is well typed and executes nothing (_normalize).
LEMMA RestoredTypes ==
  ASSUME NEW doc \in Doc, NEW b \in Budgets, NEW started \in Nat
  PROVE  /\ Restored(doc, b, started) \in RunningDoc
         /\ Restored(doc, b, started).state # "executing"
<1> DEFINE before == Recovered(Merged(doc, b, started))
<1>1. before \in Doc
  BY MergedTypes, RecoveredTypes
<1> HIDE DEF before
<1>2. Normalized(before) \in Doc /\ Normalized(before).state # "executing"
  BY <1>1 DEF Normalized, Doc, States
<1>3. QED
  BY <1>2 DEF Restored, RunningDoc, before

\* Resuming it keeps it so (_maybe_resume).
LEMMA ResumedTypes ==
  ASSUME NEW doc \in RunningDoc, doc.state # "executing", NEW available
  PROVE  Resumed(doc, available) \in RunningDoc
<1>1. doc \in Doc /\ doc.execs \in Seq(Execution)
  BY DEF RunningDoc, Doc
<1>2. CASE ~ (doc.state = "stopped" /\ doc.stop \in Resumable)
  BY <1>2 DEF Resumed
<1>3. CASE doc.state = "stopped" /\ doc.stop \in Resumable
  <2> DEFINE s == doc.execs
             t == [n \in DOMAIN s |->
                     IF s[n].phase = "unavailable" /\ s[n].input \in available
                     THEN [s[n] EXCEPT !.phase = "superseded"] ELSE s[n]]
  <2>1. ASSUME NEW n \in DOMAIN s PROVE t[n] \in Execution
    <3>1. s[n] \in Execution
      BY <1>1, ExecTypes
    <3>2. QED
      BY <3>1 DEF Execution, Phases
  <2>2. t \in Seq(Execution)
    <3>1. DOMAIN t = DOMAIN s /\ t = [n \in DOMAIN s |-> t[n]] /\ s \in Seq(Execution)
      BY <1>1
    <3> HIDE DEF t, s
    <3>2. QED
      BY <2>1, <3>1, ExecsTypes
  <2>3. Resumed(doc, available) = [doc EXCEPT !.state = "planning", !.stop = "", !.execs = t]
    BY <1>3 DEF Resumed
  <2> HIDE DEF t
  <2>4. /\ [doc EXCEPT !.state = "planning", !.stop = "", !.execs = t] \in Doc
        /\ [doc EXCEPT !.state = "planning", !.stop = "", !.execs = t].state = "planning"
    BY <1>1, <2>2 DEF Doc, States
  <2>5. QED
    BY <2>3, <2>4 DEF RunningDoc
<1>4. QED
  BY <1>2, <1>3

\* Settling the run of an executing document leaves a well-typed document that
\* executes nothing (_run_round).
LEMMA ObservedTypes ==
  ASSUME NEW doc \in RunningDoc, doc.state = "executing",
         NEW result \in Results \union {"refused"}
  PROVE  Observed(doc, result) \in RunningDoc
<1> DEFINE n == Len(doc.execs)
           e == doc.execs[n]
           phase == Phase(result)
           after == [Settle(doc, Actual(result)) EXCEPT
                       !.state = "continue",
                       !.execs = Marked(@, n, phase, Retryable(result)),
                       !.health[e.input] = Health(@, phase)]
<1>1. doc \in Doc /\ n \in DOMAIN doc.execs
  <2>1. doc \in Doc /\ doc.execs \in Seq(Execution) /\ n > 0
    BY DEF RunningDoc, Doc
  <2>2. n \in Nat /\ DOMAIN doc.execs = 1 .. n
    BY <2>1, LenProperties
  <2>3. QED
    BY <2>1, <2>2
<1>2. /\ doc.execs \in Seq(Execution) /\ e.input \in Inputs /\ e.retry \in Nat
      /\ doc.health[e.input] \in Nat
  BY <1>1, ExecTypes DEF Doc
<1>3. phase \in Phases
  BY DEF Phase, Phases, AllResults
<1>4. Retryable(result) \in BOOLEAN
  BY DEF Retryable
<1>5. Marked(doc.execs, n, phase, Retryable(result)) \in Seq(Execution)
  BY <1>1, <1>2, <1>3, <1>4, MarkedTypes
<1>6. Health(doc.health[e.input], phase) \in Nat
  BY SMTT(20), <1>2 DEF Health
<1>7. Settle(doc, Actual(result)) \in Doc
  <2>1. Actual(result) \in Ledger
    BY LedgerTypes DEF Actual
  <2>2. /\ Minus(doc.reserved, Estimate) \in Ledger
        /\ Plus(doc.consumed, Actual(result)) \in Ledger
    BY <1>1, <2>1, LedgerTypes DEF Doc
  <2>3. QED
    BY <1>1, <2>2 DEF Settle, Doc
<1>8. /\ Settle(doc, Actual(result)).execs = doc.execs
      /\ Settle(doc, Actual(result)).health = doc.health
  BY <1>1 DEF Settle, Doc
<1> HIDE DEF n, e, phase
<1>9. after \in Doc /\ after.state = "continue"
  BY <1>2, <1>5, <1>6, <1>7, <1>8 DEF Doc, States
<1>10. Observed(doc, result) = Decided(after, "round", e.input, e.retry, phase)
  BY DEF Observed, n, e, phase
<1> HIDE DEF after
<1>11. /\ Decided(after, "round", e.input, e.retry, phase) \in Doc
       /\ Decided(after, "round", e.input, e.retry, phase).state = "continue"
  <2>1. phase \in Phases \union StopReasons /\ e.input \in Inputs \union {"none"}
    BY <1>2, <1>3
  <2> DEFINE decided == Decided(after, "round", e.input, e.retry, phase)
  <2>2. after \in Doc /\ e.retry \in Nat /\ "round" \in {"round", "stop", "recovery"}
    BY <1>2, <1>9
  <2>3. decided \in Doc
    BY <2>1, <2>2, DecidedTypes, Zenon
  <2>4. decided.state = after.state
    BY <2>2 DEF Decided, Doc
  <2> HIDE DEF decided
  <2>5. QED
    BY <1>9, <2>3, <2>4 DEF decided
<1>12. QED
  BY <1>10, <1>11 DEF RunningDoc

-----------------------------------------------------------------------------
(* Type correctness *)

\* What a process holds: while its engine runs, the document is executing.
Holder ==
  {o \in Orchestrator : /\ o.doc \in RunningDoc
                        /\ o.stage = "calling" => o.doc.state = "executing"}

\* The inductive invariant: an engine is only called from a document whose
\* last execution is the run, so that settling it finds the record.
TypeInv == TypeOK /\ obj \in [Procs -> Holder]

\* The parts of what a process holds.
LEMMA HolderTypes ==
  ASSUME TypeInv, NEW p \in Procs
  PROVE  /\ obj[p] \in Holder /\ obj[p] \in Orchestrator
         /\ obj[p].doc \in RunningDoc /\ obj[p].doc \in Doc
         /\ obj[p].rev \in Nat /\ obj[p].started \in Nat /\ obj[p].budget \in Budgets
         /\ Closed \in Holder
         /\ row.doc \in Doc /\ row.rev \in Nat
  BY ClosedTypes DEF TypeInv, TypeOK, Holder, RunningDoc, Orchestrator

\* A call that saves leaves a well-typed orchestrator.
LEMMA SaveTypes ==
  ASSUME TypeInv, NEW p \in Procs, NEW doc \in RunningDoc,
         NEW op \in {"step", "halt", "retry"}, Save(p, op, doc)
  PROVE  obj' \in [Procs -> Holder]
<1>1. obj[p] \in Orchestrator /\ doc \in Doc
  BY HolderTypes DEF RunningDoc
<1> DEFINE o == [obj[p] EXCEPT !.stage = "saving", !.op = op, !.doc = doc]
<1>2. o \in Orchestrator /\ o.doc = doc /\ o.stage = "saving"
  BY <1>1 DEF Orchestrator, Stages
<1>3. o \in Holder
  BY <1>2 DEF Holder
<1>4. obj' = [obj EXCEPT ![p] = o]
  BY DEF Save, TypeInv
<1> HIDE DEF o
<1>5. QED
  BY <1>3, <1>4 DEF TypeInv

\* So does a save that is reported as failed.
LEMMA RaisedTypes ==
  ASSUME TypeInv, NEW p \in Procs, NEW conflict \in BOOLEAN, Raised(p, conflict)
  PROVE  obj' \in [Procs -> Holder]
<1> DEFINE o == [obj[p] EXCEPT !.stage = "idle"]
<1>1. o \in Orchestrator /\ o.doc = obj[p].doc /\ o.stage = "idle"
  BY HolderTypes DEF Orchestrator, Stages
<1>2. o \in Holder
  BY <1>1, HolderTypes DEF Holder
<1> HIDE DEF o
<1>3. CASE obj' = [obj EXCEPT ![p] = o]
  BY <1>2, <1>3 DEF TypeInv
<1>4. CASE obj' = [obj EXCEPT ![p] = Closed]
  BY <1>4, HolderTypes DEF TypeInv
<1>5. QED
  BY <1>3, <1>4 DEF Raised, o

\* And a save that went through.
LEMMA SavedTypes ==
  ASSUME TypeInv, NEW p \in Procs, NEW stage \in {"calling", "idle"},
         stage = "calling" => obj[p].doc.state = "executing", Saved(p, stage)
  PROVE  obj' \in [Procs -> Holder]
<1> DEFINE o == [obj[p] EXCEPT !.stage = stage, !.rev = obj[p].rev + 1]
<1>1. o \in Orchestrator /\ o.doc = obj[p].doc /\ o.stage = stage
  <2>1. obj[p] \in Orchestrator /\ obj[p].rev + 1 \in Nat
    BY HolderTypes
  <2>2. QED
    BY <2>1 DEF Orchestrator, Stages
<1>2. o \in Holder
  BY <1>1, HolderTypes DEF Holder
<1>3. obj' = [obj EXCEPT ![p] = o]
  BY DEF Saved, TypeInv
<1> HIDE DEF o
<1>4. QED
  BY <1>2, <1>3 DEF TypeInv

\* Writing keeps the tables well typed.
LEMMA WriteTypes ==
  ASSUME TypeInv, NEW p \in Procs, Write(p)
  PROVE  row' \in [rev : Nat, doc : Doc] /\ history' \in Seq(Decision)
<1>1. row' \in [rev : Nat, doc : Doc]
  BY HolderTypes DEF Write
<1>2. obj[p].doc.decisions \in Seq(Decision)
  BY HolderTypes DEF Doc
<1>3. history' \in Seq(Decision)
  BY <1>2 DEF Write, TypeInv, TypeOK
<1>4. QED
  BY <1>1, <1>3

\* The retry number of a run is a number: a document has finitely many runs.
LEMMA SupersededTypes ==
  ASSUME NEW doc \in Doc, NEW i \in Inputs
  PROVE  Superseded(doc, i) \in Nat
<1>1. doc.execs \in Seq(Execution)
  BY DEF Doc
<1>2. IsFiniteSet(DOMAIN doc.execs)
  <2>1. Len(doc.execs) \in Nat /\ DOMAIN doc.execs = 1 .. Len(doc.execs)
    BY <1>1, LenProperties
  <2>2. 1 \in Int /\ Len(doc.execs) \in Int
    BY <2>1
  <2>3. IsFiniteSet(1 .. Len(doc.execs))
    BY <2>2, FS_Interval, Zenon
  <2>4. QED
    BY <2>1, <2>3
<1>3. IsFiniteSet({n \in DOMAIN doc.execs :
                     doc.execs[n].phase = "superseded" /\ doc.execs[n].input = i})
  BY <1>2, FS_Subset
<1>4. QED
  BY <1>3, FS_CardinalityType DEF Superseded

\* Recording a start leaves a document with a run to execute.
LEMMA StartTypes ==
  ASSUME NEW doc \in Doc, NEW i \in Inputs
  PROVE  [Reserve(doc) EXCEPT
            !.state = "executing",
            !.execs = Append(@, [input |-> i, retry |-> Superseded(doc, i),
                                 phase |-> "started", retryable |-> FALSE])] \in RunningDoc
<1> DEFINE e == [input |-> i, retry |-> Superseded(doc, i),
                 phase |-> "started", retryable |-> FALSE]
           longer == Append(doc.execs, e)
           after == [Reserve(doc) EXCEPT !.state = "executing", !.execs = longer]
<1>1. e \in Execution
  BY SupersededTypes DEF Execution, Phases
<1>2. longer \in Seq(Execution) /\ Len(longer) > 0
  <2>1. doc.execs \in Seq(Execution) /\ Len(doc.execs) \in Nat
    BY LenProperties DEF Doc
  <2> HIDE DEF e
  <2>2. longer \in Seq(Execution) /\ Len(longer) = Len(doc.execs) + 1
    BY <1>1, <2>1, AppendProperties
  <2>3. QED
    BY <2>1, <2>2
<1>3. Reserve(doc) \in Doc /\ Reserve(doc).execs = doc.execs
  <2>1. Plus(doc.reserved, Estimate) \in Ledger
    BY LedgerTypes DEF Doc
  <2>2. QED
    BY <2>1 DEF Reserve, Doc
<1>4. after = [Reserve(doc) EXCEPT
                 !.state = "executing",
                 !.execs = Append(@, [input |-> i, retry |-> Superseded(doc, i),
                                      phase |-> "started", retryable |-> FALSE])]
  BY <1>3
<1> HIDE DEF longer
<1>5. after \in Doc /\ after.execs = longer
  BY <1>2, <1>3 DEF Doc, States
<1>6. QED
  BY <1>2, <1>4, <1>5 DEF RunningDoc

\* Every action of a process leaves it a well-typed orchestrator.
LEMMA HoldersStay ==
  ASSUME TypeInv, NEW p \in Procs, Step(p) \/ Operator(p) \/ Store(p) \/ Crash(p)
  PROVE  obj' \in [Procs -> Holder]
<1>1. CASE StepStops(p)
  <2>1. \A rejections : Blocking(rejections) \in StopReasons
    BY DEF Blocking, StopReasons
  <2>2. PICK reason \in StopReasons : Save(p, "step", Stopped(obj[p].doc, reason))
    BY <1>1, <2>1 DEF StepStops, StopReasons
  <2>3. QED
    BY <2>2, HolderTypes, StoppedTypes, SaveTypes
<1>2. CASE StepRuns(p)
  BY <1>2, HolderTypes, StartTypes, SaveTypes DEF StepRuns
<1>3. CASE StepFails(p)
  <2>1. [obj[p].doc EXCEPT !.state = "failed"] \in RunningDoc
    BY HolderTypes DEF RunningDoc, Doc, States
  <2>2. QED
    BY <1>3, <2>1, SaveTypes DEF StepFails
<1>4. CASE CallEngine(p)
  <2> DEFINE o == obj[p]
  <2>1. o.doc \in RunningDoc /\ o.doc.state = "executing" /\ o \in Orchestrator
    BY <1>4, HolderTypes DEF CallEngine, Holder
  <2>2. PICK result \in ResultsOf(o), redundant \in BOOLEAN :
          obj' = [obj EXCEPT ![p] =
                    [o EXCEPT !.stage = "saving",
                              !.doc = IF redundant
                                      THEN Stopped(Observed(o.doc, result), "redundant_evidence")
                                      ELSE Observed(o.doc, result),
                              !.started = IF Executed(result) THEN @ + 1 ELSE @]]
    BY <1>4 DEF CallEngine
  <2>3. Observed(o.doc, result) \in RunningDoc
    BY <2>1, ObservedTypes DEF ResultsOf
  <2>4. Stopped(Observed(o.doc, result), "redundant_evidence") \in RunningDoc
    BY <2>3, StoppedTypes DEF RunningDoc, StopReasons
  <2> DEFINE doc == IF redundant THEN Stopped(Observed(o.doc, result), "redundant_evidence")
                    ELSE Observed(o.doc, result)
             started == IF Executed(result) THEN o.started + 1 ELSE o.started
             after == [o EXCEPT !.stage = "saving", !.doc = doc, !.started = started]
  <2>5. doc \in RunningDoc /\ doc \in Doc
    BY <2>3, <2>4 DEF RunningDoc
  <2>6. started \in Nat
    BY HolderTypes
  <2>7. obj' = [obj EXCEPT ![p] = after]
    BY <2>2
  <2> HIDE DEF doc, started, o
  <2>8. after \in Orchestrator /\ after.doc = doc /\ after.stage = "saving"
    BY <2>1, <2>5, <2>6 DEF Orchestrator, Stages
  <2>9. after \in Holder
    BY <2>5, <2>8 DEF Holder
  <2> HIDE DEF after
  <2>10. QED
    BY <2>7, <2>9 DEF TypeInv
<1>5. CASE Open(p)
  <2>1. PICK b \in Budgets :
          obj' = [obj EXCEPT ![p] =
                    [Closed EXCEPT
                       !.stage = "saving", !.budget = b, !.rev = row.rev,
                       !.doc = IF row.rev = 0 THEN NewDoc(b) ELSE Restored(row.doc, b, 0)]]
    BY <1>5 DEF Open
  <2> DEFINE doc == IF row.rev = 0 THEN NewDoc(b) ELSE Restored(row.doc, b, 0)
             after == [Closed EXCEPT !.stage = "saving", !.budget = b, !.rev = row.rev,
                                     !.doc = doc]
  <2>2. doc \in RunningDoc /\ doc \in Doc
    BY HolderTypes, NewDocTypes, RestoredTypes DEF RunningDoc
  <2>3. obj' = [obj EXCEPT ![p] = after]
    BY <2>1
  <2> HIDE DEF doc
  <2>4. after \in Orchestrator /\ after.doc = doc /\ after.stage = "saving"
    BY <2>2, HolderTypes, ClosedTypes DEF Orchestrator, Stages
  <2>5. after \in Holder
    BY <2>2, <2>4 DEF Holder
  <2> HIDE DEF after
  <2>6. QED
    BY <2>3, <2>5 DEF TypeInv
<1>6. CASE Resume(p)
  <2> DEFINE o == obj[p]
             restored == Restored(row.doc, o.budget, o.started)
  <2>1. PICK available \in SUBSET Inputs :
          obj' = [obj EXCEPT ![p] =
                    [o EXCEPT !.stage = "saving", !.op = "resume", !.rev = row.rev,
                              !.doc = Resumed(restored, available)]]
    BY <1>6 DEF Resume
  <2> DEFINE doc == Resumed(restored, available)
             after == [o EXCEPT !.stage = "saving", !.op = "resume", !.rev = row.rev,
                                !.doc = doc]
  <2>2. restored \in RunningDoc /\ restored.state # "executing"
    BY HolderTypes, RestoredTypes
  <2>3. doc \in RunningDoc /\ doc \in Doc
    <3> HIDE DEF restored
    <3>1. doc \in RunningDoc
      BY <2>2, ResumedTypes
    <3>2. QED
      BY <3>1 DEF RunningDoc
  <2>4. obj' = [obj EXCEPT ![p] = after] /\ o \in Orchestrator /\ row.rev \in Nat
    BY <2>1, HolderTypes
  <2> HIDE DEF doc, o
  <2>5. after \in Orchestrator /\ after.doc = doc /\ after.stage = "saving"
    BY <2>3, <2>4 DEF Orchestrator, Stages
  <2>6. after \in Holder
    BY <2>3, <2>5 DEF Holder
  <2> HIDE DEF after
  <2>7. QED
    BY <2>4, <2>6 DEF TypeInv
<1>7. CASE Halt(p)
  BY <1>7, HolderTypes, StoppedTypes, SaveTypes DEF Halt, StopReasons
<1>8. CASE GrantRetry(p)
  <2> DEFINE doc == obj[p].doc
             resumed == doc.state = "stopped" /\ doc.stop \in Resumable
  <2>1. PICK n \in DOMAIN doc.execs :
          Save(p, "retry",
               [doc EXCEPT !.execs = Marked(@, n, "superseded", FALSE),
                           !.state = IF resumed THEN "planning" ELSE @,
                           !.stop = IF resumed THEN "" ELSE @])
    BY <1>8 DEF GrantRetry
  <2>2. doc \in RunningDoc /\ doc \in Doc /\ doc.execs \in Seq(Execution)
    BY HolderTypes DEF Doc
  <2> DEFINE execs == Marked(doc.execs, n, "superseded", FALSE)
             after == [doc EXCEPT !.execs = execs,
                                  !.state = IF resumed THEN "planning" ELSE @,
                                  !.stop = IF resumed THEN "" ELSE @]
  <2>3. execs \in Seq(Execution) /\ Len(execs) = Len(doc.execs)
    BY <2>2, MarkedTypes DEF Phases
  <2>4. Save(p, "retry", after)
    BY <2>1
  <2> HIDE DEF execs, doc
  <2>5. after \in Doc /\ after.execs = execs
    BY <2>2, <2>3 DEF Doc, States
  <2>6. after.state = "executing" => doc.state = "executing"
    BY <2>2 DEF Doc
  <2>7. after \in RunningDoc
    BY <2>2, <2>3, <2>5, <2>6 DEF RunningDoc
  <2> HIDE DEF after
  <2>8. QED
    BY <2>4, <2>7, SaveTypes
<1>9. CASE SaveReads(p)
  <2>1. CASE obj' = [obj EXCEPT ![p].stage = "committing"]
    <3> DEFINE o == [obj[p] EXCEPT !.stage = "committing"]
    <3>1. o \in Orchestrator /\ o.doc = obj[p].doc /\ o.stage = "committing"
      BY HolderTypes DEF Orchestrator, Stages
    <3>2. o \in Holder
      BY <3>1, HolderTypes DEF Holder
    <3>3. obj' = [obj EXCEPT ![p] = o]
      BY <2>1 DEF TypeInv
    <3> HIDE DEF o
    <3>4. QED
      BY <3>2, <3>3 DEF TypeInv
  <2>2. CASE Raised(p, TRUE)
    BY <2>2, RaisedTypes
  <2>3. QED
    BY <1>9, <2>1, <2>2 DEF SaveReads
<1>10. CASE SaveCommits(p)
  BY <1>10, SavedTypes, RaisedTypes DEF SaveCommits
<1>11. CASE SaveFails(p)
  <2>1. CASE Raised(p, FALSE)
    BY <2>1, RaisedTypes
  <2>2. CASE obj' = [obj EXCEPT ![p] = Closed]
    BY <2>2, HolderTypes DEF TypeInv
  <2>3. CASE Saved(p, "idle")
    BY <2>3, SavedTypes
  <2>4. QED
    BY <1>11, <2>1, <2>2, <2>3 DEF SaveFails
<1>12. CASE Crash(p)
  BY <1>12, HolderTypes DEF Crash, TypeInv
<1>13. QED
  BY <1>1, <1>2, <1>3, <1>4, <1>5, <1>6, <1>7, <1>8, <1>9, <1>10, <1>11, <1>12
  DEF Step, Operator, Store

\* The tables and the counters keep their types in every step.
LEMMA TablesStay ==
  ASSUME TypeInv, NEW p \in Procs, Step(p) \/ Operator(p) \/ Store(p) \/ Crash(p)
  PROVE  /\ row' \in [rev : Nat, doc : Doc] /\ history' \in Seq(Decision)
         /\ opens' \in Nat /\ resumes' \in Nat /\ faults' \in Nat
<1>1. CASE UNCHANGED db /\ UNCHANGED counters
  BY <1>1 DEF TypeInv, TypeOK, db, counters
<1>2. CASE Open(p) \/ Resume(p)
  <2>1. opens \in Nat /\ resumes \in Nat /\ faults \in Nat
    BY DEF TypeInv, TypeOK
  <2>2. opens' \in Nat /\ resumes' \in Nat /\ faults' \in Nat
    <3>1. CASE Open(p)
      <4>1. opens' = opens + 1 /\ resumes' = resumes /\ faults' = faults
        BY <3>1 DEF Open
      <4>2. QED
        BY <2>1, <4>1
    <3>2. CASE Resume(p)
      <4>1. resumes' = resumes + 1 /\ opens' = opens /\ faults' = faults
        BY <3>2 DEF Resume
      <4>2. QED
        BY <2>1, <4>1
    <3>3. QED
      BY <1>2, <3>1, <3>2
  <2>3. row' = row /\ history' = history
    BY <1>2 DEF Open, Resume, db
  <2>4. QED
    BY <2>2, <2>3 DEF TypeInv, TypeOK
<1>3. CASE SaveCommits(p)
  BY <1>3, WriteTypes DEF TypeInv, TypeOK, SaveCommits, db, counters
<1>4. CASE SaveFails(p)
  <2>1. opens \in Nat /\ resumes \in Nat /\ faults \in Nat
    BY DEF TypeInv, TypeOK
  <2>2. opens' \in Nat /\ resumes' \in Nat /\ faults' \in Nat
    BY <1>4, <2>1 DEF SaveFails
  <2>3. Write(p) \/ (row' = row /\ history' = history)
    BY <1>4 DEF SaveFails, db
  <2>4. QED
    BY <2>2, <2>3, WriteTypes DEF TypeInv, TypeOK
<1>5. QED
  BY <1>1, <1>2, <1>3, <1>4
  DEF Step, Operator, Store, StepStops, StepRuns, StepFails, CallEngine, Halt,
      GrantRetry, SaveReads, Crash

\* A run is recorded with the key of the execution whose start was saved.
LEMMA RunsStay ==
  ASSUME TypeInv, NEW p \in Procs, Step(p) \/ Operator(p) \/ Store(p) \/ Crash(p)
  PROVE  runs' \in Seq(Run)
<1>1. CASE UNCHANGED runs
  BY <1>1 DEF TypeInv, TypeOK
<1>2. CASE CallEngine(p)
  <2> DEFINE doc == obj[p].doc
             n == Len(doc.execs)
             e == doc.execs[n]
  <2>1. doc \in Doc /\ doc.execs \in Seq(Execution) /\ n > 0
    BY <1>2, HolderTypes DEF CallEngine, Holder, RunningDoc, Doc
  <2>2. n \in DOMAIN doc.execs
    BY <2>1, LenProperties
  <2>3. e.input \in Inputs /\ e.retry \in Nat
    BY <2>1, <2>2, ExecTypes
  <2>4. PICK executed \in BOOLEAN :
          runs' = Append(runs, [input |-> e.input, retry |-> e.retry, executed |-> executed])
    BY <1>2 DEF CallEngine, Executed
  <2> DEFINE run == [input |-> e.input, retry |-> e.retry, executed |-> executed]
  <2>5. run \in Run /\ runs' = Append(runs, run)
    BY <2>3, <2>4 DEF Run
  <2> HIDE DEF run
  <2>6. QED
    BY <2>5, AppendProperties DEF TypeInv, TypeOK
<1>3. QED
  BY <1>1, <1>2
  DEF Step, Operator, Store, StepStops, StepRuns, StepFails, Open, Resume, Halt,
      GrantRetry, SaveReads, SaveCommits, SaveFails, Crash

\* The initial state satisfies the inductive invariant.
LEMMA InitType == Init => TypeInv
<1> SUFFICES ASSUME Init PROVE TypeInv
  OBVIOUS
<1>1. row \in [rev : Nat, doc : Doc]
  BY ClosedTypes, NewDocTypes DEF Init, RunningDoc
<1>2. obj \in [Procs -> Orchestrator] /\ obj \in [Procs -> Holder]
  BY ClosedTypes DEF Init, Holder
<1>3. history \in Seq(Decision) /\ runs \in Seq(Run)
  BY DEF Init
<1>4. QED
  BY <1>1, <1>2, <1>3 DEF Init, TypeInv, TypeOK

\* Every step keeps it.
LEMMA NextType == TypeInv /\ [Next]_vars => TypeInv'
<1> SUFFICES ASSUME TypeInv, [Next]_vars PROVE TypeInv'
  OBVIOUS
<1>1. CASE Next
  <2>1. PICK p \in Procs : Step(p) \/ Operator(p) \/ Store(p) \/ Crash(p)
    BY <1>1 DEF Next
  <2>2. obj' \in [Procs -> Holder]
    BY <2>1, HoldersStay
  <2>3. obj' \in [Procs -> Orchestrator]
    BY <2>2 DEF Holder
  <2>4. QED
    BY <2>1, <2>2, <2>3, TablesStay, RunsStay DEF TypeInv, TypeOK
<1>2. CASE UNCHANGED vars
  BY <1>2 DEF TypeInv, TypeOK, vars
<1>3. QED
  BY <1>1, <1>2

\* Type correctness of the orchestrator: in particular, an engine call always
\* finds the write-ahead record of its run (_run_round).
THEOREM TypeCorrect == Spec => []TypeOK
<1>1. TypeInv => TypeOK
  BY DEF TypeInv
<1>2. QED
  BY <1>1, InitType, NextType, PTL DEF Spec

-----------------------------------------------------------------------------
(* The decision rows and the document *)

HistoryInv == TypeInv /\ HistoryIsConsistent

\* Writing a document that contradicts no decision row keeps both consistent,
\* although the revision may be stale by then.
LEMMA WriteIsConsistent ==
  ASSUME HistoryInv, NEW p \in Procs, Storable(p), Write(p)
  PROVE  HistoryIsConsistent'
<1> DEFINE decisions == obj[p].doc.decisions
<1>1. decisions \in Seq(Decision) /\ history \in Seq(Decision)
  BY HolderTypes DEF HistoryInv, TypeInv, TypeOK, Doc
<1>2. Len(decisions) \in Nat /\ Len(history) \in Nat
  BY <1>1, LenProperties
<1>3. Agree(decisions, history) /\ row'.doc.decisions = decisions
  BY DEF Storable, Write
<1>4. history' = IF Len(decisions) > Len(history) THEN decisions ELSE history
  BY DEF Write
<1> HIDE DEF decisions
<1>5. CASE Len(decisions) > Len(history)
  BY <1>2, <1>3, <1>4, <1>5 DEF HistoryIsConsistent, Agree
<1>6. CASE ~ (Len(decisions) > Len(history))
  BY <1>2, <1>3, <1>4, <1>6 DEF HistoryIsConsistent, Agree
<1>7. QED
  BY <1>5, <1>6

\* Only a save that finds its decisions in agreement with the rows changes the
\* tables, so every step keeps both consistent.
LEMMA NextHistory == HistoryInv /\ [Next]_vars => HistoryInv'
<1> SUFFICES ASSUME HistoryInv, [Next]_vars PROVE HistoryInv'
  OBVIOUS
<1>1. TypeInv'
  BY NextType DEF HistoryInv
<1>2. CASE UNCHANGED db
  BY <1>1, <1>2 DEF HistoryInv, HistoryIsConsistent, db
<1>3. ASSUME NEW p \in Procs, Storable(p), Write(p) PROVE HistoryInv'
  BY <1>1, <1>3, WriteIsConsistent DEF HistoryInv
<1>4. QED
  BY <1>2, <1>3
  DEF Next, vars, db, Step, Operator, Store, StepStops, StepRuns, StepFails, CallEngine,
      Open, Resume, Halt, GrantRetry, SaveReads, SaveCommits, SaveFails, Crash

\* However many processes save the campaign, and whichever saves fail, the
\* stored document's decisions are a beginning of the decision rows
\* (save_campaign compares the rows before it commits).
THEOREM ConsistentHistory == Spec => []HistoryIsConsistent
<1>1. Init => HistoryInv
  <2> SUFFICES ASSUME Init PROVE HistoryInv
    OBVIOUS
  <2>1. row.doc.decisions = <<>> /\ history = <<>>
    BY DEF Init, NewDoc
  <2>2. HistoryIsConsistent
    BY <2>1 DEF HistoryIsConsistent, Agree
  <2>3. QED
    BY <2>2, InitType DEF HistoryInv
<1>2. HistoryInv => HistoryIsConsistent
  BY DEF HistoryInv
<1>3. QED
  BY <1>1, <1>2, NextHistory, PTL DEF Spec

-----------------------------------------------------------------------------
(* One orchestrator at a time.  The revision check is not part of the      *)
(* UPDATE, so two orchestrators of the campaign lose each other's rounds   *)
(* and spend a budget twice; what follows is about any number of processes *)
(* that open, lose and reopen it one after the other.  The code enforces   *)
(* this no more between processes than between the threads of one, since   *)
(* service.get builds and starts an orchestrator outside the campaign lock *)
(* and registers it afterwards: it is a hypothesis of every theorem below. *)
(*                                                                         *)
(* None of the properties is inductive: between the row and the next run   *)
(* lies the document in memory.  The strengthening says of it, and of the  *)
(* row, which keys have been used and what is paid for.                    *)

OneAtATime ==
  \A p, q \in Procs : obj[p].stage # "closed" /\ obj[q].stage # "closed" => p = q

SameKey(e, f) == e.input = f.input /\ e.retry = f.retry

\* Every run that reached an engine has its record in the document.
Recorded(doc, rs) ==
  \A n \in DOMAIN rs : \E m \in DOMAIN doc.execs : SameKey(doc.execs[m], rs[n])

\* The retry number of a superseded record has been counted past.
Numbered(doc) ==
  \A m \in DOMAIN doc.execs :
    LET e == doc.execs[m] IN
    /\ e.retry <= Superseded(doc, e.input)
    /\ e.phase = "superseded" => e.retry < Superseded(doc, e.input)

\* Of an executing document the last record is the run to come: its key is new
\* and the ledger has room for it.
Latest(doc) == doc.execs[Len(doc.execs)]

Announced(doc, rs) ==
  doc.state = "executing" =>
    /\ Latest(doc).phase = "started"
    /\ \A n \in DOMAIN rs : ~ SameKey(Latest(doc), rs[n])
    /\ doc.consumed["engines"] < doc.limits["engines"]

\* An operator's final stop is a stop.
StopsForGood(doc) == doc.stop = "operator_stopped" => doc.state = "stopped"

Paid(doc, rs) == ExecutedRuns(rs) <= doc.consumed["engines"]

\* What a restart will have paid: the interrupted run counts in full.
PaidAfterRecovery(doc, rs) ==
  ExecutedRuns(rs) <= doc.consumed["engines"]
                        + (IF Unfinished(doc) = {} THEN 0 ELSE 1)

\* A document in memory.
Sound(doc, rs) ==
  /\ Recorded(doc, rs) /\ Numbered(doc) /\ Announced(doc, rs)
  /\ StopsForGood(doc) /\ Paid(doc, rs)

\* A document in the row, whose last run may be over already.
Stored(doc, rs) ==
  /\ Recorded(doc, rs) /\ Numbered(doc)
  /\ StopsForGood(doc) /\ PaidAfterRecovery(doc, rs)

\* What a document in memory may have done since it was stored.
Continues(doc, stored) ==
  /\ \A d \in Dimensions : /\ doc.limits[d] <= stored.limits[d]
                           /\ doc.consumed[d] >= stored.consumed[d]
  /\ Ended(stored) => doc.state = stored.state /\ doc.stop = stored.stop

Fits(o, stored, rs) ==
  o.stage # "closed" =>
    /\ o.rev = stored.rev
    /\ o.rev = 0 => o.op = "open" /\ o.stage \in {"saving", "committing"}
    /\ Sound(o.doc, rs)
    /\ o.rev > 0 => Continues(o.doc, stored.doc)
    /\ o.stage = "calling" => o.doc = stored.doc

RoundInv ==
  /\ TypeInv
  /\ Stored(row.doc, runs)
  /\ row.rev = 0 => runs = <<>>
  /\ \A p \in Procs : Fits(obj[p], row, runs)
  /\ EachKeyRunsOnce

-----------------------------------------------------------------------------
(* Records and their keys *)

\* The executions of t are those of s, perhaps further superseded.
SameKeys(s, t) ==
  /\ DOMAIN t = DOMAIN s
  /\ \A n \in DOMAIN s : /\ SameKey(t[n], s[n])
                         /\ s[n].phase = "superseded" => t[n].phase = "superseded"

SupersededRuns(doc, i) ==
  {n \in DOMAIN doc.execs : doc.execs[n].phase = "superseded" /\ doc.execs[n].input = i}

\* A document has finitely many superseded runs, and their number is Superseded.
LEMMA SupersededFinite ==
  ASSUME NEW doc \in Doc, NEW i
  PROVE  /\ IsFiniteSet(SupersededRuns(doc, i))
         /\ Superseded(doc, i) = Cardinality(SupersededRuns(doc, i))
         /\ Superseded(doc, i) \in Nat
<1>1. doc.execs \in Seq(Execution)
  BY DEF Doc
<1>2. Len(doc.execs) \in Nat /\ DOMAIN doc.execs = 1 .. Len(doc.execs)
  BY <1>1, LenProperties
<1>3. 1 \in Int /\ Len(doc.execs) \in Int
  BY <1>2
<1>4. IsFiniteSet(DOMAIN doc.execs)
  BY <1>2, <1>3, FS_Interval, Zenon
<1>5. SupersededRuns(doc, i) \in SUBSET DOMAIN doc.execs
  BY DEF SupersededRuns
<1>6. IsFiniteSet(SupersededRuns(doc, i))
  BY <1>4, <1>5, FS_Subset, Zenon
<1>7. Superseded(doc, i) = Cardinality(SupersededRuns(doc, i))
  BY DEF Superseded, SupersededRuns
<1>8. QED
  BY <1>6, <1>7, FS_CardinalityType

\* Superseding more runs keeps the keys and counts past their retry numbers.
LEMMA KeysStay ==
  ASSUME NEW a \in Doc, NEW b \in Doc, NEW rs, SameKeys(a.execs, b.execs)
  PROVE  /\ Recorded(a, rs) => Recorded(b, rs)
         /\ Numbered(a) => Numbered(b)
<1>1. Recorded(a, rs) => Recorded(b, rs)
  BY DEF Recorded, SameKeys, SameKey
<1>2. ASSUME Numbered(a), NEW m \in DOMAIN b.execs
      PROVE  /\ b.execs[m].retry <= Superseded(b, b.execs[m].input)
             /\ b.execs[m].phase = "superseded" =>
                  b.execs[m].retry < Superseded(b, b.execs[m].input)
  <2> DEFINE i == b.execs[m].input
             S == SupersededRuns(a, i)
             T == SupersededRuns(b, i)
  <2>1. m \in DOMAIN a.execs /\ SameKey(b.execs[m], a.execs[m])
    BY DEF SameKeys
  <2>2. a.execs[m].retry \in Nat /\ b.execs[m].retry = a.execs[m].retry
    BY <2>1, ExecTypes DEF SameKey
  <2>3. /\ a.execs[m].retry <= Superseded(a, i)
        /\ a.execs[m].phase = "superseded" => a.execs[m].retry < Superseded(a, i)
    BY <1>2, <2>1 DEF Numbered, SameKey
  <2>4. S \in SUBSET T
    BY DEF SupersededRuns, SameKeys, SameKey
  <2>5. /\ IsFiniteSet(T)
        /\ Superseded(a, i) = Cardinality(S) /\ Superseded(a, i) \in Nat
        /\ Superseded(b, i) = Cardinality(T) /\ Superseded(b, i) \in Nat
    BY SupersededFinite
  <2>6. b.execs[m].phase = "superseded" /\ a.execs[m].phase # "superseded" => S # T
    BY <2>1 DEF SupersededRuns
  <2> HIDE DEF S, T, i
  <2>7. Cardinality(S) <= Cardinality(T) /\ (Cardinality(S) = Cardinality(T) => S = T)
    BY <2>4, <2>5, FS_Subset, Zenon
  <2>8. /\ a.execs[m].retry <= Superseded(b, i)
        /\ a.execs[m].phase = "superseded" => a.execs[m].retry < Superseded(b, i)
        /\ S # T => a.execs[m].retry < Superseded(b, i)
    BY <2>2, <2>3, <2>5, <2>7
  <2>9. QED
    BY <2>2, <2>6, <2>8 DEF i
<1>3. Numbered(a) => Numbered(b)
  BY <1>2 DEF Numbered
<1>4. QED
  BY <1>1, <1>3

\* Changing the phase of a run that is not superseded keeps all keys.
LEMMA MarkedKeys ==
  ASSUME NEW s \in Seq(Execution), NEW n \in DOMAIN s, NEW phase \in Phases,
         NEW retryable \in BOOLEAN, s[n].phase = "superseded" => phase = "superseded"
  PROVE  /\ SameKeys(s, Marked(s, n, phase, retryable))
         /\ Marked(s, n, phase, retryable)[n].phase = phase
         /\ \A m \in DOMAIN s \ {n} : Marked(s, n, phase, retryable)[m] = s[m]
<1>1. \A m \in DOMAIN s : s[m] \in Execution
  BY LenProperties, ElementOfSeq
<1>2. Marked(s, n, phase, retryable) =
        [s EXCEPT ![n] = [s[n] EXCEPT !.phase = phase, !.retryable = retryable]]
  BY <1>1 DEF Marked
<1>3. /\ [s[n] EXCEPT !.phase = phase, !.retryable = retryable].input = s[n].input
      /\ [s[n] EXCEPT !.phase = phase, !.retryable = retryable].retry = s[n].retry
      /\ [s[n] EXCEPT !.phase = phase, !.retryable = retryable].phase = phase
  BY <1>1 DEF Execution
<1>4. QED
  BY <1>2, <1>3 DEF SameKeys, SameKey

\* A further run costs one of the engine runs at most, and only if it executed.
LEMMA ExecutedGrows ==
  ASSUME NEW rs \in Seq(Run), NEW run \in Run
  PROVE  /\ ExecutedRuns(rs) \in Nat /\ ExecutedRuns(Append(rs, run)) \in Nat
         /\ ExecutedRuns(Append(rs, run)) <=
              ExecutedRuns(rs) + (IF run.executed THEN 1 ELSE 0)
<1> DEFINE more == Append(rs, run)
           k == Len(rs) + 1
           S == {n \in DOMAIN rs : rs[n].executed}
           T == {n \in DOMAIN more : more[n].executed}
<1>1. Len(rs) \in Nat /\ DOMAIN rs = 1 .. Len(rs)
  BY LenProperties
<1>2. /\ DOMAIN more = 1 .. k /\ more[k] = run
      /\ \A n \in 1 .. Len(rs) : more[n] = rs[n]
  <2>1. more \in Seq(Run) /\ Len(more) = k
    BY <1>1, AppendProperties
  <2>2. DOMAIN more = 1 .. Len(more)
    BY <2>1, LenProperties
  <2>3. QED
    BY <1>1, <2>1, <2>2, AppendProperties
<1>3. 1 \in Int /\ Len(rs) \in Int
  BY <1>1
<1>4. IsFiniteSet(DOMAIN rs) /\ S \in SUBSET DOMAIN rs
  BY <1>1, <1>3, FS_Interval, Zenon
<1>5. IsFiniteSet(S)
  BY <1>4, FS_Subset, Zenon
<1>6. T = IF run.executed THEN S \cup {k} ELSE S
  BY <1>1, <1>2
<1>7. k \notin S
  BY <1>1
<1>8. Cardinality(S) \in Nat
  BY <1>5, FS_CardinalityType
<1>9. Cardinality(S \cup {k}) = Cardinality(S) + 1
  <2> HIDE DEF S, k
  <2>1. QED
    BY <1>5, <1>7, FS_AddElement
<1>10. ExecutedRuns(rs) = Cardinality(S) /\ ExecutedRuns(more) = Cardinality(T)
  BY DEF ExecutedRuns
<1> HIDE DEF S, T, k, more
<1>11. CASE run.executed
  BY <1>6, <1>8, <1>9, <1>10, <1>11 DEF more
<1>12. CASE ~ run.executed
  BY <1>6, <1>8, <1>10, <1>12 DEF more
<1>13. QED
  BY <1>11, <1>12


\* The number of executed runs is a number.
LEMMA ExecutedIsNat ==
  ASSUME NEW rs \in Seq(Run)
  PROVE  ExecutedRuns(rs) \in Nat
<1> DEFINE S == {n \in DOMAIN rs : rs[n].executed}
<1>1. Len(rs) \in Nat /\ DOMAIN rs = 1 .. Len(rs)
  BY LenProperties
<1>2. 1 \in Int /\ Len(rs) \in Int
  BY <1>1
<1>3. IsFiniteSet(DOMAIN rs) /\ S \in SUBSET DOMAIN rs
  BY <1>1, <1>2, FS_Interval, Zenon
<1>4. IsFiniteSet(S)
  BY <1>3, FS_Subset, Zenon
<1>5. QED
  BY <1>4, FS_CardinalityType DEF ExecutedRuns
-----------------------------------------------------------------------------
(* The operators on documents *)

\* A document that keeps the executions, the limits and the consumption of a
\* sound one, and announces no run, is sound if it stops for good only by a stop.
LEMMA QuietSound ==
  ASSUME NEW a \in Doc, NEW b \in Doc, NEW rs, Sound(a, rs), SameKeys(a.execs, b.execs),
         b.consumed = a.consumed, b.state # "executing", StopsForGood(b)
  PROVE  Sound(b, rs)
  BY KeysStay DEF Sound, Announced, Paid

\* What a stop changes and what it does not (_stop).
LEMMA StoppedFields ==
  ASSUME NEW doc \in Doc, NEW reason \in StopReasons
  PROVE  LET after == Stopped(doc, reason) IN
         /\ after \in Doc /\ after.execs = doc.execs /\ after.limits = doc.limits
         /\ after.consumed = doc.consumed
         /\ after.state = StopState(reason) /\ after.stop = reason
<1> DEFINE decided == Decided(doc, "stop", "none", 0, reason)
<1>1. decided \in Doc
  BY DecidedTypes
<1>2. /\ decided.execs = doc.execs /\ decided.limits = doc.limits
      /\ decided.consumed = doc.consumed
  BY DEF Decided, Doc
<1>3. Stopped(doc, reason) =
        [decided EXCEPT !.state = StopState(reason), !.stop = reason]
  BY DEF Stopped
<1> HIDE DEF decided
<1>4. Stopped(doc, reason) \in Doc
  BY StoppedTypes DEF RunningDoc
<1>5. QED
  BY <1>1, <1>2, <1>3, <1>4 DEF Doc

\* A stopped document is sound; if it had not ended, it goes on from what is stored.
LEMMA StoppedSound ==
  ASSUME NEW doc \in Doc, NEW stored \in Doc, NEW rs, Sound(doc, rs),
         NEW reason \in StopReasons
  PROVE  /\ Sound(Stopped(doc, reason), rs)
         /\ Continues(doc, stored) /\ ~ Ended(doc) => Continues(Stopped(doc, reason), stored)
<1> DEFINE after == Stopped(doc, reason)
<1>1. /\ after \in Doc /\ after.execs = doc.execs /\ after.limits = doc.limits
      /\ after.consumed = doc.consumed
      /\ after.state = StopState(reason) /\ after.stop = reason
  BY StoppedFields
<1>2. after.state # "executing" /\ StopsForGood(after)
  BY <1>1 DEF StopState, StopsForGood
<1>3. SameKeys(doc.execs, after.execs)
  BY <1>1 DEF SameKeys, SameKey
<1>4. Continues(doc, stored) /\ ~ Ended(doc) => Continues(after, stored)
  BY <1>1 DEF Continues, Ended
<1> HIDE DEF after
<1>5. Sound(after, rs)
  BY <1>1, <1>2, <1>3, QuietSound
<1>6. QED
  BY <1>4, <1>5 DEF after

\* What the planner has asked before it lets an input run (_first_rejection).
LEMMA Runnable ==
  ASSUME NEW doc \in Doc, NEW i \in Inputs, Rejection(doc, i, "run") = ""
  PROVE  /\ \A m \in DOMAIN doc.execs :
              doc.execs[m].input = i /\ doc.execs[m].retry = Superseded(doc, i) =>
                doc.execs[m].phase = "superseded"
         /\ ~ Shortfall(doc)
<1>1. /\ "completed" \notin Previous(doc, i)
      /\ Previous(doc, i) \intersect AttemptedPhases = {}
      /\ Previous(doc, i) \intersect RefusedPhases = {}
      /\ ~ Shortfall(doc)
  BY DEF Rejection
<1>2. ASSUME NEW m \in DOMAIN doc.execs, doc.execs[m].input = i,
             doc.execs[m].retry = Superseded(doc, i)
      PROVE  doc.execs[m].phase = "superseded"
  <2>1. doc.execs[m].phase \in Previous(doc, i)
    BY <1>2 DEF Previous
  <2>2. doc.execs[m].phase \in Phases
    BY ExecTypes DEF Execution
  <2>3. doc.execs[m].phase \notin AttemptedPhases \union RefusedPhases
    BY <1>1, <2>1
  <2>4. QED
    BY <2>2, <2>3 DEF Phases, AttemptedPhases, RefusedPhases
<1>3. QED
  BY <1>1, <1>2

\* If the estimate fits, one more run of an engine is within the limit (BudgetLedger).
LEMMA RoomLeft ==
  ASSUME NEW doc \in Doc, ~ Shortfall(doc)
  PROVE  doc.consumed["engines"] < doc.limits["engines"]
<1>1. "engines" \in Dimensions
  BY DEF Dimensions
<1>2. ~ (1 > Remaining(doc, "engines"))
  BY <1>1 DEF Shortfall, Estimate
<1>3. /\ doc.limits["engines"] \in Nat /\ doc.consumed["engines"] \in Nat
      /\ doc.reserved["engines"] \in Nat
  BY <1>1 DEF Doc, Ledger
<1>4. Remaining(doc, "engines") =
        IF doc.limits["engines"] > doc.consumed["engines"] + doc.reserved["engines"]
        THEN doc.limits["engines"] - (doc.consumed["engines"] + doc.reserved["engines"])
        ELSE 0
  BY <1>1 DEF Remaining, Minus, Plus
<1>5. QED
  BY <1>2, <1>3, <1>4

\* An order fact about the numbers that are not spelled out.
LEMMA LessIsStrict == \A n \in Nat : n <= n /\ ~ (n < n)
  OBVIOUS

\* One more execution stands at the end; the others stay where they are.
LEMMA AppendedExecution ==
  ASSUME NEW s \in Seq(Execution), NEW e \in Execution
  PROVE  /\ Len(Append(s, e)) = Len(s) + 1
         /\ DOMAIN Append(s, e) = 1 .. Len(s) + 1
         /\ Append(s, e)[Len(s) + 1] = e
         /\ \A m \in DOMAIN s : m \in DOMAIN Append(s, e) /\ Append(s, e)[m] = s[m]
         /\ \A m \in DOMAIN Append(s, e) : m \in DOMAIN s \/ m = Len(s) + 1
         /\ Len(s) + 1 \notin DOMAIN s
<1>1. Append(s, e) \in Seq(Execution) /\ Len(Append(s, e)) = Len(s) + 1
  BY AppendProperties
<1>2. DOMAIN Append(s, e) = 1 .. Len(Append(s, e))
  BY <1>1, LenProperties
<1>3. Len(s) \in Nat /\ DOMAIN s = 1 .. Len(s)
  BY LenProperties
<1>4. QED
  BY <1>1, <1>2, <1>3, AppendProperties

\* The document of a start: one more record, with a key no run has.
LEMMA StartSound ==
  ASSUME NEW doc \in Doc, NEW stored \in Doc, NEW rs, Sound(doc, rs),
         doc.state \in {"created", "planning", "continue"},
         NEW i \in Inputs, Rejection(doc, i, "run") = ""
  PROVE  LET after == [Reserve(doc) EXCEPT
                         !.state = "executing",
                         !.execs = Append(@, [input |-> i, retry |-> Superseded(doc, i),
                                              phase |-> "started", retryable |-> FALSE])]
         IN  /\ Sound(after, rs)
             /\ Continues(doc, stored) => Continues(after, stored)
<1> DEFINE e == [input |-> i, retry |-> Superseded(doc, i),
                 phase |-> "started", retryable |-> FALSE]
           k == Len(doc.execs) + 1
           longer == Append(doc.execs, e)
           after == [Reserve(doc) EXCEPT !.state = "executing", !.execs = Append(@, e)]
<1>1. /\ after \in Doc /\ after.execs = longer /\ after.state = "executing"
      /\ after.stop = doc.stop /\ after.limits = doc.limits
      /\ after.consumed = doc.consumed
  <2>1. after \in Doc
    BY StartTypes DEF RunningDoc
  <2>2. QED
    BY <2>1 DEF Reserve, Doc
<1>2. e \in Execution
  BY SupersededTypes DEF Execution, Phases
<1>3. doc.execs \in Seq(Execution) /\ Len(doc.execs) \in Nat
      /\ DOMAIN doc.execs = 1 .. Len(doc.execs)
  BY LenProperties DEF Doc
<1>4. e.input = i /\ e.retry = Superseded(doc, i) /\ e.phase = "started"
  OBVIOUS
<1> HIDE DEF e
<1>5. /\ Len(longer) = k /\ DOMAIN longer = 1 .. k /\ longer[k] = e
      /\ \A m \in DOMAIN doc.execs : longer[m] = doc.execs[m]
  BY <1>2, <1>3, AppendedExecution
<1>6. /\ k \notin DOMAIN doc.execs
      /\ \A m \in DOMAIN longer : m \in DOMAIN doc.execs \/ m = k
      /\ \A m \in DOMAIN doc.execs : m \in DOMAIN longer
  BY <1>2, <1>3, AppendedExecution
<1>7. /\ Recorded(doc, rs) /\ Numbered(doc) /\ StopsForGood(doc) /\ Paid(doc, rs)
  BY DEF Sound
<1> HIDE DEF longer, after, k
<1>8. \A j : Superseded(after, j) = Superseded(doc, j)
  BY <1>1, <1>4, <1>5, <1>6 DEF Superseded
<1>9. Recorded(after, rs)
  BY <1>1, <1>5, <1>6, <1>7 DEF Recorded
<1>10. Numbered(after)
  <2>1. ASSUME NEW m \in DOMAIN longer
        PROVE  /\ longer[m].retry <= Superseded(doc, longer[m].input)
               /\ longer[m].phase = "superseded" =>
                    longer[m].retry < Superseded(doc, longer[m].input)
    <3>1. CASE m = k
      <4>1. longer[m] = e /\ Superseded(doc, i) \in Nat
        BY <1>5, <3>1, SupersededTypes
      <4>2. Superseded(doc, i) <= Superseded(doc, i)
        BY <4>1, LessIsStrict, Zenon
      <4>3. QED
        BY <1>4, <4>1, <4>2, Zenon
    <3>2. CASE m \in DOMAIN doc.execs
      BY <1>5, <1>7, <3>2 DEF Numbered
    <3>3. QED
      BY <1>6, <3>1, <3>2
  <2>2. QED
    BY <1>1, <1>8, <2>1 DEF Numbered
<1>11. Announced(after, rs)
  <2>1. Latest(after) = e
    BY <1>1, <1>5 DEF Latest
  <2>2. ASSUME NEW n \in DOMAIN rs, SameKey(e, rs[n]) PROVE FALSE
    <3>1. PICK m \in DOMAIN doc.execs : SameKey(doc.execs[m], rs[n])
      BY <1>7 DEF Recorded
    <3>2. doc.execs[m].input = i /\ doc.execs[m].retry = Superseded(doc, i)
      BY <1>4, <2>2, <3>1 DEF SameKey
    <3>3. doc.execs[m].phase = "superseded"
      BY <3>2, Runnable
    <3>4. doc.execs[m].retry < Superseded(doc, i)
      BY <1>7, <3>2, <3>3 DEF Numbered
    <3>5. Superseded(doc, i) < Superseded(doc, i) /\ Superseded(doc, i) \in Nat
      BY <3>2, <3>4, SupersededTypes
    <3>6. QED
      BY <3>5, LessIsStrict, Zenon
  <2>3. after.consumed["engines"] < after.limits["engines"]
    BY <1>1, Runnable, RoomLeft
  <2>4. QED
    BY <1>4, <2>1, <2>2, <2>3 DEF Announced
<1>12. StopsForGood(after) /\ Paid(after, rs)
  BY <1>1, <1>7 DEF StopsForGood, Paid
<1>13. Continues(doc, stored) => Continues(after, stored)
  BY <1>1, <1>7 DEF Continues, Ended, Terminal, StopsForGood
<1>14. QED
  BY <1>9, <1>10, <1>11, <1>12, <1>13 DEF Sound, after, e

\* A campaign that fails in the middle of a round is sound.
LEMMA FailedSound ==
  ASSUME NEW doc \in Doc, NEW stored \in Doc, NEW rs, Sound(doc, rs), doc.state = "executing"
  PROVE  LET after == [doc EXCEPT !.state = "failed"] IN
         /\ Sound(after, rs)
         /\ Continues(doc, stored) => Continues(after, stored)
<1> DEFINE after == [doc EXCEPT !.state = "failed"]
<1>1. /\ after \in Doc /\ after.execs = doc.execs /\ after.limits = doc.limits
      /\ after.consumed = doc.consumed /\ after.stop = doc.stop
      /\ after.state = "failed"
  BY DEF Doc, States
<1>2. doc.stop # "operator_stopped"
  BY DEF Sound, StopsForGood
<1>3. SameKeys(doc.execs, after.execs)
  BY <1>1 DEF SameKeys, SameKey
<1>4. Continues(doc, stored) => Continues(after, stored)
  BY <1>1, <1>2 DEF Continues, Ended, Terminal
<1> HIDE DEF after
<1>5. Sound(after, rs)
  BY <1>1, <1>2, <1>3, QuietSound DEF StopsForGood
<1>6. QED
  BY <1>4, <1>5 DEF after

\* One more run stands at the end; the others stay where they are.
LEMMA AppendedRun ==
  ASSUME NEW rs \in Seq(Run), NEW run \in Run
  PROVE  /\ DOMAIN Append(rs, run) = 1 .. Len(rs) + 1
         /\ Append(rs, run)[Len(rs) + 1] = run
         /\ \A n \in DOMAIN rs : Append(rs, run)[n] = rs[n]
         /\ \A n \in DOMAIN Append(rs, run) : n \in DOMAIN rs \/ n = Len(rs) + 1
         /\ Len(rs) + 1 \notin DOMAIN rs
<1>1. Append(rs, run) \in Seq(Run) /\ Len(Append(rs, run)) = Len(rs) + 1
  BY AppendProperties
<1>2. DOMAIN Append(rs, run) = 1 .. Len(Append(rs, run))
  BY <1>1, LenProperties
<1>3. Len(rs) \in Nat /\ DOMAIN rs = 1 .. Len(rs)
  BY LenProperties
<1>4. QED
  BY <1>1, <1>2, <1>3, AppendProperties

\* What the outcome of a run leaves in the document (_run_round): the record is
\* marked, the reservation settled, and the campaign goes on.
LEMMA ObservedFields ==
  ASSUME NEW doc \in RunningDoc, doc.state = "executing", Latest(doc).phase = "started",
         NEW result \in Results \union {"refused"}
  PROVE  LET after == Observed(doc, result) IN
         /\ after \in Doc /\ SameKeys(doc.execs, after.execs)
         /\ after.limits = doc.limits /\ after.consumed = Plus(doc.consumed, Actual(result))
         /\ after.state = "continue" /\ after.stop = doc.stop
<1> DEFINE n == Len(doc.execs)
           e == doc.execs[n]
           phase == Phase(result)
           marked == Marked(doc.execs, n, phase, Retryable(result))
           before == [Settle(doc, Actual(result)) EXCEPT
                        !.state = "continue",
                        !.execs = Marked(@, n, phase, Retryable(result)),
                        !.health[e.input] = Health(@, phase)]
<1>1. doc \in Doc /\ doc.execs \in Seq(Execution) /\ n > 0
  BY DEF RunningDoc, Doc
<1>2. n \in DOMAIN doc.execs
  <2>1. n \in Nat /\ DOMAIN doc.execs = 1 .. n
    BY <1>1, LenProperties
  <2>2. QED
    BY <1>1, <2>1
<1>3. e.phase = "started"
  BY DEF Latest
<1>4. phase \in Phases /\ Retryable(result) \in BOOLEAN
  BY DEF Phase, Phases, AllResults, Retryable
<1>5. SameKeys(doc.execs, marked)
  BY <1>1, <1>2, <1>3, <1>4, MarkedKeys
<1>6. /\ Settle(doc, Actual(result)).execs = doc.execs
      /\ Settle(doc, Actual(result)).limits = doc.limits
      /\ Settle(doc, Actual(result)).stop = doc.stop
      /\ Settle(doc, Actual(result)).consumed = Plus(doc.consumed, Actual(result))
      /\ DOMAIN Settle(doc, Actual(result)) = DOMAIN doc
  BY <1>1 DEF Settle, Doc
<1>7. Observed(doc, result) = Decided(before, "round", e.input, e.retry, phase)
  BY DEF Observed
<1> HIDE DEF n, e, phase
<1>8. /\ before.execs = marked /\ before.limits = doc.limits
      /\ before.stop = doc.stop /\ before.state = "continue"
      /\ before.consumed = Plus(doc.consumed, Actual(result))
      /\ DOMAIN before = DOMAIN doc
  BY <1>1, <1>6 DEF Doc
<1> HIDE DEF before
<1>9. LET after == Decided(before, "round", e.input, e.retry, phase) IN
      /\ after.execs = before.execs /\ after.limits = before.limits
      /\ after.stop = before.stop /\ after.state = before.state
      /\ after.consumed = before.consumed
  BY DEF Decided
<1>10. Observed(doc, result) \in Doc
  BY ObservedTypes DEF RunningDoc
<1>11. QED
  BY <1>5, <1>7, <1>8, <1>9, <1>10

\* A ledger that has paid for more has paid for no less.
LEMMA PlusGrows ==
  ASSUME NEW a \in Ledger, NEW b \in Ledger
  PROVE  /\ \A d \in Dimensions : a[d] \in Nat /\ Plus(a, b)[d] \in Nat /\ Plus(a, b)[d] >= a[d]
         /\ Plus(a, b)["engines"] = a["engines"] + b["engines"]
         /\ a["engines"] \in Nat /\ b["engines"] \in Nat
  BY DEF Plus, Ledger, Dimensions

\* The outcome of the run that was announced is recorded and paid for, in the
\* document in memory and, as the run it interrupts, in the row.
LEMMA ObservedSound ==
  ASSUME NEW doc \in RunningDoc, NEW rs \in Seq(Run), Sound(doc, rs),
         doc.state = "executing", NEW result \in Results \union {"refused"},
         NEW run \in Run, SameKey(Latest(doc), run),
         run.executed = (Executed(result) \/ result = "raised")
  PROVE  LET more == Append(rs, run) IN
         /\ Sound(Observed(doc, result), more)
         /\ Continues(Observed(doc, result), doc)
         /\ Stored(doc, more)
         /\ ExecutedRuns(more) <= doc.limits["engines"]
<1> DEFINE more == Append(rs, run)
           after == Observed(doc, result)
           k == Len(rs) + 1
<1>1. /\ doc \in Doc /\ doc.execs \in Seq(Execution)
      /\ Len(doc.execs) \in DOMAIN doc.execs
  <2>1. doc \in Doc /\ doc.execs \in Seq(Execution) /\ Len(doc.execs) > 0
    BY DEF RunningDoc, Doc
  <2>2. Len(doc.execs) \in Nat /\ DOMAIN doc.execs = 1 .. Len(doc.execs)
    BY <2>1, LenProperties
  <2>3. QED
    BY <2>1, <2>2
<1>2. /\ Latest(doc).phase = "started" /\ Recorded(doc, rs) /\ Numbered(doc)
      /\ StopsForGood(doc) /\ doc.stop # "operator_stopped"
      /\ ExecutedRuns(rs) <= doc.consumed["engines"]
      /\ doc.consumed["engines"] < doc.limits["engines"]
  BY DEF Sound, Announced, StopsForGood, Paid
<1>3. /\ after \in Doc /\ SameKeys(doc.execs, after.execs)
      /\ after.limits = doc.limits /\ after.consumed = Plus(doc.consumed, Actual(result))
      /\ after.state = "continue" /\ after.stop = doc.stop
  BY <1>2, ObservedFields
<1> HIDE DEF after
<1>4. /\ DOMAIN more = 1 .. k /\ more[k] = run
      /\ \A n \in DOMAIN rs : more[n] = rs[n]
      /\ \A n \in DOMAIN more : n \in DOMAIN rs \/ n = k
  BY AppendedRun
<1>5. /\ ExecutedRuns(rs) \in Nat /\ ExecutedRuns(more) \in Nat
      /\ ExecutedRuns(more) <= ExecutedRuns(rs) + (IF run.executed THEN 1 ELSE 0)
  BY ExecutedGrows
<1> HIDE DEF more, k
<1>6. Recorded(doc, more)
  <2>1. ASSUME NEW n \in DOMAIN more
        PROVE  \E m \in DOMAIN doc.execs : SameKey(doc.execs[m], more[n])
    <3>1. CASE n \in DOMAIN rs
      BY <1>2, <1>4, <3>1 DEF Recorded
    <3>2. CASE n = k
      BY <1>1, <1>4, <3>2 DEF Latest
    <3>3. QED
      BY <1>4, <3>1, <3>2
  <2>2. QED
    BY <2>1 DEF Recorded
<1>7. Recorded(after, more) /\ Numbered(after)
  BY <1>1, <1>2, <1>3, <1>6, KeysStay
<1>8. doc.limits \in Ledger /\ doc.consumed \in Ledger /\ Actual(result) \in Ledger
  BY <1>1, LedgerTypes DEF Doc, Actual
<1>9. /\ doc.consumed["engines"] \in Nat /\ doc.limits["engines"] \in Nat
      /\ after.consumed["engines"] = doc.consumed["engines"] + Actual(result)["engines"]
      /\ \A d \in Dimensions : /\ after.consumed[d] >= doc.consumed[d]
                               /\ after.limits[d] <= doc.limits[d]
  <2>1. "engines" \in Dimensions
    BY DEF Dimensions
  <2>2. \A d \in Dimensions : doc.limits[d] \in Nat
    BY <1>8 DEF Ledger
  <2>3. doc.consumed["engines"] \in Nat /\ doc.limits["engines"] \in Nat
    BY <1>8, <2>1 DEF Ledger
  <2>4. after.consumed["engines"] = doc.consumed["engines"] + Actual(result)["engines"]
    BY <1>3, <1>8, PlusGrows
  <2>5. \A d \in Dimensions : after.consumed[d] >= doc.consumed[d]
    BY <1>3, <1>8, PlusGrows
  <2>6. \A d \in Dimensions : after.limits[d] <= doc.limits[d]
    BY <1>3, <2>2, LessIsStrict, Zenon
  <2>7. QED
    BY <2>3, <2>4, <2>5, <2>6
<1>10. Actual(result)["engines"] = IF run.executed THEN 1 ELSE 0
  BY DEF Actual, Estimate, AttemptOnly, Nothing, Dimensions
<1>11. Paid(after, more)
  <2>1. ExecutedRuns(more) <= doc.consumed["engines"] + (IF run.executed THEN 1 ELSE 0)
    BY <1>2, <1>5, <1>9
  <2>2. QED
    BY <1>9, <1>10, <2>1 DEF Paid
<1>12. ExecutedRuns(more) <= doc.consumed["engines"] + 1
  BY <1>2, <1>5, <1>9
<1>13. Stored(doc, more)
  <2>1. Unfinished(doc) # {}
    BY <1>1, <1>2 DEF Unfinished, Latest
  <2>2. PaidAfterRecovery(doc, more)
    BY <1>12, <2>1 DEF PaidAfterRecovery
  <2>3. QED
    BY <1>2, <1>6, <2>2 DEF Stored
<1>14. ExecutedRuns(more) <= doc.limits["engines"]
  BY <1>2, <1>5, <1>9, <1>12
<1>15. Sound(after, more)
  BY <1>2, <1>3, <1>7, <1>11 DEF Sound, Announced, StopsForGood
<1>16. Continues(after, doc)
  BY <1>2, <1>9 DEF Continues, Ended, Terminal
<1>17. QED
  BY <1>13, <1>14, <1>15, <1>16 DEF after, more

\* The document of a new campaign.
LEMMA NewSound ==
  ASSUME NEW b \in Budgets
  PROVE  Sound(NewDoc(b), <<>>) /\ Stored(NewDoc(b), <<>>)
<1> DEFINE doc == NewDoc(b)
<1>1. /\ doc.execs = <<>> /\ doc.state = "created" /\ doc.stop = ""
      /\ doc.consumed["engines"] = 0
  BY DEF NewDoc, Nothing, Dimensions
<1>2. DOMAIN doc.execs = {}
  <2>1. DOMAIN <<>> = {}
    OBVIOUS
  <2>2. QED
    BY <1>1, <2>1, Zenon
<1>3. ExecutedRuns(<<>>) = 0
  <2>1. {n \in DOMAIN <<>> : <<>>[n].executed} = {}
    OBVIOUS
  <2>2. QED
    BY <2>1, FS_EmptySet DEF ExecutedRuns
<1> HIDE DEF doc
<1>4. Unfinished(doc) = {}
  BY <1>2 DEF Unfinished
<1>5. Paid(doc, <<>>)
  <2>1. 0 <= 0
    OBVIOUS
  <2>2. QED
    BY <1>1, <1>3, <2>1, Zenon DEF Paid
<1>6. PaidAfterRecovery(doc, <<>>)
  <2>1. 0 <= 0 + 0
    OBVIOUS
  <2>2. QED
    BY <1>1, <1>3, <1>4, <2>1, Zenon DEF PaidAfterRecovery
<1>7. Numbered(doc)
  BY <1>2 DEF Numbered
<1>8. Recorded(doc, <<>>)
  BY DEF Recorded
<1>9. Announced(doc, <<>>) /\ StopsForGood(doc)
  BY <1>1 DEF Announced, StopsForGood
<1>10. QED
  BY <1>5, <1>6, <1>7, <1>8, <1>9 DEF Sound, Stored, doc


-----------------------------------------------------------------------------
(* Restoring, resuming and retrying *)

\* Merging keeps the runs and the end; limits only fall, consumption only rises.
LEMMA MergedFields ==
  ASSUME NEW doc \in Doc, NEW b \in Budgets, NEW started \in Nat
  PROVE  LET after == Merged(doc, b, started) IN
         /\ after \in Doc /\ after.execs = doc.execs
         /\ after.state = doc.state /\ after.stop = doc.stop
         /\ \A d \in Dimensions : /\ after.limits[d] <= doc.limits[d]
                                  /\ after.consumed[d] >= doc.consumed[d]
<1> DEFINE limits == [d \in Dimensions |-> IF Limits(b)[d] < doc.limits[d]
                                           THEN Limits(b)[d] ELSE doc.limits[d]]
           consumed == [d \in Dimensions |-> IF NewConsumed(started)[d] > doc.consumed[d]
                                             THEN NewConsumed(started)[d]
                                             ELSE doc.consumed[d]]
<1>1. /\ Limits(b) \in Ledger /\ NewConsumed(started) \in Ledger
      /\ doc.limits \in Ledger /\ doc.consumed \in Ledger
  BY LedgerTypes DEF Doc
<1>2. \A d \in Dimensions : limits[d] <= doc.limits[d]
  BY <1>1 DEF Ledger
<1>3. \A d \in Dimensions : consumed[d] >= doc.consumed[d]
  BY <1>1 DEF Ledger
<1>4. Merged(doc, b, started) =
        [doc EXCEPT !.limits = limits, !.consumed = consumed, !.reserved = Nothing]
  BY DEF Merged
<1> HIDE DEF limits, consumed
<1>5. /\ Merged(doc, b, started).execs = doc.execs
      /\ Merged(doc, b, started).state = doc.state
      /\ Merged(doc, b, started).stop = doc.stop
      /\ Merged(doc, b, started).limits = limits
      /\ Merged(doc, b, started).consumed = consumed
  BY <1>4 DEF Doc
<1>6. QED
  BY <1>2, <1>3, <1>5, MergedTypes

\* What recovering an interrupted run changes (_restore).
LEMMA RecoveredFields ==
  ASSUME NEW doc \in Doc
  PROVE  LET after == Recovered(doc) IN
         /\ after \in Doc /\ SameKeys(doc.execs, after.execs)
         /\ after.state = doc.state /\ after.stop = doc.stop /\ after.limits = doc.limits
         /\ after.consumed = IF Unfinished(doc) = {} THEN doc.consumed
                                                     ELSE Plus(doc.consumed, Estimate)
<1>1. CASE Unfinished(doc) = {}
  BY <1>1 DEF Recovered, SameKeys, SameKey
<1>2. CASE Unfinished(doc) # {}
  <2> DEFINE n == CHOOSE m \in Unfinished(doc) : TRUE
             e == doc.execs[n]
             marked == Marked(doc.execs, n, "unknown", TRUE)
             unknown == [doc EXCEPT !.execs = Marked(@, n, "unknown", TRUE),
                                    !.consumed = Plus(@, Estimate)]
  <2>1. n \in Unfinished(doc)
    BY <1>2
  <2>2. Recovered(doc) = Decided(unknown, "recovery", e.input, e.retry, "unknown")
    BY <1>2 DEF Recovered
  <2> HIDE DEF n
  <2>3. n \in DOMAIN doc.execs /\ doc.execs[n].phase = "started"
    BY <2>1 DEF Unfinished
  <2>4. SameKeys(doc.execs, marked)
    <3>1. doc.execs \in Seq(Execution) /\ "unknown" \in Phases /\ TRUE \in BOOLEAN
      BY DEF Doc, Phases
    <3>2. QED
      BY <2>3, <3>1, MarkedKeys
  <2> HIDE DEF e
  <2>5. /\ unknown.execs = marked /\ unknown.state = doc.state /\ unknown.stop = doc.stop
        /\ unknown.limits = doc.limits /\ unknown.consumed = Plus(doc.consumed, Estimate)
    BY DEF Doc
  <2> HIDE DEF unknown, marked
  <2>6. LET after == Decided(unknown, "recovery", e.input, e.retry, "unknown") IN
        /\ after.execs = unknown.execs /\ after.state = unknown.state
        /\ after.stop = unknown.stop /\ after.limits = unknown.limits
        /\ after.consumed = unknown.consumed
    BY DEF Decided
  <2>7. QED
    BY <1>2, <2>2, <2>4, <2>5, <2>6, RecoveredTypes
<1>3. QED
  BY <1>1, <1>2

\* A process that reopens the campaign has a sound document that goes on from
\* the stored one: the interrupted run keeps its key and is paid for.
LEMMA RestoredSound ==
  ASSUME NEW doc \in Doc, NEW b \in Budgets, NEW started \in Nat, NEW rs \in Seq(Run),
         Stored(doc, rs), ExecutedRuns(rs) \in Nat
  PROVE  /\ Restored(doc, b, started) \in Doc
         /\ Restored(doc, b, started).state # "executing"
         /\ Sound(Restored(doc, b, started), rs)
         /\ Continues(Restored(doc, b, started), doc)
<1> DEFINE merged == Merged(doc, b, started)
           known == Recovered(merged)
           after == Normalized(known)
<1>1. /\ merged \in Doc /\ merged.execs = doc.execs
      /\ merged.state = doc.state /\ merged.stop = doc.stop
      /\ \A d \in Dimensions : /\ merged.limits[d] <= doc.limits[d]
                               /\ merged.consumed[d] >= doc.consumed[d]
  BY MergedFields
<1> HIDE DEF merged
<1>2. /\ known \in Doc /\ SameKeys(merged.execs, known.execs)
      /\ known.state = merged.state /\ known.stop = merged.stop
      /\ known.limits = merged.limits
      /\ known.consumed = IF Unfinished(merged) = {} THEN merged.consumed
                                                     ELSE Plus(merged.consumed, Estimate)
  BY <1>1, RecoveredFields
<1> HIDE DEF known
<1>3. /\ after.execs = known.execs /\ after.stop = known.stop
      /\ after.limits = known.limits /\ after.consumed = known.consumed
      /\ after.state = IF known.state = "executing" THEN "continue" ELSE known.state
  BY <1>2 DEF Normalized, Doc
<1>4. after = Restored(doc, b, started)
  BY DEF Restored, known, merged
<1> HIDE DEF after
<1>5. after \in Doc /\ after.state # "executing"
  BY <1>4, RestoredTypes DEF RunningDoc
<1>6. SameKeys(doc.execs, after.execs)
  BY <1>1, <1>2, <1>3
<1>7. Recorded(after, rs) /\ Numbered(after)
  BY <1>5, <1>6, KeysStay DEF Stored
<1>8. /\ doc.consumed \in Ledger /\ merged.consumed \in Ledger /\ Estimate \in Ledger
      /\ doc.limits \in Ledger /\ merged.limits \in Ledger
  BY <1>1, LedgerTypes DEF Doc
<1>9. \A d \in Dimensions : after.consumed[d] >= merged.consumed[d]
  <2>1. CASE Unfinished(merged) = {}
    <3>1. \A d \in Dimensions : merged.consumed[d] \in Nat
      BY <1>8 DEF Ledger
    <3>2. QED
      BY <1>2, <1>3, <2>1, <3>1
  <2>2. CASE Unfinished(merged) # {}
    BY <1>2, <1>3, <1>8, <2>2, PlusGrows
  <2>3. QED
    BY <2>1, <2>2
<1>10. \A d \in Dimensions : after.consumed[d] >= doc.consumed[d]
  <2>1. \A d \in Dimensions : /\ after.consumed[d] \in Nat /\ merged.consumed[d] \in Nat
                              /\ doc.consumed[d] \in Nat
    BY <1>5, <1>8 DEF Doc, Ledger
  <2>2. QED
    BY <1>1, <1>9, <2>1
<1>11. \A d \in Dimensions : after.limits[d] <= doc.limits[d]
  BY <1>1, <1>2, <1>3
<1>12. StopsForGood(doc)
  BY DEF Stored
<1>13. Continues(after, doc)
  <2>1. Ended(doc) => after.state = doc.state /\ after.stop = doc.stop
    BY <1>1, <1>2, <1>3, <1>12 DEF Ended, Terminal, StopsForGood
  <2>2. QED
    BY <1>10, <1>11, <2>1 DEF Continues
<1>14. StopsForGood(after)
  BY <1>1, <1>2, <1>3, <1>12 DEF StopsForGood
<1>15. Paid(after, rs)
  <2>1. Unfinished(merged) = Unfinished(doc)
    BY <1>1 DEF Unfinished
  <2>2. "engines" \in Dimensions
    BY DEF Dimensions
  <2>3. /\ doc.consumed["engines"] \in Nat /\ merged.consumed["engines"] \in Nat
        /\ merged.consumed["engines"] >= doc.consumed["engines"]
    BY <1>1, <1>8, <2>2 DEF Ledger
  <2>4. CASE Unfinished(doc) = {}
    <3>1. ExecutedRuns(rs) <= doc.consumed["engines"] + 0
      BY <2>4 DEF Stored, PaidAfterRecovery
    <3>2. after.consumed["engines"] = merged.consumed["engines"]
      BY <1>2, <1>3, <2>1, <2>4
    <3>3. ExecutedRuns(rs) <= merged.consumed["engines"]
      BY <2>3, <3>1
    <3>4. QED
      BY <3>2, <3>3 DEF Paid
  <2>5. CASE Unfinished(doc) # {}
    <3>1. ExecutedRuns(rs) <= doc.consumed["engines"] + 1
      BY <2>5 DEF Stored, PaidAfterRecovery
    <3>2. after.consumed["engines"] = merged.consumed["engines"] + Estimate["engines"]
      BY <1>2, <1>3, <1>8, <2>1, <2>5, PlusGrows
    <3>3. Estimate["engines"] = 1
      BY <2>2 DEF Estimate
    <3>4. ExecutedRuns(rs) <= merged.consumed["engines"] + 1
      BY <2>3, <3>1
    <3>5. QED
      BY <3>2, <3>3, <3>4 DEF Paid
  <2>6. QED
    BY <2>4, <2>5
<1>16. Sound(after, rs)
  BY <1>5, <1>7, <1>14, <1>15 DEF Sound, Announced
<1>17. QED
  BY <1>4, <1>5, <1>13, <1>16

\* An explicit resume plans again only what did not end, and with new keys.
LEMMA ResumedSound ==
  ASSUME NEW doc \in RunningDoc, doc.state # "executing", NEW stored \in Doc, NEW rs,
         NEW available, Sound(doc, rs), Continues(doc, stored)
  PROVE  /\ Resumed(doc, available) \in Doc
         /\ Sound(Resumed(doc, available), rs)
         /\ Continues(Resumed(doc, available), stored)
<1>1. doc \in Doc /\ Resumed(doc, available) \in Doc
  BY ResumedTypes DEF RunningDoc
<1>2. CASE ~ (doc.state = "stopped" /\ doc.stop \in Resumable)
  BY <1>1, <1>2 DEF Resumed
<1>3. CASE doc.state = "stopped" /\ doc.stop \in Resumable
  <2> DEFINE s == doc.execs
             t == [n \in DOMAIN s |->
                     IF s[n].phase = "unavailable" /\ s[n].input \in available
                     THEN [s[n] EXCEPT !.phase = "superseded"] ELSE s[n]]
             after == Resumed(doc, available)
  <2>1. SameKeys(s, t)
    <3>1. \A n \in DOMAIN s : s[n] \in Execution
      BY <1>1, ExecTypes
    <3>2. \A n \in DOMAIN s : SameKey(t[n], s[n]) /\ (s[n].phase = "superseded" =>
                                                        t[n].phase = "superseded")
      BY <3>1 DEF Execution, SameKey
    <3>3. QED
      BY <3>2 DEF SameKeys
  <2>2. after = [doc EXCEPT !.state = "planning", !.stop = "", !.execs = t]
    BY <1>3 DEF Resumed
  <2> HIDE DEF t, after
  <2>3. /\ after.execs = t /\ after.state = "planning" /\ after.stop = ""
        /\ after.limits = doc.limits /\ after.consumed = doc.consumed
    BY <1>1, <2>2 DEF Doc
  <2>4. Sound(after, rs)
    <3>1. after \in Doc /\ SameKeys(doc.execs, after.execs)
      BY <1>1, <2>1, <2>3 DEF after
    <3>2. after.state # "executing" /\ StopsForGood(after)
      BY <2>3 DEF StopsForGood
    <3>3. QED
      BY <1>1, <2>3, <3>1, <3>2, QuietSound
  <2>5. ~ Ended(stored)
    BY <1>3 DEF Continues, Ended, Terminal, Resumable
  <2>6. Continues(after, stored)
    BY <2>3, <2>5 DEF Continues
  <2>7. QED
    BY <1>1, <2>4, <2>6 DEF after
<1>4. QED
  BY <1>2, <1>3

\* A granted retry supersedes a run that is over, never the one to come.
LEMMA RetrySound ==
  ASSUME NEW doc \in RunningDoc, NEW stored \in Doc, NEW rs, Sound(doc, rs),
         NEW n \in DOMAIN doc.execs, doc.execs[n].phase \in {"timed_out", "failed", "unknown"}
  PROVE  LET resumed == doc.state = "stopped" /\ doc.stop \in Resumable
             after == [doc EXCEPT !.execs = Marked(@, n, "superseded", FALSE),
                                  !.state = IF resumed THEN "planning" ELSE @,
                                  !.stop = IF resumed THEN "" ELSE @]
         IN  /\ Sound(after, rs)
             /\ Continues(doc, stored) => Continues(after, stored)
<1> DEFINE resumed == doc.state = "stopped" /\ doc.stop \in Resumable
           execs == Marked(doc.execs, n, "superseded", FALSE)
           state == IF resumed THEN "planning" ELSE doc.state
           stop == IF resumed THEN "" ELSE doc.stop
           after == [doc EXCEPT !.execs = Marked(@, n, "superseded", FALSE),
                                !.state = IF resumed THEN "planning" ELSE @,
                                !.stop = IF resumed THEN "" ELSE @]
<1>1. doc \in Doc /\ doc.execs \in Seq(Execution)
  BY DEF RunningDoc, Doc
<1>2. "superseded" \in Phases /\ FALSE \in BOOLEAN
  BY DEF Phases
<1>3. /\ SameKeys(doc.execs, execs)
      /\ \A m \in DOMAIN doc.execs \ {n} : execs[m] = doc.execs[m]
  BY <1>1, <1>2, MarkedKeys, ZenonT(30)
<1>4. execs \in Seq(Execution) /\ Len(execs) = Len(doc.execs)
  BY <1>1, <1>2, MarkedTypes
<1>5. after = [doc EXCEPT !.execs = execs, !.state = state, !.stop = stop]
  OBVIOUS
<1>6. /\ state \in States /\ stop \in StopReasons \union {""}
      /\ state = "executing" => doc.state = "executing"
      /\ stop = "operator_stopped" => state = "stopped"
      /\ ~ resumed => state = doc.state /\ stop = doc.stop
  BY <1>1 DEF Doc, States, Sound, StopsForGood, Resumable
<1> HIDE DEF execs, state, stop, after
<1>7. /\ after \in Doc /\ after.execs = execs /\ after.state = state /\ after.stop = stop
      /\ after.limits = doc.limits /\ after.consumed = doc.consumed
  BY <1>1, <1>4, <1>5, <1>6 DEF Doc
<1>8. Recorded(after, rs) /\ Numbered(after)
  BY <1>1, <1>3, <1>7, KeysStay DEF Sound
<1>9. Announced(after, rs)
  <2> SUFFICES ASSUME after.state = "executing" PROVE Announced(after, rs)
    BY DEF Announced
  <2>1. doc.state = "executing" /\ Latest(doc).phase = "started" /\ Announced(doc, rs)
    BY <1>6, <1>7 DEF Sound, Announced
  <2>2. Len(doc.execs) \in DOMAIN doc.execs
    <3>1. Len(doc.execs) > 0
      BY <2>1 DEF RunningDoc
    <3>2. Len(doc.execs) \in Nat /\ DOMAIN doc.execs = 1 .. Len(doc.execs)
      BY <1>1, LenProperties
    <3>3. QED
      BY <3>1, <3>2
  <2>3. Len(doc.execs) # n
    BY <2>1 DEF Latest
  <2>4. Latest(after) = Latest(doc)
    BY <1>3, <1>4, <1>7, <2>2, <2>3 DEF Latest
  <2>5. QED
    BY <1>7, <2>1, <2>4 DEF Announced
<1>10. StopsForGood(after) /\ Paid(after, rs)
  BY <1>6, <1>7 DEF StopsForGood, Paid, Sound
<1>11. Continues(doc, stored) => Continues(after, stored)
  <2>1. CASE resumed
    BY <1>7, <2>1 DEF Continues, Ended, Terminal, Resumable
  <2>2. CASE ~ resumed
    BY <1>6, <1>7, <2>2 DEF Continues
  <2>3. QED
    BY <2>1, <2>2
<1>12. QED
  BY <1>8, <1>9, <1>10, <1>11 DEF Sound, after, resumed

\* What a save writes is what a restart will find: nothing is missing in it.
LEMMA StoredIsSound ==
  ASSUME NEW doc \in Doc, NEW rs \in Seq(Run), Sound(doc, rs), ExecutedRuns(rs) \in Nat
  PROVE  Stored(doc, rs) /\ Continues(doc, doc)
<1>1. doc.limits \in Ledger /\ doc.consumed \in Ledger
  BY DEF Doc
<1>2. \A d \in Dimensions : doc.limits[d] \in Nat /\ doc.consumed[d] \in Nat
  BY <1>1 DEF Ledger
<1>3. doc.consumed["engines"] \in Nat
  BY <1>2 DEF Dimensions
<1>4. ExecutedRuns(rs) <= doc.consumed["engines"]
  BY DEF Sound, Paid
<1>5. /\ ExecutedRuns(rs) <= doc.consumed["engines"] + 0
      /\ ExecutedRuns(rs) <= doc.consumed["engines"] + 1
  BY <1>3, <1>4
<1>6. PaidAfterRecovery(doc, rs)
  BY <1>5 DEF PaidAfterRecovery
<1>7. \A d \in Dimensions : doc.limits[d] <= doc.limits[d] /\ doc.consumed[d] >= doc.consumed[d]
  BY <1>2
<1>8. QED
  BY <1>6, <1>7 DEF Stored, Sound, Continues

-----------------------------------------------------------------------------
(* The actions *)

\* The numbers and types the invariant gives.
LEMMA RoundTypes ==
  ASSUME RoundInv, NEW p \in Procs
  PROVE  /\ TypeInv /\ row.doc \in Doc /\ row.rev \in Nat
         /\ runs \in Seq(Run) /\ ExecutedRuns(runs) \in Nat
         /\ obj[p] \in Holder /\ obj[p].doc \in RunningDoc /\ obj[p].doc \in Doc
         /\ obj[p].rev \in Nat /\ obj[p].budget \in Budgets /\ obj[p].started \in Nat
         /\ Fits(obj[p], row, runs)
<1>1. TypeInv /\ runs \in Seq(Run) /\ Fits(obj[p], row, runs)
  BY DEF RoundInv, TypeInv, TypeOK
<1>2. ExecutedRuns(runs) \in Nat
  BY <1>1, ExecutedIsNat
<1>3. QED
  BY <1>1, <1>2, HolderTypes

\* A step that changes the memory of one process keeps the invariant if the new
\* memory fits.
LEMMA MemoryKeeps ==
  ASSUME RoundInv, TypeInv', NEW p \in Procs, NEW o, obj' = [obj EXCEPT ![p] = o],
         row' = row, runs' = runs, Fits(o, row, runs)
  PROVE  RoundInv'
<1>1. \A q \in Procs : obj'[q] = IF q = p THEN o ELSE obj[q]
  BY DEF RoundInv, TypeInv
<1>2. \A q \in Procs : Fits(obj'[q], row', runs')
  BY <1>1 DEF RoundInv
<1>3. QED
  BY <1>2 DEF RoundInv, EachKeyRunsOnce

\* A call from the idle stage that leaves a sound continuation in memory.
LEMMA CallKeeps ==
  ASSUME RoundInv, TypeInv', NEW p \in Procs, NEW op, NEW doc, obj[p].stage = "idle",
         Save(p, op, doc), row' = row, runs' = runs,
         Sound(doc, runs), Continues(obj[p].doc, row.doc) => Continues(doc, row.doc)
  PROVE  RoundInv'
<1> DEFINE o == [obj[p] EXCEPT !.stage = "saving", !.op = op, !.doc = doc]
<1>1. obj' = [obj EXCEPT ![p] = o]
  BY DEF Save, RoundInv, TypeInv
<1>2. obj[p] \in Orchestrator /\ Fits(obj[p], row, runs) /\ obj[p].rev \in Nat
  BY RoundTypes DEF Holder
<1>3. o.stage = "saving" /\ o.doc = doc /\ o.rev = obj[p].rev
  BY <1>2 DEF Orchestrator
<1>4. obj[p].rev = row.rev /\ obj[p].rev # 0 /\ (obj[p].rev > 0 => Continues(obj[p].doc, row.doc))
  BY <1>2 DEF Fits
<1> HIDE DEF o
<1>5. Fits(o, row, runs)
  BY <1>3, <1>4 DEF Fits
<1>6. QED
  BY <1>1, <1>5, MemoryKeeps

\* A save that is reported as failed loses the orchestrator or leaves it idle.
LEMMA RaisedKeeps ==
  ASSUME RoundInv, TypeInv', NEW p \in Procs, NEW conflict \in BOOLEAN,
         obj[p].stage \in {"saving", "committing"}, Raised(p, conflict),
         row' = row, runs' = runs
  PROVE  RoundInv'
<1> DEFINE o == [obj[p] EXCEPT !.stage = "idle"]
<1>1. obj[p] \in Orchestrator /\ Fits(obj[p], row, runs)
  BY RoundTypes DEF Holder
<1>2. /\ o.stage = "idle" /\ o.doc = obj[p].doc /\ o.rev = obj[p].rev /\ o.op = obj[p].op
  BY <1>1 DEF Orchestrator
<1> HIDE DEF o
<1>3. CASE obj' = [obj EXCEPT ![p] = o] /\ obj[p].op # "open"
  <2>1. Fits(o, row, runs)
    BY <1>1, <1>2, <1>3 DEF Fits
  <2>2. QED
    BY <1>3, <2>1, MemoryKeeps
<1>4. CASE obj' = [obj EXCEPT ![p] = Closed]
  <2>1. Fits(Closed, row, runs)
    BY ClosedTypes DEF Fits
  <2>2. QED
    BY <1>4, <2>1, MemoryKeeps
<1>5. QED
  BY <1>3, <1>4 DEF Raised, o

\* A write stores what the only process has in memory.
LEMMA WriteKeeps ==
  ASSUME RoundInv, OneAtATime, TypeInv', NEW p \in Procs, NEW o,
         obj[p].stage = "committing", Write(p), runs' = runs, obj' = [obj EXCEPT ![p] = o],
         o.stage = "closed" \/ (o.doc = obj[p].doc /\ o.rev = obj[p].rev + 1)
  PROVE  /\ RoundInv'
         /\ row.rev > 0 => Continues(row'.doc, row.doc)
<1>1. /\ obj[p].doc \in Doc /\ runs \in Seq(Run) /\ ExecutedRuns(runs) \in Nat
      /\ obj[p].rev \in Nat /\ Fits(obj[p], row, runs)
  BY RoundTypes
<1>2. /\ Sound(obj[p].doc, runs) /\ obj[p].rev = row.rev
      /\ obj[p].rev > 0 => Continues(obj[p].doc, row.doc)
  BY <1>1 DEF Fits
<1>3. row'.doc = obj[p].doc /\ row'.rev = obj[p].rev + 1
  BY DEF Write
<1>4. Stored(obj[p].doc, runs) /\ Continues(obj[p].doc, obj[p].doc)
  BY <1>1, <1>2, StoredIsSound
<1>5. row'.rev > 0 /\ row'.rev # 0
  BY <1>1, <1>3
<1>6. Fits(o, row', runs')
  BY <1>2, <1>3, <1>4, <1>5 DEF Fits
<1>7. \A q \in Procs : obj'[q] = IF q = p THEN o ELSE obj[q]
  BY DEF RoundInv, TypeInv
<1>8. \A q \in Procs : q # p => obj[q].stage = "closed"
  BY DEF OneAtATime
<1>9. \A q \in Procs : Fits(obj'[q], row', runs')
  BY <1>6, <1>7, <1>8 DEF Fits
<1>10. RoundInv'
  BY <1>3, <1>4, <1>5, <1>9 DEF RoundInv, EachKeyRunsOnce
<1>11. QED
  BY <1>2, <1>3, <1>10

\* A process opens the campaign, or opens it again.
LEMMA OpenKeeps ==
  ASSUME RoundInv, TypeInv', NEW p \in Procs, Open(p)
  PROVE  RoundInv' /\ row' = row /\ runs' = runs
<1>1. PICK b \in Budgets :
        obj' = [obj EXCEPT ![p] =
                  [Closed EXCEPT
                     !.stage = "saving", !.budget = b, !.rev = row.rev,
                     !.doc = IF row.rev = 0 THEN NewDoc(b) ELSE Restored(row.doc, b, 0)]]
  BY DEF Open
<1> DEFINE doc == IF row.rev = 0 THEN NewDoc(b) ELSE Restored(row.doc, b, 0)
           o == [Closed EXCEPT !.stage = "saving", !.budget = b, !.rev = row.rev, !.doc = doc]
<1>2. obj' = [obj EXCEPT ![p] = o] /\ row' = row /\ runs' = runs
  BY <1>1 DEF Open, db
<1>3. /\ row.doc \in Doc /\ row.rev \in Nat /\ runs \in Seq(Run)
      /\ ExecutedRuns(runs) \in Nat /\ Stored(row.doc, runs)
      /\ row.rev = 0 => runs = <<>>
  BY RoundTypes DEF RoundInv
<1>4. Sound(doc, runs) /\ (row.rev > 0 => Continues(doc, row.doc))
  <2>1. CASE row.rev = 0
    BY <1>3, <2>1, NewSound
  <2>2. CASE row.rev # 0
    <3>1. 0 \in Nat
      OBVIOUS
    <3>2. Sound(Restored(row.doc, b, 0), runs) /\ Continues(Restored(row.doc, b, 0), row.doc)
      BY <1>3, <3>1, RestoredSound
    <3>3. QED
      BY <2>2, <3>2
  <2>3. QED
    BY <2>1, <2>2
<1> HIDE DEF doc
<1>5. o.stage = "saving" /\ o.op = "open" /\ o.rev = row.rev /\ o.doc = doc
  BY DEF Closed
<1> HIDE DEF o
<1>6. Fits(o, row, runs)
  BY <1>4, <1>5 DEF Fits
<1>7. QED
  BY <1>2, <1>6, MemoryKeeps

\* An explicit resume reads the row again.
LEMMA ResumeKeeps ==
  ASSUME RoundInv, TypeInv', NEW p \in Procs, Resume(p)
  PROVE  RoundInv' /\ row' = row /\ runs' = runs
<1> DEFINE restored == Restored(row.doc, obj[p].budget, obj[p].started)
<1>1. PICK available \in SUBSET Inputs :
        obj' = [obj EXCEPT ![p] =
                  [obj[p] EXCEPT !.stage = "saving", !.op = "resume", !.rev = row.rev,
                                 !.doc = Resumed(restored, available)]]
  BY DEF Resume
<1> DEFINE doc == Resumed(restored, available)
           o == [obj[p] EXCEPT !.stage = "saving", !.op = "resume", !.rev = row.rev,
                               !.doc = doc]
<1>2. obj' = [obj EXCEPT ![p] = o] /\ row' = row /\ runs' = runs /\ obj[p].stage = "idle"
  BY <1>1 DEF Resume, db
<1>3. /\ row.doc \in Doc /\ row.rev \in Nat /\ runs \in Seq(Run)
      /\ ExecutedRuns(runs) \in Nat /\ Stored(row.doc, runs)
      /\ obj[p] \in Orchestrator /\ obj[p].budget \in Budgets /\ obj[p].started \in Nat
      /\ Fits(obj[p], row, runs)
  BY RoundTypes DEF RoundInv, Holder
<1>4. /\ Sound(restored, runs) /\ Continues(restored, row.doc)
      /\ restored \in RunningDoc /\ restored.state # "executing"
  BY <1>3, RestoredSound, RestoredTypes
<1> HIDE DEF restored
<1>5. Sound(doc, runs) /\ Continues(doc, row.doc)
  BY <1>3, <1>4, ResumedSound
<1> HIDE DEF doc
<1>6. o.stage = "saving" /\ o.rev = row.rev /\ o.doc = doc
  BY <1>3 DEF Orchestrator
<1>7. row.rev # 0
  BY <1>2, <1>3 DEF Fits
<1> HIDE DEF o
<1>8. Fits(o, row, runs)
  BY <1>5, <1>6, <1>7 DEF Fits
<1>9. QED
  BY <1>2, <1>8, MemoryKeeps

\* The engine runs: its key is new, the ledger had room for it, and what is in
\* memory records and pays for it.
LEMMA EngineKeeps ==
  ASSUME RoundInv, OneAtATime, TypeInv', NEW p \in Procs, CallEngine(p)
  PROVE  /\ RoundInv' /\ row' = row
         /\ ExecutedRuns(runs') <= row.doc.limits["engines"]
<1> DEFINE o == obj[p]
           e == Latest(o.doc)
<1>1. PICK result \in ResultsOf(o), redundant \in BOOLEAN :
        /\ runs' = Append(runs, [input |-> e.input, retry |-> e.retry,
                                 executed |-> Executed(result) \/ result = "raised"])
        /\ obj' = [obj EXCEPT ![p] =
                     [o EXCEPT !.stage = "saving",
                               !.doc = IF redundant
                                       THEN Stopped(Observed(o.doc, result), "redundant_evidence")
                                       ELSE Observed(o.doc, result),
                               !.started = IF Executed(result) THEN @ + 1 ELSE @]]
  BY DEF CallEngine, Latest
<1> DEFINE run == [input |-> e.input, retry |-> e.retry,
                   executed |-> Executed(result) \/ result = "raised"]
           seen == Observed(o.doc, result)
           doc == IF redundant THEN Stopped(seen, "redundant_evidence") ELSE seen
           started == IF Executed(result) THEN o.started + 1 ELSE o.started
           after == [o EXCEPT !.stage = "saving", !.doc = doc, !.started = started]
<1>2. runs' = Append(runs, run) /\ obj' = [obj EXCEPT ![p] = after] /\ row' = row
  BY <1>1 DEF CallEngine, db
<1>3. o.stage = "calling" /\ o \in Orchestrator /\ o.doc.state = "executing"
  BY RoundTypes DEF CallEngine, Holder
<1>4. /\ o.doc \in RunningDoc /\ o.doc \in Doc /\ o.rev \in Nat /\ row.rev \in Nat
      /\ runs \in Seq(Run) /\ Fits(o, row, runs)
  BY RoundTypes
<1>5. Sound(o.doc, runs) /\ o.doc = row.doc /\ o.rev = row.rev /\ o.rev # 0
  BY <1>3, <1>4 DEF Fits
<1>6. run \in Run
  <2>1. o.doc.execs \in Seq(Execution) /\ Len(o.doc.execs) > 0
    BY <1>3, <1>4 DEF RunningDoc, Doc
  <2>2. Len(o.doc.execs) \in Nat /\ DOMAIN o.doc.execs = 1 .. Len(o.doc.execs)
    BY <2>1, LenProperties
  <2>3. Len(o.doc.execs) \in DOMAIN o.doc.execs
    BY <2>1, <2>2
  <2>4. e.input \in Inputs /\ e.retry \in Nat
    BY <1>4, <2>3, ExecTypes DEF Latest
  <2>5. (Executed(result) \/ result = "raised") \in BOOLEAN
    BY DEF Executed
  <2>6. QED
    BY <2>4, <2>5 DEF Run
<1>7. /\ SameKey(e, run)
      /\ run.executed = (Executed(result) \/ result = "raised")
  BY DEF SameKey
<1>8. result \in Results \union {"refused"}
  BY DEF ResultsOf
<1> HIDE DEF run
<1>9. /\ Sound(seen, Append(runs, run)) /\ Continues(seen, o.doc)
      /\ Stored(o.doc, Append(runs, run))
      /\ ExecutedRuns(Append(runs, run)) <= o.doc.limits["engines"]
  <2> HIDE DEF o, e
  <2>1. SameKey(Latest(o.doc), run)
    BY <1>7 DEF e
  <2>2. QED
    BY <1>3, <1>4, <1>5, <1>6, <1>7, <1>8, <2>1, ObservedSound
<1>10. Sound(doc, runs') /\ Continues(doc, row.doc)
  <2>1. seen \in Doc /\ seen.state = "continue" /\ seen.stop = o.doc.stop
    BY <1>3, <1>4, <1>5, <1>8, ObservedFields DEF Sound, Announced
  <2>2. o.doc.stop # "operator_stopped"
    BY <1>3, <1>5 DEF Sound, StopsForGood
  <2>3. ~ Ended(seen)
    BY <2>1, <2>2 DEF Ended, Terminal
  <2>4. "redundant_evidence" \in StopReasons
    BY DEF StopReasons
  <2> HIDE DEF seen, o
  <2>5. /\ Sound(Stopped(seen, "redundant_evidence"), runs')
        /\ Continues(Stopped(seen, "redundant_evidence"), row.doc)
    BY <1>2, <1>4, <1>5, <1>9, <2>1, <2>3, <2>4, StoppedSound
  <2>6. QED
    BY <1>2, <1>5, <1>9, <2>5
<1> HIDE DEF doc, started
<1>11. after.stage = "saving" /\ after.doc = doc /\ after.rev = o.rev
  BY <1>3 DEF Orchestrator
<1> HIDE DEF after, seen
<1>12. Fits(after, row', runs')
  BY <1>2, <1>5, <1>10, <1>11 DEF Fits
<1>13. \A q \in Procs : obj'[q] = IF q = p THEN after ELSE obj[q]
  BY <1>2 DEF RoundInv, TypeInv
<1>14. \A q \in Procs : q # p => obj[q].stage = "closed"
  BY <1>3 DEF OneAtATime
<1>15. \A q \in Procs : Fits(obj'[q], row', runs')
  BY <1>12, <1>13, <1>14 DEF Fits
<1>16. EachKeyRunsOnce'
  <2> DEFINE k == Len(runs) + 1
  <2>1. /\ runs'[k] = run /\ \A n \in DOMAIN runs : runs'[n] = runs[n]
        /\ \A n \in DOMAIN runs' : n \in DOMAIN runs \/ n = k
    BY <1>2, <1>4, <1>6, AppendedRun
  <2>2. \A n \in DOMAIN runs : ~ SameKey(run, runs[n])
    BY <1>3, <1>5, <1>7 DEF Sound, Announced, SameKey
  <2>3. EachKeyRunsOnce
    BY DEF RoundInv
  <2> HIDE DEF k
  <2>4. QED
    BY <2>1, <2>2, <2>3 DEF EachKeyRunsOnce, SameKey
<1>17. Stored(row'.doc, runs') /\ row'.rev # 0
  BY <1>2, <1>5, <1>9
<1>18. RoundInv'
  BY <1>15, <1>16, <1>17 DEF RoundInv
<1>19. QED
  BY <1>2, <1>5, <1>9, <1>18

\* What a step does to the row: a stored document is only continued.
Continued == row.rev > 0 => Continues(row'.doc, row.doc)

\* What a step does to the runs: a further one is within the stored limit.
Within == runs' # runs => ExecutedRuns(runs') <= row.doc.limits["engines"]

\* A row that stays is continued.
LEMMA SameRow ==
  ASSUME RoundInv, NEW p \in Procs, row' = row
  PROVE  Continued
<1>1. row.doc.limits \in Ledger /\ row.doc.consumed \in Ledger
  BY RoundTypes DEF Doc
<1>2. \A d \in Dimensions : /\ row.doc.limits[d] <= row.doc.limits[d]
                            /\ row.doc.consumed[d] >= row.doc.consumed[d]
  BY <1>1 DEF Ledger
<1>3. QED
  BY <1>2 DEF Continued, Continues

\* Every action keeps the invariant, continues the row and stays within its limit.
LEMMA RoundStep ==
  ASSUME RoundInv, OneAtATime, TypeInv', NEW p \in Procs,
         Step(p) \/ Operator(p) \/ Store(p) \/ Crash(p)
  PROVE  RoundInv' /\ Continued /\ Within
<1>1. ASSUME RoundInv', row' = row, runs' = runs PROVE RoundInv' /\ Continued /\ Within
  BY <1>1, SameRow DEF Within
<1>2. /\ obj[p].doc \in RunningDoc /\ obj[p].doc \in Doc /\ row.doc \in Doc
      /\ obj[p] \in Orchestrator /\ Fits(obj[p], row, runs)
  BY RoundTypes DEF Holder
<1>3. obj[p].stage # "closed" => Sound(obj[p].doc, runs)
  BY <1>2 DEF Fits
<1>4. ASSUME NEW op, NEW reason \in StopReasons, obj[p].stage = "idle",
             ~ Ended(obj[p].doc), Save(p, op, Stopped(obj[p].doc, reason)),
             row' = row, runs' = runs
      PROVE  RoundInv'
  <2>1. /\ Sound(Stopped(obj[p].doc, reason), runs)
        /\ Continues(obj[p].doc, row.doc) => Continues(Stopped(obj[p].doc, reason), row.doc)
    BY <1>2, <1>3, <1>4, StoppedSound
  <2>2. QED
    BY <1>4, <2>1, CallKeeps
<1>5. CASE StepStops(p)
  <2>1. \A rejections : Blocking(rejections) \in StopReasons
    BY DEF Blocking, StopReasons
  <2>2. PICK reason \in StopReasons : Save(p, "step", Stopped(obj[p].doc, reason))
    BY <1>5, <2>1 DEF StepStops, StopReasons
  <2>3. obj[p].stage = "idle" /\ row' = row /\ runs' = runs
    BY <1>5 DEF StepStops, Steppable, db
  <2>4. ~ Ended(obj[p].doc)
    BY <1>3, <1>5, <2>3 DEF StepStops, Steppable, Sound, StopsForGood, Ended, Terminal
  <2>5. QED
    BY <1>1, <1>4, <2>2, <2>3, <2>4
<1>6. CASE Halt(p)
  <2>1. PICK reason \in {"operator_paused", "operator_stopped"} :
          /\ Haltable(obj[p].doc, reason)
          /\ Save(p, "halt", Stopped(obj[p].doc, reason))
    BY <1>6 DEF Halt
  <2>2. obj[p].stage = "idle" /\ row' = row /\ runs' = runs /\ reason \in StopReasons
    BY <1>6 DEF Halt, db, StopReasons
  <2>3. ~ Ended(obj[p].doc)
    BY <1>3, <2>1, <2>2 DEF Haltable, Sound, StopsForGood, Ended, Terminal, Resumable
  <2>4. QED
    BY <1>1, <1>4, <2>1, <2>2, <2>3
<1>7. CASE StepRuns(p)
  <2>1. obj[p].stage = "idle" /\ row' = row /\ runs' = runs
    BY <1>7 DEF StepRuns, Steppable, db
  <2>2. obj[p].doc.state \in {"created", "planning", "continue"}
    BY <1>7 DEF StepRuns, Steppable
  <2> DEFINE after(i) == [Reserve(obj[p].doc) EXCEPT
                            !.state = "executing",
                            !.execs = Append(@, [input |-> i,
                                                 retry |-> Superseded(obj[p].doc, i),
                                                 phase |-> "started", retryable |-> FALSE])]
  <2>3. PICK i \in Inputs : Rejection(obj[p].doc, i, "run") = "" /\ Save(p, "step", after(i))
    BY <1>7 DEF StepRuns
  <2>4. /\ Sound(after(i), runs)
        /\ Continues(obj[p].doc, row.doc) => Continues(after(i), row.doc)
    BY <1>2, <1>3, <2>1, <2>2, <2>3, StartSound
  <2> HIDE DEF after
  <2>5. RoundInv'
    BY <2>1, <2>3, <2>4, CallKeeps
  <2>6. QED
    BY <1>1, <2>1, <2>5
<1>8. CASE StepFails(p)
  <2>1. /\ obj[p].stage = "idle" /\ row' = row /\ runs' = runs
        /\ obj[p].doc.state = "executing"
        /\ Save(p, "step", [obj[p].doc EXCEPT !.state = "failed"])
    BY <1>8 DEF StepFails, db
  <2>2. /\ Sound([obj[p].doc EXCEPT !.state = "failed"], runs)
        /\ Continues(obj[p].doc, row.doc) =>
             Continues([obj[p].doc EXCEPT !.state = "failed"], row.doc)
    BY <1>2, <1>3, <2>1, FailedSound
  <2>3. RoundInv'
    BY <2>1, <2>2, CallKeeps
  <2>4. QED
    BY <1>1, <2>1, <2>3
<1>9. CASE CallEngine(p)
  BY <1>9, EngineKeeps, SameRow DEF Within
<1>10. CASE Open(p)
  BY <1>1, <1>10, OpenKeeps
<1>11. CASE Resume(p)
  BY <1>1, <1>11, ResumeKeeps
<1>12. CASE GrantRetry(p)
  <2> DEFINE doc == obj[p].doc
             resumed == doc.state = "stopped" /\ doc.stop \in Resumable
             after(n) == [doc EXCEPT !.execs = Marked(@, n, "superseded", FALSE),
                                     !.state = IF resumed THEN "planning" ELSE @,
                                     !.stop = IF resumed THEN "" ELSE @]
  <2>1. PICK n \in DOMAIN doc.execs :
          doc.execs[n].phase \in {"timed_out", "failed", "unknown"} /\ Save(p, "retry", after(n))
    BY <1>12 DEF GrantRetry
  <2>2. obj[p].stage = "idle" /\ row' = row /\ runs' = runs
    BY <1>12 DEF GrantRetry, db
  <2>3. /\ Sound(after(n), runs)
        /\ Continues(doc, row.doc) => Continues(after(n), row.doc)
    BY <1>2, <1>3, <2>1, <2>2, RetrySound
  <2> HIDE DEF after
  <2>4. RoundInv'
    BY <2>1, <2>2, <2>3, CallKeeps
  <2>5. QED
    BY <1>1, <2>2, <2>4
<1>13. CASE SaveReads(p)
  <2>1. obj[p].stage = "saving" /\ row' = row /\ runs' = runs
    BY <1>13 DEF SaveReads, db
  <2>2. CASE Raised(p, TRUE)
    BY <1>1, <2>1, <2>2, RaisedKeeps
  <2>3. CASE obj' = [obj EXCEPT ![p].stage = "committing"]
    <3> DEFINE o == [obj[p] EXCEPT !.stage = "committing"]
    <3>1. obj' = [obj EXCEPT ![p] = o]
      BY <2>3 DEF RoundInv, TypeInv
    <3>2. /\ o.stage = "committing" /\ o.doc = obj[p].doc /\ o.rev = obj[p].rev
          /\ o.op = obj[p].op
      BY <1>2 DEF Orchestrator
    <3> HIDE DEF o
    <3>3. Fits(o, row, runs)
      BY <1>2, <2>1, <3>2 DEF Fits
    <3>4. QED
      BY <1>1, <2>1, <3>1, <3>3, MemoryKeeps
  <2>4. QED
    BY <1>13, <2>2, <2>3 DEF SaveReads
<1>14. ASSUME obj[p].stage = "committing", Write(p), runs' = runs,
              NEW stage \in {"calling", "idle"}, Saved(p, stage)
       PROVE  RoundInv' /\ Continued /\ Within
  <2> DEFINE o == [obj[p] EXCEPT !.stage = stage, !.rev = obj[p].rev + 1]
  <2>1. obj' = [obj EXCEPT ![p] = o]
    BY <1>14 DEF Saved, RoundInv, TypeInv
  <2>2. o.doc = obj[p].doc /\ o.rev = obj[p].rev + 1
    BY <1>2 DEF Orchestrator
  <2> HIDE DEF o
  <2>3. QED
    BY <1>14, <2>1, <2>2, WriteKeeps DEF Continued, Within
<1>15. CASE SaveCommits(p)
  <2>1. obj[p].stage = "committing" /\ runs' = runs
    BY <1>15 DEF SaveCommits
  <2>2. CASE Raised(p, FALSE) /\ UNCHANGED db
    BY <1>1, <2>1, <2>2, RaisedKeeps DEF db
  <2>3. CASE Write(p) /\ \E stage \in {"calling", "idle"} : Saved(p, stage)
    BY <1>14, <2>1, <2>3
  <2>4. QED
    BY <1>15, <2>2, <2>3 DEF SaveCommits
<1>16. CASE SaveFails(p)
  <2>1. obj[p].stage \in {"saving", "committing"} /\ runs' = runs
    BY <1>16 DEF SaveFails
  <2>2. CASE Raised(p, FALSE) /\ UNCHANGED db
    BY <1>1, <2>1, <2>2, RaisedKeeps DEF db
  <2>3. CASE obj[p].stage = "committing" /\ Write(p) /\ obj' = [obj EXCEPT ![p] = Closed]
    BY <2>1, <2>3, ClosedTypes, WriteKeeps DEF Continued, Within
  <2>4. CASE obj[p].stage = "committing" /\ Write(p) /\ Saved(p, "idle")
    BY <1>14, <2>1, <2>4
  <2>5. QED
    BY <1>16, <2>2, <2>3, <2>4 DEF SaveFails
<1>17. CASE Crash(p)
  <2>1. obj' = [obj EXCEPT ![p] = Closed] /\ row' = row /\ runs' = runs
    BY <1>17 DEF Crash, db
  <2>2. Fits(Closed, row, runs)
    BY ClosedTypes DEF Fits
  <2>3. QED
    BY <1>1, <2>1, <2>2, MemoryKeeps
<1>18. QED
  BY <1>5, <1>6, <1>7, <1>8, <1>9, <1>10, <1>11, <1>12, <1>13, <1>15, <1>16, <1>17
  DEF Step, Operator, Store

\* A step of one process at a time keeps the invariant, continues the row, and
\* starts no run beyond the limit the row has.
LEMMA NextRound ==
  RoundInv /\ OneAtATime /\ [Next]_vars =>
    /\ RoundInv'
    /\ Within
    /\ row.rev > 0 => \A d \in Dimensions :
         row'.doc.limits[d] <= row.doc.limits[d] /\ row'.doc.consumed[d] >= row.doc.consumed[d]
    /\ row.rev > 0 /\ Ended(row.doc) =>
         row'.doc.state = row.doc.state /\ row'.doc.stop = row.doc.stop
<1> SUFFICES ASSUME RoundInv, OneAtATime, Next
             PROVE  RoundInv' /\ Continued /\ Within
  <2>1. CASE UNCHANGED vars
    <3>1. RoundInv => RoundInv'
      <4>1. /\ row' = row /\ history' = history /\ obj' = obj /\ runs' = runs
            /\ opens' = opens /\ resumes' = resumes /\ faults' = faults
        BY <2>1 DEF vars
      <4>2. TypeInv => TypeInv'
        BY <4>1 DEF TypeInv, TypeOK
      <4>3. QED
        BY <4>1, <4>2 DEF RoundInv, EachKeyRunsOnce
    <3>2. RoundInv => Continues(row.doc, row.doc)
      <4>1. ASSUME RoundInv PROVE row.doc.limits \in Ledger /\ row.doc.consumed \in Ledger
        BY <4>1 DEF RoundInv, TypeInv, TypeOK, Doc
      <4>2. QED
        BY <4>1 DEF Continues, Ledger
    <3>3. QED
      BY <2>1, <3>1, <3>2 DEF vars, Within, Continues
  <2>2. QED
    BY <2>1 DEF Continued, Continues
<1>1. PICK p \in Procs : Step(p) \/ Operator(p) \/ Store(p) \/ Crash(p)
  BY DEF Next
<1>2. TypeInv'
  BY NextType DEF RoundInv
<1>3. QED
  BY <1>1, <1>2, RoundStep

\* A campaign that is not yet stored fits.
LEMMA InitRound == Init => RoundInv
<1> SUFFICES ASSUME Init PROVE RoundInv
  OBVIOUS
<1>1. TypeInv
  BY InitType
<1>2. row.doc = NewDoc(AnyBudget) /\ runs = <<>>
  BY DEF Init
<1>3. Stored(row.doc, runs)
  BY <1>2, ClosedTypes, NewSound
<1>4. \A p \in Procs : Fits(obj[p], row, runs)
  BY ClosedTypes DEF Init, Fits
<1>5. EachKeyRunsOnce
  BY <1>2 DEF EachKeyRunsOnce
<1>6. QED
  BY <1>1, <1>2, <1>3, <1>4, <1>5 DEF RoundInv

\* "An unchanged input never repeats" (_run_round's write-ahead record,
\* _restore, _first_rejection): whatever crashes, failed saves, restarts,
\* resumes and granted retries lie between two runs, an execution key reaches an
\* engine once, as long as at most one orchestrator of the campaign is open.
THEOREM KeysRunOnce == Spec /\ []OneAtATime => []EachKeyRunsOnce
<1>1. RoundInv => EachKeyRunsOnce
  BY DEF RoundInv
<1>2. RoundInv /\ OneAtATime /\ [Next]_vars => RoundInv'
  BY NextRound
<1>3. QED
  BY <1>1, <1>2, InitRound, PTL DEF Spec

\* Every engine run of the campaign, the interrupted ones included, is within
\* the limit the stored ledger has when it starts (BudgetLedger, _restore), as
\* long as at most one orchestrator of the campaign is open.
THEOREM LimitIsKept == Spec /\ []OneAtATime => RunsWithinLimit
<1>1. RoundInv /\ OneAtATime /\ [Next]_vars => RoundInv'
  BY NextRound
<1>2. RoundInv /\ OneAtATime /\ [Next]_vars =>
        [runs' # runs => ExecutedRuns(runs') <= row.doc.limits["engines"]]_vars
  BY NextRound DEF Within
<1>3. QED
  BY <1>1, <1>2, InitRound, PTL DEF Spec, RunsWithinLimit

\* "Limits only tighten. Consumption only grows" (BudgetLedger, merge_restored),
\* across restarts with other limits and saves that fail, one orchestrator at a
\* time.
THEOREM LedgerOnlyTightens == Spec /\ []OneAtATime => LedgerIsMonotone
<1>1. RoundInv /\ OneAtATime /\ [Next]_vars => RoundInv'
  BY NextRound
<1>2. RoundInv /\ OneAtATime /\ [Next]_vars =>
        [row.rev > 0 => \A d \in Dimensions :
           /\ row'.doc.limits[d] <= row.doc.limits[d]
           /\ row'.doc.consumed[d] >= row.doc.consumed[d]]_vars
  BY NextRound
<1>3. QED
  BY <1>1, <1>2, InitRound, PTL DEF Spec, LedgerIsMonotone

\* A stored campaign that has ended, or that an operator has stopped for good,
\* stays as it is (TRANSITIONS, halt, _maybe_resume), one orchestrator at a time.
THEOREM EndsStay == Spec /\ []OneAtATime => EndsAreFinal
<1>1. RoundInv /\ OneAtATime /\ [Next]_vars => RoundInv'
  BY NextRound
<1>2. RoundInv /\ OneAtATime /\ [Next]_vars =>
        [row.rev > 0 /\ Ended(row.doc) =>
           row'.doc.state = row.doc.state /\ row'.doc.stop = row.doc.stop]_vars
  BY NextRound
<1>3. QED
  BY <1>1, <1>2, InitRound, PTL DEF Spec, EndsAreFinal

-----------------------------------------------------------------------------
(* The refinement of RunLedger *)

ledger == <<row.rev > 0, row.doc.limits["engines"], row.doc.consumed["engines"],
            OnRecord(row.doc), Ended(row.doc), runs>>

\* A write of the row is a save of the ledger.
LEMMA WriteIsSave ==
  ASSUME RoundInv, Continued, NEW p \in Procs,
         obj[p].stage = "committing", Write(p), runs' = runs
  PROVE  WriteAhead!Save
<1> DEFINE doc == obj[p].doc
<1>1. /\ obj[p].rev = row.rev /\ row.rev \in Nat
      /\ Sound(doc, runs)
  BY RoundTypes DEF Fits, RoundInv, TypeInv, TypeOK
<1>2. row'.doc = doc /\ row'.rev = row.rev + 1
  BY <1>1 DEF Write
<1>3. row'.rev > 0
  BY <1>1, <1>2
<1>4. row.rev > 0 => /\ row'.doc.limits["engines"] <= row.doc.limits["engines"]
                     /\ row'.doc.consumed["engines"] >= row.doc.consumed["engines"]
                     /\ Ended(row.doc) => Ended(row'.doc)
  BY DEF Continued, Continues, Dimensions, Ended
<1>5. WriteAhead!Cost <= row'.doc.consumed["engines"]
  BY <1>1, <1>2 DEF Sound, Paid, ExecutedRuns, WriteAhead!Cost, Cardinality,
     WriteAhead!Cardinality
<1>6. CASE doc.state # "executing"
  <2>1. OnRecord(row'.doc) = <<>>
    BY <1>2, <1>6 DEF OnRecord
  <2>2. QED
    BY <1>3, <1>4, <1>5, <2>1 DEF WriteAhead!Save
<1>7. CASE doc.state = "executing"
  <2> DEFINE key == [input |-> Latest(doc).input, retry |-> Latest(doc).retry]
  <2>1. OnRecord(row'.doc) = <<key>>
    BY <1>2, <1>7 DEF OnRecord, Latest
  <2>2. WriteAhead!Fresh(key)
    BY <1>1, <1>7 DEF Sound, Announced, SameKey, WriteAhead!Fresh
  <2>3. row'.doc.consumed["engines"] < row'.doc.limits["engines"]
    BY <1>1, <1>2, <1>7 DEF Sound, Announced
  <2>4. ~ Ended(row'.doc)
    BY <1>1, <1>2, <1>7 DEF Sound, StopsForGood, Ended, Terminal
  <2> HIDE DEF key
  <2>5. Len(OnRecord(row'.doc)) = 1 /\ OnRecord(row'.doc)[1] = key
    BY <2>1
  <2>6. QED
    BY <1>3, <1>4, <1>5, <2>2, <2>3, <2>4, <2>5 DEF WriteAhead!Save
<1>8. QED
  BY <1>6, <1>7

\* An engine is called for the run that is on record.
LEMMA CallIsRun ==
  ASSUME RoundInv, NEW p \in Procs, CallEngine(p)
  PROVE  WriteAhead!Run
<1> DEFINE doc == obj[p].doc
           key == [input |-> Latest(doc).input, retry |-> Latest(doc).retry]
<1>1. obj[p].stage = "calling" /\ row' = row
  BY DEF CallEngine, db
<1>2. doc.state = "executing" /\ row.doc = doc /\ Sound(doc, runs)
  BY <1>1, RoundTypes DEF Fits, Holder
<1>3. OnRecord(row.doc) = <<key>>
  BY <1>2 DEF OnRecord, Latest
<1>4. WriteAhead!Fresh(key)
  BY <1>2 DEF Sound, Announced, SameKey, WriteAhead!Fresh
<1>5. PICK result \in ResultsOf(obj[p]) :
        runs' = Append(runs, [input |-> key.input, retry |-> key.retry,
                              executed |-> Executed(result) \/ result = "raised"])
  BY DEF CallEngine, Latest
<1>6. (Executed(result) \/ result = "raised") \in BOOLEAN
  OBVIOUS
<1> HIDE DEF key
<1>7. OnRecord(row.doc) # <<>> /\ OnRecord(row.doc)[1] = key
  BY <1>3
<1>8. QED
  BY <1>1, <1>4, <1>5, <1>6, <1>7 DEF WriteAhead!Run

\* Every step is a save or a run of the ledger, or nothing that it sees.
LEMMA LedgerStep ==
  RoundInv /\ OneAtATime /\ [Next]_vars => [WriteAhead!Next]_ledger
<1> SUFFICES ASSUME RoundInv, OneAtATime, [Next]_vars
             PROVE  WriteAhead!Next \/ UNCHANGED ledger
  OBVIOUS
<1>1. ASSUME row' = row, runs' = runs PROVE UNCHANGED ledger
  BY <1>1 DEF ledger
<1>2. CASE UNCHANGED vars
  BY <1>1, <1>2 DEF vars
<1>3. CASE Next
  <2>1. PICK p \in Procs : Step(p) \/ Operator(p) \/ Store(p) \/ Crash(p)
    BY <1>3 DEF Next
  <2>2. Continued
    <3>1. TypeInv'
      BY <1>3, NextType DEF RoundInv
    <3>2. QED
      BY <2>1, <3>1, RoundStep
  <2>3. CASE CallEngine(p)
    BY <2>3, CallIsRun DEF WriteAhead!Next
  <2>4. CASE StepStops(p) \/ StepRuns(p) \/ StepFails(p) \/ Operator(p) \/ Crash(p)
    BY <1>1, <2>4 DEF StepStops, StepRuns, StepFails, Operator, Open, Resume, Halt,
       GrantRetry, Crash, db
  <2>5. CASE SaveReads(p)
    BY <1>1, <2>5 DEF SaveReads, db
  <2>6. CASE SaveCommits(p) \/ SaveFails(p)
    <3>1. runs' = runs /\ (row' = row \/ (obj[p].stage = "committing" /\ Write(p)))
      BY <2>6 DEF SaveCommits, SaveFails, db
    <3>2. QED
      BY <1>1, <2>2, <3>1, WriteIsSave DEF WriteAhead!Next
  <2>7. QED
    BY <2>1, <2>3, <2>4, <2>5, <2>6 DEF Step, Store
<1>4. QED
  BY <1>2, <1>3

\* A campaign with one orchestrator at a time keeps the write-ahead ledger: what
\* runs is on record, new, within the limit and paid for by every later save.
THEOREM LedgerKept == Spec /\ []OneAtATime => KeepsLedger
<1>1. Init => WriteAhead!Init
  <2> SUFFICES ASSUME Init PROVE WriteAhead!Init
    OBVIOUS
  <2>1. row.rev = 0 /\ row.doc.state = "created" /\ row.doc.stop = "" /\ runs = <<>>
    BY DEF Init, NewDoc
  <2>2. OnRecord(row.doc) = <<>> /\ ~ Ended(row.doc)
    BY <2>1 DEF OnRecord, Ended, Terminal
  <2>3. ~ (0 > 0)
    OBVIOUS
  <2>4. QED
    BY <2>1, <2>2, <2>3, Zenon DEF WriteAhead!Init
<1>2. RoundInv /\ OneAtATime /\ [Next]_vars => RoundInv'
  BY NextRound
<1>3. RoundInv /\ OneAtATime /\ [Next]_vars => [WriteAhead!Next]_ledger
  BY LedgerStep
<1>4. QED
  BY <1>1, <1>2, <1>3, InitRound, PTL DEF Spec, KeepsLedger, WriteAhead!Spec, ledger

=============================================================================
