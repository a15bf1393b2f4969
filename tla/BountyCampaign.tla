--------------------------- MODULE BountyCampaign ---------------------------
(***************************************************************************)
(* The bounty campaign service of one process: request threads that pause, *)
(* stop, resume, step, analyze and start jobs, the workers that run jobs,  *)
(* the registry of live campaign objects, and the two tables behind it.    *)
(*                                                                         *)
(* A campaign object has a lock, an orchestrator and a copy of the         *)
(* campaign record.  Threads interleave at every database call and at      *)
(* every lock.  The orchestrators of a process share one map of revisions  *)
(* (RunnerSqlStore), which a load or a save updates after the database has *)
(* answered.                                                               *)
(***************************************************************************)
EXTENDS Naturals, Sequences, FiniteSets

CONSTANTS
  Callers,     \* threads that serve requests
  Workers,     \* threads that run jobs; a thread in both serves one at a time
  Ops,         \* what the callers may ask for
  PlannerStops, \* how the planner may stop a campaign
  MaxCalls,    \* bound: requests
  MaxRounds,   \* bound: engine rounds
  MaxTroubles  \* bound: saves that the database fails, and restarts

AllOps == {"report", "pause", "stop", "resume", "step", "analyze", "start_job"}

ASSUME CampaignAssumption ==
  /\ Ops \subseteq AllOps
  /\ PlannerStops \subseteq {"blocked", "stopped", "done"} /\ PlannerStops # {}
  /\ MaxCalls \in Nat /\ MaxRounds \in Nat /\ MaxTroubles \in Nat

VARIABLES
  docRow,   \* the stored orchestrator document and its revision
  history,  \* the stored decisions
  recRow,   \* table discovery_bounty_campaigns: the campaign record
  svc,      \* the service's maps and its executor, for this campaign
  objs,     \* the campaign objects registered since the process started
  th,       \* the threads
  made,     \* decisions made so far
  rounds,   \* rounds started so far
  paused,   \* an operator was told of a pause and has not resumed
  calls, faults, crashes

vars == <<docRow, history, recRow, svc, objs, th, made, rounds, paused,
          calls, faults, crashes>>

store == <<docRow, history>>
counters == <<calls, crashes>>

-----------------------------------------------------------------------------
Threads == Callers \union Workers

\* The orchestrator's document, as far as the service can tell: ready to plan,
\* inside a round, stopped so that it can be resumed, paused by the operator,
\* stopped for good (by the operator or a spent budget), or at its end.
DocStates == {"ready", "executing", "blocked", "paused", "stopped", "done"}

\* A number stands for the decisions that one call adds: they carry a time and
\* never equal those of another call.
Doc == [state : DocStates, decisions : Seq(Nat)]
NewDoc == [state |-> "ready", decisions |-> <<>>]

JobActive == {"queued", "running"}
Job == [id : Nat, status : JobActive \union {"idle", "completed", "halted", "failed",
                                             "interrupted"}]

Record == [control : {"active", "paused", "stopped"}, job : Job, rev : Nat]
NewRecord == [control |-> "active", job |-> [id |-> 0, status |-> "idle"], rev |-> 1]

Object == [doc : Doc, rec : Record]

Places ==
  {"idle",
   "again",       \* get is about to be called
   "lookup",      \* the campaign is not registered: its record is read next
   "loading",     \* an orchestrator is constructed: its document is read next
   "starting",    \* and saved
   "built",       \* a job of an earlier process is to be marked
   "registering", \* the object is to be registered
   "got",         \* get has returned
   "halting",     \* _halt is set
   "haltrec",     \* the halted campaign's record is to be saved
   "resaving",    \* the resumed document is to be saved
   "resumerec",   \* and the record
   "submitting",  \* the job is with the executor, but not in _jobs
   "looping",     \* before the next step of a job or an analysis
   "stepping",    \* no halt was seen
   "round",       \* the engine runs
   "noting",      \* the job's progress is to be saved
   "closing"}     \* and its end

\* The places in which a thread holds the lock of its object.
Holding == {"haltrec", "resaving", "resumerec", "submitting", "round", "noting"}

\* The places inside get.
Building == {"again", "lookup", "loading", "starting", "built", "registering"}

\* learn is a revision read or written that the map of revisions does not have yet.
Thread == [op : AllOps \union {"none", "job", "rescue"}, pc : Places, obj : Nat,
           rec : Record, doc : Doc, job : Nat, learn : Nat,
           out : {"completed", "halted"}]

Idle == [op |-> "none", pc |-> "idle", obj |-> 0, rec |-> NewRecord, doc |-> NewDoc,
         job |-> 0, learn |-> 0, out |-> "completed"]

\* cache: the registered object, 0 if none; known: the revision in _revisions,
\* 0 if none; halt: _halt has the campaign; jobs: _jobs has it; queue: the jobs
\* the executor has not started.
NewService == [cache |-> 0, known |-> 0, halt |-> FALSE, jobs |-> FALSE, queue |-> <<>>]

TypeOK ==
  /\ docRow \in [rev : Nat, doc : Doc] /\ history \in Seq(Nat) /\ recRow \in Record
  /\ svc \in [cache : 0 .. Len(objs), known : Nat, halt : BOOLEAN, jobs : BOOLEAN,
              queue : Seq(Nat)]
  /\ objs \in Seq(Object)
  /\ th \in [Threads -> Thread]
  /\ \A t \in Threads : th[t].pc \notin Building \union {"idle"} =>
       th[t].obj \in DOMAIN objs
  /\ made \in Nat /\ rounds \in Nat /\ paused \in BOOLEAN
  /\ calls \in Nat /\ faults \in Nat /\ crashes \in Nat

\* What an earlier process may have left: a campaign just created, a job that
\* died inside a round, and a paused campaign whose document was rolled back by
\* a thread that built it at the same time, so that only its record says that
\* it is paused.
Leftovers ==
  {[doc |-> NewDoc, rec |-> NewRecord, history |-> <<>>, paused |-> FALSE],
   [doc |-> [NewDoc EXCEPT !.state = "executing"],
    rec |-> [NewRecord EXCEPT !.job.status = "running"], history |-> <<>>, paused |-> FALSE],
   [doc |-> NewDoc, rec |-> [NewRecord EXCEPT !.control = "paused"],
    history |-> <<1>>, paused |-> TRUE]}

\* The process has just started.
Init ==
  /\ \E left \in Leftovers :
       /\ docRow = [rev |-> 1, doc |-> left.doc] /\ history = left.history
       /\ recRow = left.rec /\ paused = left.paused
       /\ made = Len(left.history)
  /\ svc = NewService /\ objs = <<>>
  /\ th = [t \in Threads |-> Idle]
  /\ rounds = 0 /\ calls = 0 /\ faults = 0 /\ crashes = 0

At(t, pc) == th[t].pc = pc /\ th[t].learn = 0

Go(t, pc) == [th[t] EXCEPT !.pc = pc]

Becomes(t, thread) == th' = [th EXCEPT ![t] = thread]

Mine(t) == objs[th[t].obj]

Free(o) == ~\E t \in Threads : th[t].obj = o /\ th[t].pc \in Holding

-----------------------------------------------------------------------------
(* Errors, and the two kinds of saves. *)

Rescued(t) == th[t].op = "job" /\ th[t].pc \notin Building

\* Faulty variant: the campaign stays registered.
DroppedNothing(t, evict) ==
  [svc EXCEPT !.halt = @ /\ th[t].pc \notin {"halting", "haltrec"},
              !.jobs = @ /\ th[t].op # "rescue"]

\* What an error leaves of the service's maps.  evict: the campaign is forgotten.
Dropped(t, evict) ==
  [svc EXCEPT !.cache = IF evict \/ Rescued(t) THEN 0 ELSE @,
              !.known = IF evict \/ Rescued(t) THEN 0 ELSE @,
              !.halt = @ /\ th[t].pc \notin {"halting", "haltrec"},
              !.jobs = @ /\ th[t].op # "rescue"]

\* The error reaches the caller.  A job that fails after get is rescued: it
\* reloads the campaign to record its failure.
Fails(t) ==
  Becomes(t, IF Rescued(t) THEN [Idle EXCEPT !.op = "rescue", !.pc = "again"] ELSE Idle)

Raise(t, evict) == Fails(t) /\ svc' = Dropped(t, evict)

Agree(s, t) == \A n \in DOMAIN s \intersect DOMAIN t : s[n] = t[n]

WriteDoc(doc) ==
  /\ docRow' = [rev |-> docRow.rev + 1, doc |-> doc]
  /\ history' = IF Len(doc.decisions) > Len(history) THEN doc.decisions ELSE history

Storable(doc) == svc.known = docRow.rev /\ Agree(doc.decisions, history)

\* Orchestrator._save: refused as a conflict unless the process knows the row's
\* revision, and as an error if it contradicts a stored decision.  A save that
\* the database does not answer in time may still be written.
SaveDoc(t, doc, evict, next) ==
  \/ /\ Storable(doc)
     /\ WriteDoc(doc)
     /\ Becomes(t, [next EXCEPT !.learn = docRow.rev + 1])
     /\ UNCHANGED <<svc, faults>>
  \/ /\ ~Storable(doc)
     /\ Raise(t, evict /\ svc.known # docRow.rev)
     /\ UNCHANGED <<store, faults>>
  \/ /\ faults + crashes < MaxTroubles /\ faults' = faults + 1
     /\ Fails(t)
     /\ \/ svc' = Dropped(t, FALSE) /\ UNCHANGED store
        \/ /\ Storable(doc) /\ WriteDoc(doc)
           /\ svc' = [Dropped(t, FALSE) EXCEPT !.known = docRow.rev + 1]

\* The thread's orchestrator changes its document and saves it.
Advance(t, doc, evict, next) ==
  /\ objs' = [objs EXCEPT ![th[t].obj].doc = doc]
  /\ SaveDoc(t, doc, evict, next)

Newer(rec) == [rec EXCEPT !.rev = @ + 1]

\* _save_record: the update compares the revision in the database.
SaveRecord(t, rec, next, service) ==
  LET o == th[t].obj IN
  \/ /\ recRow.rev = rec.rev
     /\ recRow' = Newer(rec)
     /\ objs' = [objs EXCEPT ![o].rec = Newer(rec)]
     /\ Becomes(t, next) /\ svc' = service
     /\ UNCHANGED faults
  \/ /\ recRow.rev # rec.rev
     /\ objs' = [objs EXCEPT ![o].rec = rec]
     /\ Raise(t, TRUE)
     /\ UNCHANGED <<recRow, faults>>
  \/ /\ faults + crashes < MaxTroubles /\ faults' = faults + 1
     /\ objs' = [objs EXCEPT ![o].rec = rec]
     /\ Raise(t, FALSE)
     /\ recRow' \in {recRow} \union (IF recRow.rev = rec.rev THEN {Newer(rec)} ELSE {})

-----------------------------------------------------------------------------
(* get: the registered object, or one built from the database. *)

\* A report of a registered campaign has nothing more to do.
Enter(op, job) ==
  IF svc.cache = 0 THEN [Idle EXCEPT !.op = op, !.job = job, !.pc = "lookup"]
  ELSE IF op = "report" THEN Idle
  ELSE [Idle EXCEPT !.op = op, !.job = job, !.obj = svc.cache, !.pc = "got"]

\* A request arrives.
Begin(t) ==
  /\ t \in Callers /\ th[t] = Idle /\ calls < MaxCalls
  /\ calls' = calls + 1
  /\ \E op \in Ops : Becomes(t, Enter(op, 0))
  /\ UNCHANGED <<store, recRow, svc, objs, made, rounds, paused, faults, crashes>>

\* The executor starts a job.
TakeJob(w) ==
  /\ w \in Workers /\ th[w] = Idle /\ svc.queue # <<>>
  /\ svc' = [svc EXCEPT !.queue = Tail(@)]
  /\ Becomes(w, Enter("job", Head(svc.queue)))
  /\ UNCHANGED <<store, recRow, objs, made, rounds, paused, faults, counters>>

\* get again: for the report that ends a request, or to rescue a job.
Again(t) ==
  /\ At(t, "again")
  /\ Becomes(t, Enter(th[t].op, 0))
  /\ UNCHANGED <<store, recRow, svc, objs, made, rounds, paused, faults, counters>>

\* The database has answered a load or a save, and _revisions gets its revision.
Learn(t) ==
  /\ th[t].learn # 0
  /\ svc' = [svc EXCEPT !.known = th[t].learn]
  /\ Becomes(t, [th[t] EXCEPT !.learn = 0])
  /\ UNCHANGED <<store, recRow, objs, made, rounds, paused, faults, counters>>

ReadRecord(t) ==
  /\ At(t, "lookup")
  /\ Becomes(t, [Go(t, "loading") EXCEPT !.rec = recRow])
  /\ UNCHANGED <<store, recRow, svc, objs, made, rounds, paused, faults, counters>>

Decided(doc, state) == [state |-> state, decisions |-> Append(doc.decisions, made + 1)]

\* A round that was interrupted is recovered by a decision.
Restored(doc) == IF doc.state = "executing" THEN Decided(doc, "ready") ELSE doc

Loads(t, doc, pc) ==
  /\ made' = IF docRow.doc.state = "executing" THEN made + 1 ELSE made
  /\ Becomes(t, [Go(t, pc) EXCEPT !.doc = doc, !.learn = docRow.rev])

\* Orchestrator.start loads the document, and saves what it has restored.
LoadDoc(t) ==
  /\ At(t, "loading")
  /\ Loads(t, Restored(docRow.doc), "starting")
  /\ UNCHANGED <<store, recRow, svc, objs, rounds, paused, faults, counters>>

SaveStart(t) ==
  /\ At(t, "starting")
  /\ SaveDoc(t, th[t].doc, FALSE, Go(t, "built"))
  /\ UNCHANGED <<recRow, objs, made, rounds, paused, counters>>

\* Faulty variant: no job is ever taken for interrupted.
LeftRunningNever(rec) == FALSE

LeftRunning(rec) == rec.job.status \in JobActive /\ ~svc.jobs

Interrupted(rec) == [rec EXCEPT !.job.status = "interrupted"]

\* _build marks a job that an earlier process has left; a conflict here does not
\* evict the campaign.
MarkJob(t) ==
  LET rec == Interrupted(th[t].rec) IN
  /\ At(t, "built")
  /\ \/ /\ ~LeftRunning(th[t].rec)
        /\ Becomes(t, Go(t, "registering"))
        /\ UNCHANGED <<recRow, svc, faults>>
     \/ /\ LeftRunning(th[t].rec) /\ recRow.rev = rec.rev
        /\ recRow' = Newer(rec)
        /\ Becomes(t, [Go(t, "registering") EXCEPT !.rec = Newer(rec)])
        /\ UNCHANGED <<svc, faults>>
     \/ /\ LeftRunning(th[t].rec) /\ recRow.rev # rec.rev
        /\ Raise(t, FALSE)
        /\ UNCHANGED <<recRow, faults>>
     \/ /\ LeftRunning(th[t].rec) /\ faults + crashes < MaxTroubles /\ faults' = faults + 1
        /\ Raise(t, FALSE)
        /\ recRow' \in {recRow} \union (IF recRow.rev = rec.rev THEN {Newer(rec)} ELSE {})
  /\ UNCHANGED <<store, objs, made, rounds, paused, counters>>

\* Faulty variant: the registry is overwritten, and the object not kept.
RegisterOver(t) ==
  /\ At(t, "registering")
  /\ svc' = [svc EXCEPT !.cache = Len(objs) + 1]
  /\ objs' = IF svc.cache = 0
             THEN Append(objs, [doc |-> th[t].doc, rec |-> th[t].rec]) ELSE objs
  /\ Becomes(t, [Go(t, "got") EXCEPT !.obj = Len(objs) + 1])
  /\ UNCHANGED <<store, recRow, made, rounds, paused, faults, counters>>

\* setdefault: the first object that is built is the one all threads use.
Register(t) ==
  LET o == IF svc.cache = 0 THEN Len(objs) + 1 ELSE svc.cache IN
  /\ At(t, "registering")
  /\ svc' = [svc EXCEPT !.cache = o]
  /\ objs' = IF svc.cache = 0
             THEN Append(objs, [doc |-> th[t].doc, rec |-> th[t].rec]) ELSE objs
  /\ Becomes(t, [Go(t, "got") EXCEPT !.obj = o, !.rec = NewRecord, !.doc = NewDoc])
  /\ UNCHANGED <<store, recRow, made, rounds, paused, faults, counters>>

Report(t) ==
  /\ At(t, "got") /\ th[t].op = "report"
  /\ Becomes(t, Idle)
  /\ UNCHANGED <<store, recRow, svc, objs, made, rounds, paused, faults, counters>>

\* A request that succeeded returns a report.
Reports == [Idle EXCEPT !.op = "report", !.pc = "again"]

Refused(t) ==
  /\ Becomes(t, Idle)
  /\ UNCHANGED <<store, recRow, svc, objs, made, rounds, paused, faults, counters>>

-----------------------------------------------------------------------------
(* Pause, stop and resume. *)

\* The control is read without the lock; a job sees _halt at its next step.
Signal(t) ==
  /\ At(t, "got") /\ th[t].op \in {"pause", "stop"}
  /\ \/ Mine(t).rec.control = "stopped" /\ Refused(t)
     \/ /\ Mine(t).rec.control # "stopped"
        /\ svc' = [svc EXCEPT !.halt = TRUE]
        /\ Becomes(t, Go(t, "halting"))
        /\ UNCHANGED <<store, recRow, objs, made, rounds, paused, faults, counters>>

Haltable(doc, op) ==
  doc.state \in {"ready", "blocked"} \/ (doc.state = "paused" /\ op = "stop")

HaltState(op) == IF op = "pause" THEN "paused" ELSE "stopped"

\* Orchestrator.halt, under the lock: saves a new stop, keeps an old one, and
\* refuses to halt inside a round.
HaltDoc(t) ==
  LET doc == Mine(t).doc
      op == th[t].op
  IN
  /\ At(t, "halting") /\ Free(th[t].obj)
  /\ \/ /\ Haltable(doc, op)
        /\ made' = made + 1
        /\ Advance(t, Decided(doc, HaltState(op)), FALSE, Go(t, "haltrec"))
     \/ /\ ~Haltable(doc, op)
        /\ IF doc.state = "executing"
           THEN Raise(t, FALSE)
           ELSE Becomes(t, Go(t, "haltrec")) /\ UNCHANGED svc
        /\ UNCHANGED <<store, objs, made, faults>>
  /\ UNCHANGED <<recRow, rounds, paused, counters>>

\* Faulty variant: waits, with the lock in hand, until the campaign's job is over.
HaltRecordAfterJob(t) ==
  LET op == th[t].op IN
  /\ At(t, "haltrec") /\ ~svc.jobs
  /\ SaveRecord(t, [Mine(t).rec EXCEPT !.control = HaltState(op)], Reports,
                [svc EXCEPT !.halt = FALSE])
  /\ paused' = (paused \/ (op = "pause" /\ th'[t] = Reports))
  /\ UNCHANGED <<store, made, rounds, counters>>

\* The record follows, and the operator is told.
HaltRecord(t) ==
  LET op == th[t].op IN
  /\ At(t, "haltrec")
  /\ SaveRecord(t, [Mine(t).rec EXCEPT !.control = HaltState(op)], Reports,
                [svc EXCEPT !.halt = FALSE])
  /\ paused' = (paused \/ (op = "pause" /\ th'[t] = Reports))
  /\ UNCHANGED <<store, made, rounds, counters>>

\* Faulty variant: a stopped campaign may go on as well.
ResumedStopped(doc) ==
  [doc EXCEPT !.state = IF @ \in {"blocked", "paused", "stopped"} THEN "ready" ELSE @]

Resumed(doc) ==
  [doc EXCEPT !.state = IF @ \in {"blocked", "paused"} THEN "ready" ELSE @]

\* resume restores the stored document into the object.
ResumeLoad(t) ==
  LET rec == Mine(t).rec
      doc == Resumed(Restored(docRow.doc))
      accepted == rec.control # "stopped" /\ rec.job.status \notin JobActive
  IN
  /\ At(t, "got") /\ th[t].op = "resume" /\ Free(th[t].obj)
  /\ \/ ~accepted /\ Refused(t)
     \/ /\ accepted
        /\ Loads(t, NewDoc, "resaving")
        /\ objs' = [objs EXCEPT ![th[t].obj].doc = doc]
        /\ paused' = FALSE
        /\ UNCHANGED <<store, recRow, svc, rounds, faults, counters>>

ResumeSave(t) ==
  /\ At(t, "resaving")
  /\ SaveDoc(t, Mine(t).doc, TRUE, Go(t, "resumerec"))
  /\ UNCHANGED <<recRow, objs, made, rounds, paused, counters>>

ResumeRecord(t) ==
  /\ At(t, "resumerec")
  /\ SaveRecord(t, [Mine(t).rec EXCEPT !.control = "active"], Reports, svc)
  /\ UNCHANGED <<store, made, rounds, paused, counters>>

-----------------------------------------------------------------------------
(* Steps.  The lock is held from the check until the step is saved. *)

\* Faulty variant: a paused campaign may run.
RunnableWhenPaused(rec) == rec.control # "stopped"

\* _check_runnable, without the question for a job.
Runnable(rec) == rec.control = "active"

Stops == {"blocked", "paused", "stopped", "done"}

\* Where a thread goes after a step.
After(t, progressed) ==
  CASE th[t].op = "job" -> {Go(t, "noting")}
    [] th[t].op = "analyze" /\ progressed -> {Go(t, "looping"), Reports}
    [] OTHER -> {Reports}

\* Orchestrator.step up to the engine call: nothing to do, an illegal step that
\* fails the campaign, a stop, or a round whose start is saved.
StepLocked(t) ==
  LET doc == Mine(t).doc IN
  /\ \/ /\ doc.state \in Stops
        /\ \E next \in After(t, FALSE) : Becomes(t, next)
        /\ UNCHANGED <<store, svc, objs, made, faults>>
     \/ /\ doc.state = "executing"
        /\ \E next \in After(t, FALSE) :
             Advance(t, [doc EXCEPT !.state = "done"], TRUE, next)
        /\ UNCHANGED made
     \/ /\ doc.state = "ready"
        /\ made' = made + 1
        /\ \E state \in PlannerStops, next \in After(t, FALSE) :
             Advance(t, Decided(doc, state), TRUE, next)
     \/ /\ doc.state = "ready" /\ rounds < MaxRounds
        /\ Advance(t, [doc EXCEPT !.state = "executing"], TRUE, Go(t, "round"))
        /\ UNCHANGED made
  /\ rounds' = IF th'[t].pc = "round" THEN rounds + 1 ELSE rounds
  /\ UNCHANGED <<recRow, paused, counters>>

\* The engine has run; the outcome is decided and saved.
RoundEnds(t) ==
  /\ At(t, "round")
  /\ made' = made + 1
  /\ \E state \in {"ready", "done"} : \E next \in After(t, state = "ready") :
       Advance(t, Decided(Mine(t).doc, state), TRUE, next)
  /\ UNCHANGED <<recRow, rounds, paused, counters>>

\* The execute request.
Step(t) ==
  LET rec == Mine(t).rec
      accepted == Runnable(rec) /\ rec.job.status \notin JobActive
  IN
  /\ At(t, "got") /\ th[t].op = "step" /\ Free(th[t].obj)
  /\ (~accepted /\ Refused(t)) \/ (accepted /\ StepLocked(t))

\* analyze, and a job, look for a halt before they take the lock for a step.
Loop(t) ==
  /\ At(t, "looping") \/ (At(t, "got") /\ th[t].op = "analyze")
  /\ Becomes(t, IF ~svc.halt THEN Go(t, "stepping")
                ELSE IF th[t].op = "analyze" THEN Reports
                ELSE [Go(t, "closing") EXCEPT !.out = "halted"])
  /\ UNCHANGED <<store, recRow, svc, objs, made, rounds, paused, faults, counters>>

AnalyzeStep(t) ==
  LET rec == Mine(t).rec
      accepted == Runnable(rec) /\ rec.job.status \notin JobActive
  IN
  /\ At(t, "stepping") /\ th[t].op = "analyze" /\ Free(th[t].obj)
  /\ (~accepted /\ Refused(t)) \/ (accepted /\ StepLocked(t))

-----------------------------------------------------------------------------
(* Jobs. *)

WithJob(rec, id, status) == [rec EXCEPT !.job = [id |-> id, status |-> status]]

\* The job is recorded and given to the executor.  A number is a fresh job_id.
StartJob(t) ==
  LET rec == Mine(t).rec
      accepted == /\ Runnable(rec) /\ rec.job.status \notin JobActive
                  /\ Mine(t).doc.state # "done"
  IN
  /\ At(t, "got") /\ th[t].op = "start_job" /\ Free(th[t].obj)
  /\ \/ ~accepted /\ Refused(t)
     \/ /\ accepted
        /\ SaveRecord(t, WithJob(rec, calls, "queued"), Go(t, "submitting"),
                      [svc EXCEPT !.queue = Append(@, calls)])
        /\ UNCHANGED <<store, made, rounds, paused, counters>>

Submitted(t) ==
  /\ At(t, "submitting")
  /\ svc' = [svc EXCEPT !.jobs = TRUE]
  /\ Becomes(t, Reports)
  /\ UNCHANGED <<store, recRow, objs, made, rounds, paused, faults, counters>>

JobOver == [svc EXCEPT !.jobs = FALSE]

\* _run_job: a job that is not the campaign's any more returns at once.
JobRuns(w) ==
  LET rec == Mine(w).rec IN
  /\ At(w, "got") /\ th[w].op = "job" /\ Free(th[w].obj)
  /\ \/ /\ rec.job.id # th[w].job
        /\ Becomes(w, Idle) /\ svc' = JobOver
        /\ UNCHANGED <<recRow, objs, faults>>
     \/ /\ rec.job.id = th[w].job
        /\ SaveRecord(w, WithJob(rec, rec.job.id, "running"), Go(w, "looping"), svc)
  /\ UNCHANGED <<store, made, rounds, paused, counters>>

JobStep(w) ==
  /\ At(w, "stepping") /\ th[w].op = "job" /\ Free(th[w].obj)
  /\ \/ /\ ~Runnable(Mine(w).rec)
        /\ Becomes(w, [Go(w, "closing") EXCEPT !.out = "halted"])
        /\ UNCHANGED <<store, recRow, svc, objs, made, rounds, paused, faults, counters>>
     \/ Runnable(Mine(w).rec) /\ StepLocked(w)

\* The job's progress is saved; the loop ends without progress or at its limit.
JobNotes(w) ==
  /\ At(w, "noting")
  /\ \E pc \in {"closing"} \union (IF Mine(w).doc.state = "ready" THEN {"looping"} ELSE {}) :
       SaveRecord(w, Mine(w).rec, Go(w, pc), svc)
  /\ UNCHANGED <<store, made, rounds, paused, counters>>

JobCloses(w) ==
  LET rec == Mine(w).rec IN
  /\ At(w, "closing") /\ Free(th[w].obj)
  /\ SaveRecord(w, WithJob(rec, rec.job.id, th[w].out), Idle, JobOver)
  /\ UNCHANGED <<store, made, rounds, paused, counters>>

\* The failure is recorded on a reloaded campaign, if that succeeds.
RescueJob(w) ==
  LET rec == Mine(w).rec IN
  /\ At(w, "got") /\ th[w].op = "rescue" /\ Free(th[w].obj)
  /\ SaveRecord(w, WithJob(rec, rec.job.id, "failed"), Idle, JobOver)
  /\ UNCHANGED <<store, made, rounds, paused, counters>>

-----------------------------------------------------------------------------
\* The process dies and starts again: only the tables are left.
Crash ==
  /\ faults + crashes < MaxTroubles /\ crashes' = crashes + 1
  /\ svc' = NewService /\ objs' = <<>> /\ th' = [t \in Threads |-> Idle]
  /\ UNCHANGED <<store, recRow, made, rounds, paused, calls, faults>>

Get(t) ==
  \/ Again(t) \/ Learn(t) \/ ReadRecord(t) \/ LoadDoc(t) \/ SaveStart(t)
  \/ MarkJob(t) \/ Register(t)

Request(t) ==
  \/ Report(t) \/ Signal(t) \/ HaltDoc(t) \/ HaltRecord(t)
  \/ ResumeLoad(t) \/ ResumeSave(t) \/ ResumeRecord(t)
  \/ Step(t) \/ AnalyzeStep(t) \/ StartJob(t) \/ Submitted(t)

RunsJob(t) ==
  \/ TakeJob(t) \/ JobRuns(t) \/ JobStep(t) \/ JobNotes(t) \/ JobCloses(t) \/ RescueJob(t)

\* What a thread does once it has been started.
Runs(t) == Get(t) \/ Request(t) \/ Loop(t) \/ RoundEnds(t) \/ RunsJob(t)

Next == (\E t \in Threads : Begin(t) \/ Runs(t)) \/ Crash

Spec == Init /\ [][Next]_vars

-----------------------------------------------------------------------------
(* Properties *)

\* No object of the campaign has been evicted since the process started.
OneObject == Len(objs) <= 1

\* "A concurrent execute cannot bypass a pause" (phase 51): after an operator was
\* told of a pause, and has not resumed, no round starts, whether by execute,
\* analyze or a job, and also after a restart.  This needs all threads to use
\* one object (_check_runnable, _run_job, Orchestrator.step).
PauseIsRespected ==
  [][rounds' # rounds /\ OneObject => ~paused]_vars

\* The operator's stop is stored, and every registered object knows of it.
ResearchStopped ==
  docRow.doc.state = "stopped" /\ \A o \in DOMAIN objs : objs[o].doc.state = "stopped"

\* A stop that was stored is the end of the research, whatever became of the
\* record's control: its save may have failed, or a pause that waited for the
\* stop may have written over it, and a resume is then accepted (_halt_campaign,
\* _maybe_resume).  A restart does not change it.  A thread that is building the
\* campaign again is excepted: it may save the document it loaded before the stop.
StopIsFinal ==
  [][ResearchStopped /\ OneObject' /\ (\A t \in Threads : th[t].pc # "starting")
     => ResearchStopped' /\ rounds' = rounds]_vars

\* Unless the database has failed, or the stored decisions contradict its own,
\* the registered orchestrator is between two rounds when no engine runs for it:
\* a save that a conflict refuses takes the object out of the registry, since
\* its next step would fail the campaign for good (_step_locked, _save_record).
\* A save refused for its decisions does not: see the README.
RegisteredIsBetweenRounds ==
  faults = 0 /\ svc.cache # 0 =>
    LET doc == objs[svc.cache].doc IN
    doc.state = "executing" /\ Agree(doc.decisions, history) =>
      \E t \in Threads : th[t].obj = svc.cache /\ th[t].pc = "round"

\* A registered campaign that says a job is queued or running has a job that
\* will finish: otherwise execute, resume and analyze are refused until the
\* process restarts (_build marks jobs of earlier processes, _run_job ends its
\* own).  Excepted are a save that fails, and an object that has been evicted and
\* replaced (OneObject): a worker that still has the old one ends the job of that
\* one, and a worker that finds none and whose get fails, which _run_job calls
\* outside its try, leaves its future in _jobs.
NoPhantomJob ==
  OneObject /\ faults = 0 /\ svc.cache # 0 =>
    LET rec == objs[svc.cache].rec IN
    rec.job.status \in JobActive =>
      svc.jobs \/ \E t \in Threads : th[t].pc = "submitting"

\* While a thread is inside the service, some thread can go on: the locks of a
\* campaign's objects never make everyone wait, and nobody who holds one waits
\* for a thread that needs it, whatever failed in between.
NobodyIsStuck ==
  (\E t \in Threads : th[t] # Idle) => \E t \in Threads : ENABLED Runs(t)

=============================================================================
