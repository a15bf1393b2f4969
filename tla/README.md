# BugForge in TLA+

BugForge is a platform for evidence-first debugging and authorised security
research: a FastAPI backend (`backend/app`), a SQL database, a web frontend, and
engines that analyse, test and verify code. This directory specifies the parts
of the backend where several actors, a database and failures meet, checks them
with TLC on small instances and proves the most important facts with TLAPS for
instances of every size.

Paths below are relative to `backend/app` unless they start with `docs/`.

## 1. The system

| Component | State | Operations | Hard behaviour | What makes it correct |
|---|---|---|---|---|
| HackerOne report submission (`adapters/hackerone/reports.py`, `repositories/hackerone_repo.py`, `api/v1/endpoints/hackerone.py`) | drafts and submission records, in two tables and in the memory of one shared provider; claims with an expiry; approvals | create, edit, mark ready, approve, submit, reconcile | concurrent handlers on one event loop share memory filled from the tables; a crash between POST and commit; POSTs that time out; expiring claims and approvals | only what a human approved is posted; at most one POST per claim; no second POST while the first may have been accepted; no claim holds a finding for ever |
| HackerOne intents and attachments (`adapters/hackerone/intents.py`) | local intents, remote intent ids, attachments | create, approve, upload, submit | a submit path of its own, without the database claim | one remote report per finding, attachments reviewed before upload |
| HackerOne client, sync, scope evaluation (`client.py`, `provider.py`, `evaluator.py`) | cached programs and scopes | list, fetch, evaluate | pagination, rate limits, stale scopes | a stale scope authorises nothing |
| Adaptive research orchestrator (`discovery/orchestration/`) | a campaign document: state, executions, decisions, ledger, engine health; a row with a revision; insert-only decision rows | start, step, halt, resume, grant_retry, save, restore | write-ahead record and crash; two processes on one row; saves that fail or commit late; limits that change with a restart | a run is never repeated under the same key; limits only tighten, consumption only grows; ended campaigns stay ended; history and document agree |
| Bounty campaign service (`discovery/bounty/service.py`, `services/bounty_campaign_store.py`) | campaign record with revision, background jobs, a cache of live campaigns | create, step, pause, stop, resume, jobs, approvals | pause/stop against a running job, cache eviction, two objects of one campaign | a paused campaign does not run; a recorded job exists; no stored decision is lost |
| Security research agent (`security_agent/`, `repositories/security_agent_repo.py`, `api/v1/endpoints/security_agent.py`) | sessions in a registry, one lock and one row each; flags for pause and stop; a budget | step, external decision, tool call, replay, pause, stop, resume, limits | operator requests take no lock and overlap steps; saves write the columns that changed; restores from the row | nothing starts after a stop, or during a pause; work stays within the budget; every request ends and gives the lock back |
| Authorised security testing (`security_testing/`, `security_agent/privilege.py`) | scope, approvals, counters, rate window; privileges saved with a session | authorize, send, follow redirects, grant, capture, restore | clients share counters across awaits; redirects; approvals that expire; scopes that change | limits hold, and rates of one a second or more; credentials stay home; active testing and fuzzing have a human behind them |
| Finding lifecycle (`domain/`, `services/finding_lifecycle.py`, `repositories/security_finding_repo.py`) | a row for each finding: status, review, target, evidence | scan, attach, collect, corroborate, reproduce, verify, accept, reject | scans read without the row lock that lifecycle calls hold; targets change under the evidence | a status rests on evidence for the present target; rejection is final; evidence is kept |
| Verification, reproduction, repair (`services/`) | stages of a repair | verify, reproduce, repair | one stage failing | a repair is verified before it is offered |
| Jobs and discovery services | background jobs | enqueue, run, cancel | cancellation against completion | a job ends once |
| Discovery scheduler (`discovery/scheduler.py`) | engines started, selected work | select, run_engine | limits at their edge | never more than the limit |
| Bounty engine, parsers, static analysis, execution sandbox, AI providers, plugins, control server, frontend | program graphs, processes, HTTP | analyse, execute, present | external tools | - |

Interactions. An HTTP handler hydrates the provider from the database, calls the
workflow, and saves what changed; between these it gives up the event loop. The
campaign service owns orchestrators and serialises their calls with a lock for
each campaign; an orchestrator calls the scheduler, which runs an engine, and
saves through a store that talks to the database on another thread with a
timeout. Processes share nothing but the database.

`PROJECT.json` lists every component, with the hazards of the modelled ones at
the line where they bite.

## 2. Plan

1. **`HackerOneSubmission`** (done), which implements **`SubmissionGate`**: the
   only part of BugForge that acts on the outside world irrevocably. Proved: the
   refinement and every safety property, two of them where submissions run alone.
2. **`ResearchOrchestrator`** (done): ledger, write-ahead, store. It implements
   **`RunLedger`**. Proved: types and `HistoryIsConsistent`; while at most one
   orchestrator of the campaign is open, the refinement, `EachKeyRunsOnce`, `RunsWithinLimit`,
   `LedgerIsMonotone` and `EndsAreFinal`.
3. **`BountyCampaign`** (done for one process): pause, stop and resume against a
   running job, the registry of live campaigns and its eviction, the revision of
   its own store. The orchestrator of (2) is reduced to what the service sees of
   it. Proved: types, `RegisteredIsBetweenRounds`, `StopIsFinal`,
   `PauseIsRespected`, `NoPhantomJob`. Next: approvals.
4. **`SecurityAgent`** (done for one session): requests, lock, budget, row.
   Proved: every safety property. Next: checkpoints.
5. **`TestingEngine`** (done): authorization, limits, redirects, restored
   privileges. Proved: every safety property. Next: the composition with (4),
   whose tools are its clients.
6. **`FindingLifecycle`** (done for one row), which implements
   **`FindingPromise`**. Proved: every safety property and the refinement.
7. **HackerOne intents**: the second submit path, composed with (1).
   **Scheduler** selection as pure functions against a reference definition.

## 3. `HackerOneSubmission`

### State and actions

| Variable | Code |
|---|---|
| `draftRow`, `draftLease` | table `hackerone_report_drafts` and its `claim_expires_at` |
| `subRow` | table `hackerone_submissions`, one row per finding |
| `memDraft`, `memSub` | `HackerOneReportWorkflow.drafts` and `.submissions`, shared by all handlers |
| `req` | the handlers in flight: operation, stage, snapshot read, row loaded, claim |
| `world` | the current scope of the program and evidence of the findings |
| `claims`, `expired` | claims issued, claims past their ten minutes |
| `granted`, `lapsed` | human approvals, approvals past their 24 hours |
| `posts` | what HackerOne has received, with the outcome the client saw |

A handler is a sequence of actions, one for every stretch between two database
calls: `Begin` and hydrate (read, apply), `Bind` (load program and finding), the
workflow call (`CreateDraft`, `MarkReady`, `ApplyEdits`, `HumanApprove`,
`Reconcile`), the claim (`ReadSubmissionRow`, `ClaimSubmission`, `Rehydrate`),
`RejectStale` or `PostReport`, reading the record back and `Commit`; `Refuse`
stands for the early returns. The environment expires claims and approvals,
changes scope and evidence, and crashes the process.

What is abstracted:

- a draft's title and text are a member of `Contents`; hashes of content, scope
  and evidence are the versions themselves, so equal hashes mean equal inputs.
  Drafts of different findings may have the same content;
- hydrate is one read and one apply step; a save loads its row together with the
  workflow call and at commit writes only the columns that changed, as the ORM
  does. Program and finding are kept by the handler from `Bind` on;
- the POST blocks the event loop (the client is synchronous), so it is one step;
  it is never retried, a time-out leaves open whether it was accepted, an HTTP
  error means it was not. The client gives up after 20 seconds and the claim
  lasts ten minutes, so a claim does not expire under a live handler;
- reconciliation may see any part of the accepted reports. The code compares
  title, text and the time of the attempt, not the finding, and neither does
  `SameReport`; the time window is left out, which lets the model match more;
- row locks inside one transaction, audit events, the dry run, attachments and
  the quality checks of a report (a refusal) are left out. The states
  `SUBMISSION_IN_PROGRESS` and `rejected` are never assigned by the code.

### Runs

| Run | Instance | Shows |
|---|---|---|
| `h1_crash` | 2 drafts of one finding and 1 of another in the same words, 1 handler at a time, 1 crash, 2 claims | `TypeOK`, `RepostedOnlyAfterCrash`, `ReportIdsAreReal`, `ReportIdIsKept` |
| `h1_approval` | 1 draft, 2 contents, 2 handlers, 1 approval that may lapse | `OnlyApprovedIsPosted` when edits and approvals are saved column by column; `KeepsGate`, for approvals |
| `h1_claims` | 1 draft, 2 submit handlers, 2 claims, 1 change of scope and of evidence, 1 lapse, 1 crash, fairness | `OnlyApprovedIsPosted` under a changing scope and evidence; `OnePostPerClaim`; `KeepsGate`, for claims; `ClaimDoesNotWedge` |
| `h1_two_claimants` | 2 drafts, 2 handlers, no crash | *violated*: `OneClaimantPerFinding` |

Bounds. Two handlers suffice for a race on one row, two drafts of one finding for
a conflict between a draft row and a submission row, a second finding for a report
that is taken for another's, two claims for a takeover, and one crash to separate
memory from tables; each run varies the dimensions its question needs and keeps
the others at their smallest value. Handlers, contents and drafts of one finding
are interchangeable: the `CHOOSE`n placeholders are never read. In `h1_claims`
the bounds can be used up, after which an operator has nothing left to ask for, so
deadlock is not checked there.

Fairness. `FairSpec` gives each handler weak fairness (asyncio runs every ready
task) and each claim's expiry weak fairness (time passes). Operators, HackerOne
and crashes are not fair. No symmetry is used there.

The violation: the claim's UPDATE does not compare the expiry the SELECT looked
at, so two requests that both found the claim expired both take it over.

### `SubmissionGate`

The abstract specification knows no drafts, tables, memory or handlers. Humans
approve reports, approvals lapse, claims are issued and expire, and a report is
sent only as it was approved, while the approval holds, under a claim that is
live and unspent. It says more than the invariants about `posts`, which keep no
times: an approval that lapsed between the check and the POST, or a claim that
expired, would leave the same history. `KeepsGate` is `Gate!Spec` under the
mapping of `granted` to the approvals and of `Sent`, a projection of `posts`, to
what was sent. All that a handler does to drafts is a stutter.

### Proofs (`HackerOneSubmission_proofs`)

`TypeCorrect` proves `TypeOK` inductive, one step for every action.
`ApprovedPosts` proves `OnlyApprovedIsPosted` for every number of drafts,
findings, handlers and crashes. The property is not inductive, because a POST
takes its approval number from a draft in memory that came from a row, another
handler's snapshot or a half-saved request. `OwnApprovals` says that wherever a
draft `d` is kept, its approval number is 0 or that of an approval granted for
`d`: `RowsOwn` for the tables, `MemoryOwns` for the provider, `RequestOwns` for
every snapshot, loaded row and pending write of a handler. It survives
column-wise saves since the approval and its hashes move together. At the POST,
the code's comparison of the current hashes with the granted ones supplies the
rest.

`ClaimsAreSpentOnce` proves `OnePostPerClaim` for any number of racing handlers.
What makes it inductive is `ClaimsHeld`. For every handler, its claim number is
one that was issued, is 0 before the claim and not 0 when it posts, and no POST
carries it as long as the handler has yet to post (`ClaimHeld`); and no two
handlers hold the same number (`HeldAlone`). It does not say that a finding has
one claimant, which is false (the violation above): two claimants post under two
claims.

`ReportsAreReal` proves `ReportIdsAreReal`. The tables get their report ids from
copies, so `RealReports` says of every copy - tables, memory, snapshots, loaded
rows and pending writes - that its report is one HackerOne accepted, and one sent for that
finding unless an attempt for it was left without a usable answer (`InDoubt`).
That exception is the code's: a reconciliation takes any listed report with the
same title and text. It is also the only one: only a draft whose outcome is
unknown searches, and `Unanswered` says that such a draft, in whatever copy, has
an attempt of its finding behind it. POSTs are only ever appended, so a real
report stays real and an attempt in doubt stays one.

`GateKept` proves `Spec => KeepsGate`. Approvals, lapses, claims, expiries and
POSTs map to the gate's five steps, every other step to a stutter
(`GateStep`). A POST needs `OwnApprovals` and `ClaimsHeld`, and `ClaimsLive`: no
handler holds an expired claim. The last rests on the guard of `ExpireClaim`,
that ten minutes outlast a handler that still runs.

Assumption: `SubmissionAssumption` (types of the constants, at least one draft
and one content).

### Proofs (`HackerOneSerial_proofs`)

`RepostedOnlyAfterCrash` and `ReportIdIsKept` are false of handlers that overlap
freely: one may refill the shared memory while a submission waits to save its
record (`api/v1/endpoints/hackerone.py:400`, section 9). What they need is
`SubmitsAlone`: while a submission or a reconciliation is in flight, no other
handler is. Nothing in the code enforces it; an operator who submits one report at a
time, and does nothing else meanwhile, provides it. It is weaker than one handler
at a time, since drafts may be created, marked, edited and approved concurrently,
so stale snapshots and half-saved edits do meet a later submission.
`RepostsOnlyAfterCrashes` and `ReportIdsAreKept` prove both properties from
`Spec /\ []SubmitsAlone`, and `OneHandlerIsEnough` from `Spec` alone where
`Requests` has one member, which is the instance of `h1_crash`.

`SerialInv` makes them inductive. That a finding is not posted again rests on its
row, but what the row becomes comes from a draft in memory, and what that is from
rows and snapshots read at other times. So `CopiesAgree` says of every copy of a
draft - row, memory, snapshot, pending write - that the report it names, or the
doubt it records, is the finding's row's too. The copies that a submission is
about to save are excepted (`Window`), and `SubmitterFits` says what they and the
claim amount to at each stage (`ReadsStored`, `HoldsClaim`, `SavesResult`).
`OneUnknown` says that at most one draft of a finding is in doubt, so a
reconciliation settles the finding. `AllResolved` relates the tables to HackerOne: a
POST that may have been accepted has its report or its doubt in the finding's
row, is held by the submission in flight, or was cut off by a crash under a claim
that still stands in the row or has expired. The invariant was found with TLC, on two handlers, two
drafts, two claims and a crash, before it was proved.

## 4. `ResearchOrchestrator`

### State and actions

| Variable | Code |
|---|---|
| `row` | `discovery_orchestration_campaigns`: revision and document |
| `history` | `discovery_orchestration_decisions`, insert-only |
| `obj` | the orchestrator of each process: document in memory, revision loaded, limits, engines the scheduler has run, and the stage of the call in progress |
| `runs` | every engine run started |
| `opens`, `resumes`, `faults` | bounded events |

`Open` constructs and starts an orchestrator (new or restored: `Merged`,
`Recovered`, `Normalized`); `Resume` is `start(explicit_resume=True)`; a step
stops (`StepStops`), records a start (`StepRuns`) or fails (`StepFails`);
`CallEngine` is the engine run and the settlement of the round; `Halt` and
`GrantRetry` are the operator's. Each ends in a save in two actions: `SaveReads`
compares revisions, `SaveCommits` writes the row and the decision rows;
`SaveFails` is a database that fails or commits after the caller has given up;
`Crash` loses the process.

What is abstracted:

- a process has one orchestrator of the campaign, whose calls are serialised by the
  campaign lock, so it has one call in progress; a late save that overlaps another
  save of the same process is left out. This is an assumption about the callers:
  two threads in `get` can each build, start and save an orchestrator before one of
  them is registered (`discovery/bounty/service.py:376-387`, `431-451`), outside the
  lock. Several orchestrators of one process, which also share a revision map, are
  the subject of `BountyCampaign`;
- an engine, a capability and an input digest are one member of `Inputs`; which
  need is served first is a nondeterministic choice among the inputs the checks
  of `_first_rejection` admit, and what availability, prerequisites and gate say
  is chosen anew at each step. Each input has its own engine health;
- stop reasons with the same end and the same resumability share a name;
  `unsupported` counts as `blocked`;
- of the budget dimensions, engines, rounds and attempts are kept; executions
  move with engines, the caps for single capabilities and the seconds are left out;
- a decision is the record of what it decides, coarser than its hash;
- two completed rounds allow the redundant stop, whether or not their evidence
  is equal; the failing reservation is left out since the planner has just asked
  the same ledger.

### Runs

| Run | Instance | Shows |
|---|---|---|
| `orch_rounds` | 1 process, 1 orchestrator at a time, 2 inputs, limits 1 or 2, 2 constructions, 1 resume, 1 failed or late save | `TypeOK`, `EachKeyRunsOnce`, `RunsWithinLimit`, `LedgerIsMonotone`, `EndsAreFinal`, `KeepsLedger` |
| `orch_writers` | 2 processes, 1 input, 1 resume | `HistoryIsConsistent` although the revision check is not atomic |

Bounds. Two constructions give a crash with a restart under other limits; limits
of one and two let a limit tighten in the middle of a campaign; a round that
completes, times out or raises covers the three ways a round is settled (full cost,
retryable, unknown outcome); a single fault may hit any save. A campaign that
has ended rests, so deadlock is not checked. `Spec` has no fairness: an operator
drives every step and nothing is promised eventually.

### `RunLedger`

The abstract specification is the stored ledger alone: a run starts only when it is
on record, a record is made only of a run that is new and within the limit, and
each save pays for every run there has been. Limits tighten, consumption grows, an
end is final. `KeepsLedger` maps the row and `runs` to it; memory, failed saves,
restarts and processes are stutters. It adds the write-ahead rule to the other
properties: an engine never runs on a record that was not committed, which a
failed or late save might bring about. As with them, two orchestrators of the
campaign break it.

### Proofs (`ResearchOrchestrator_proofs`)

`TypeCorrect` proves `TypeOK` for any number of processes, inputs, budgets,
restarts and faults. `TypeOK` alone is not inductive: settling a round reads the
last execution, so `TypeInv` adds that an executing document has one and that an
engine is only called from an executing document (`Holder`). A lemma for each
document operator shows that it stays within the type.

`ConsistentHistory` proves `HistoryIsConsistent` for any number of processes: only
`Write` changes the tables, `Storable` compares the decisions with the rows in
the same step, and the longer of two agreeing sequences keeps the other as its
beginning. It does not rest on the revision check, which two writers can pass
together.

The other properties do: the check is not part of the UPDATE, and two
orchestrators that load one revision run one key twice. So `KeysRunOnce`, `LimitIsKept`,
`LedgerOnlyTightens` and `EndsStay` have the hypothesis `[]OneAtATime`: at most
one orchestrator of the campaign is open at a time. Processes may still crash, hand
over, restart with other limits and lose saves. Nothing in the code enforces the
hypothesis: not between processes, and not in one process either, where `get`
restores outside the campaign lock. A deployment with one process whose requests for a
campaign do not overlap while it is being loaded provides it. The inductive invariant is `RoundInv`:

- `Stored`: in the stored document every started run is recorded under its key
  (`Recorded`), executions are numbered in order (`Numbered`), an operator's stop
  is an end (`StopsForGood`), and what was run is paid for once interrupted runs
  are counted (`PaidAfterRecovery`). This is the write-ahead rule, and what a
  restart relies on;
- `Fits`: an open orchestrator that has the row's revision holds a sound document
  that continues the stored one, and calls an engine only when both are equal;
- `EachKeyRunsOnce` itself, and no run before the first save.

A round starts with a key that no execution of the document has, and by
`Recorded` no run has it either. `Continues` (same limits or lower, same
consumption or more, an end is kept) is what the action properties follow from.

`LedgerKept` proves `KeepsLedger` under the same hypothesis. Each write of the row maps to a save: `Sound` says of the document
that is written that it has paid for all runs and announces a new one. An engine
call maps to a run: it is made from the document that is stored. Assumption:
`OrchestratorAssumption`.

## 5. `BountyCampaign`

### State and actions

| Variable | Code |
|---|---|
| `docRow`, `history` | the orchestrator's row and its decision rows |
| `recRow` | `discovery_bounty_campaigns`: control, job and revision |
| `svc` | the service's maps for this campaign: `_campaigns`, `RunnerSqlStore._revisions`, `_halt`, `_jobs`, and the executor's queue |
| `objs` | the `BountyCampaign` objects registered since the process started; an evicted one may still be used by the thread that got it |
| `th` | the request threads and workers: operation, place, object, what `get` has read |
| `made`, `rounds`, `paused` | decisions made, rounds started, a pause that an operator was told of |

`get` is `Begin` (or `TakeJob`, `Again`), `ReadRecord`, `LoadDoc`, `SaveStart`,
`MarkJob` and `Register`; a halt is `Signal`, `HaltDoc` and `HaltRecord`; a resume
is `ResumeLoad`, `ResumeSave` and `ResumeRecord`; `Step`, `AnalyzeStep` and
`JobStep` share `StepLocked` and `RoundEnds`; a job is `StartJob`, `Submitted`,
`TakeJob`, `JobRuns`, `Loop`, `JobStep`, `JobNotes`, `JobCloses`, and `RescueJob`
after an error. A database call is one step; `Learn` is the moment at which the
revision map follows it, so another thread's save may fall in between and be
refused. A lock is held in the places of `Holding`. Every save may succeed, be
refused, be lost, or be written although the caller sees an error.

What is abstracted:

- of the document, the states that the service or the orchestrator's entry points
  distinguish, and the decisions; one number stands for the decisions of one call;
- engines, needs and the ledger: a planner stops with a member of `PlannerStops`
  or starts a round, at most `MaxRounds` in all. The step limit of a job is a
  choice after each step;
- reads of the database do not fail; other processes are the subject of section 4;
- `create`, approvals, suggestions, the stateful loop and read-only views. Each
  view is a `get`, as `report` is.

### Runs

| Run | Instance | Shows |
|---|---|---|
| `camp_control` | 2 threads, one of which also runs jobs; 2 requests of any kind, the job they start, 1 round, 1 failed save or restart | `TypeOK`, `PauseIsRespected`, `StopIsFinal`, `NoPhantomJob`, `RegisteredIsBetweenRounds`, `NobodyIsStuck` |

Bounds. Two requests and the job one of them starts are three activities of which
two overlap at any time, enough for a halt against a round, two builders, and an
eviction under another thread. With two rounds the instance has 5.5 million states
and holds as well; the theorems cover every bound. `Leftovers` starts the process from the three
situations that otherwise take requests to reach: new, died inside a job's round,
and paused with a rolled-back document. When the requests are used up everyone
rests, so deadlock is not checked; `NobodyIsStuck` says that this is the only way
to rest.

`PauseIsRespected` is stated for the time in which the registered object has not
been replaced (`OneObject`): a thread that got an object before its eviction still
has a lock and a record of its own, and can run a round after a pause on the new
object. `NoPhantomJob` is stated for that time as well: a worker that still has the
evicted object ends the job of that one, and not of the object that replaced it; and
a worker that finds none and cannot build one raises in the `get` of `_run_job`,
outside its `try` (`discovery/bounty/service.py:612`), so its future stays in `_jobs`.
It also excludes failed saves: `start_job` changes the record in
memory first (`discovery/bounty/service.py:606`), so a failed save leaves a job
that no worker has, and execute, resume and start are refused until the process
restarts.

`RegisteredIsBetweenRounds` excepts an object whose decisions contradict the
stored ones, which the save refuses without evicting it (section 9).

`StopIsFinal` starts when the stop is stored and every registered object knows
of it (`ResearchStopped`), and speaks of the document, which is what counts: a halt reads the
control before it waits for the lock (`discovery/bounty/service.py:541`), so a
pause that waits behind a stop turns the record from stopped to paused and a
resume is accepted, but the stopped document does not come back to work. A
thread that is still inside `get` is excepted, because its save of an older
document is accepted (section 9).

### Proofs (`BountyCampaign_proofs`)

Five theorems cover every property of the run but `NobodyIsStuck`, for any number
of threads, calls, rounds, faults and restarts. Assumption: `CampaignAssumption`.
`TypeOK` is proved together with `OneHolder`: two threads in places of `Holding`
have different objects, which is what a lock is for. Saves have five outcomes and
are shared by many actions, so `SaveDocCases` and `SaveRecordCases` state once
what each leaves behind, and the actions cite them.

- `BetweenRounds` and `StopStays` rest on `Research`. A document that a thread has
  restored is not `executing` (`BuiltAreRestored`); a thread in a round has an
  object that is `executing` (`RoundsAreExecuted`); and until an object is
  registered, every copy agrees with the stored document about a stop
  (`StopIsKnown`). The first draft of `StopIsFinal` did not ask that the
  registered objects know of the stop; the proof did not go through, and TLC found
  a behaviour of three concurrent builders that breaks it.
- `PauseIsKept` rests on `PauseStored`: while a pause counts, the record says so
  in the table, in every object whose revision lets it save, and in every copy
  that a thread may yet turn into an object. `RevsKnown` says which copies these
  are: no revision is ahead of the table's.
- `JobsAreReal` rests on `JobKept`. Every operation is in a place of its own
  (`OpsPlaced`); there is no job before an object is registered (`NoJobs`); and
  then at most one job is queued, it is the record's, at most one worker has it,
  and an active job is in `_jobs` or about to be put there (`JobIsAlone`).

## 6. `SecurityAgent`

One research session and the requests of its API. All requests run on one event
loop and interleave where they await: at the database, the lock, the planner and
a tool.

| Variable | Code |
|---|---|
| `registry`, `lock` | `_SESSIONS` and `_LOCKS` for this session (`api/v1/endpoints/security_agent.py:66`) |
| `agents` | `ResearchSession` of every agent made since the process started: state, reason, flags, budget |
| `row` | the session's row |
| `req` | the requests: operation, place, agent, the row as it was read, what is to be saved |
| `hung` | a replay that never returns holds the event loop |
| `told`, `plans`, `ran`, `granted` | what the operator was told, planner calls, tool runs, limits raised |

A request is `Require` (and `LoadRow`, `Reconstruct` when the registry is empty),
the work, then `Save` and `Commit` or `CommitFails`. `Halt`, `Resume`, `Grant` and
`Reallocate` change the session without the lock. `Step` and `Plan`, `Decision`,
`RequestTool` and `ToolEnds` hold it from the work to the commit. A commit writes
the columns that differ from what the same database session read (`Merged`).

What is abstracted: all states that are no end, pause or stop are `working`; a
disabled, repeated or malformed call is a refusal; hypotheses, memory and
checkpoints are left out, and with them the end for enough evidence, which needs
a verified finding; one kind of tool charge stands for requests, browser actions
and tests; the provider reports no tokens or too many; a replay has one recorded
call. `Cancellable` names the tools whose executor looks at the cancellation
flag: `exploratory_test` does not (`security_agent/executors.py:750`).

| Run | Instance | Shows |
|---|---|---|
| `agent_session` | 3 requests of any kind, 2 at a time, both controllers, 1 restart or failed commit, caps of 1 | `TypeOK`, `WorkIsAuthorised`, `LockIsNotLost`, `StopIsFinal`, `PauseHolds` |
| `agent_replay_hangs` | 2 requests | *violated*: `EveryRequestIsAnswered` |

Bounds. Three requests are a halt, a step it overlaps and a resume or a step
after it; the session starts registered or in a row left paused, so restores do
not cost a request. Caps of one make each charge the last one and leave
reallocation both of its answers.

Fairness. `Spec` gives every request weak fairness (`Serve`): the event loop runs
what is ready, the database answers, and planners and tools have time limits.
New requests and restarts are not fair. A lock is granted in any order, which is
weaker than asyncio's and does not matter to the counterexample, in which nothing
holds the lock. `Serve` stops with `hung`, because a coroutine that never awaits
lets nothing else run.

The violation: `play` repeats `agent.step()` until its cursor is at the end, but
only the planner moves the cursor, and a session that is paused, stopped or out
of iterations returns before it asks the planner. Nothing in the loop awaits: the
request, its `finally` clause and all other requests wait for ever.

The safety properties exclude *twins*, two agents for one session that arise when
two requests find the registry empty: a stop reaches one of them.

### Proofs (`SecurityAgent_proofs`)

The five safety properties are theorems for any number of requests, tools, caps,
restarts and failed commits, under `AgentAssumption` (types; the names of no tool
and no request are those of "none" and "free").

`TypeCorrect` and `LockNotLost` come from `Inv`: types, `Placed(r)`, which says
which places have an agent, a tool or a state to save, and `LockIsNotLost` itself,
which needs that a request is in a place of `Locked` exactly when it is the
holder. The three others also need `Alone`: without twins there is one agent, and
a request that is restoring it has read the row as it still is. Then

- `Authorised`: `BudgetKept`, that the plans, runs and grants so far are within
  what the agent's budget has counted, and that within its caps (`Within`); while
  there is no agent, nothing has been spent;
- `StopFinal`: `StopKept`, that a stop an operator was told of is in the row and,
  through `StopSeen`, in what every request holds;
- `PauseIsKept`: `PauseKept`, that the agent's flag stays with the pause, or the
  row's while there is no agent. With an agent it does not speak of the row, which
  may miss the pause (section 9), and it ends with a restart.

## 7. `TestingEngine`

The gate of every request of a security test.

| Variable | Code |
|---|---|
| `engine` | `SecurityTestEngine`: scope revision, flags, dry run, approvals, limits |
| `safety`, `times` | counters of `SafetyController`, window of `RateLimiter` |
| `clients` | requests of `AuthorizedHttpClient` in flight, with their redirects |
| `stored` | `PrivilegeSnapshot` in the session's row |
| `program` | revision of the scope the program has now |
| `hop`, `sentAt`, `licensed` | the last hop that passed every check, times of sending, what humans allowed |

`Attempt` is one turn of the client's loop up to the network: authorize, dry run,
rate limit, pin, acquire; `Respond` releases and ends or follows a redirect.
`Grant`, `Save`, `Age`, `Rescope` and `Restart` are the operator, the row, the time
to live of approvals, a sync of the program, and a restore that intersects the
saved privileges with the present scope.

What is abstracted: URLs are model values with an origin, a scope is a set of
URLs; methods, payloads, durations, kinds of asset, a rule's own permission of
active testing and manual approvals are left out; a DNS failure, at authorization
or at pinning, may happen to any live request; `api_live` stands for sessions of
the testing API, with and without a dry run. Live sessions of the agent are always dry runs: a hop of theirs is
described and not sent, and is counted as a hop all the same.

`testing_engine` runs three kinds of session at rates of 2 a second and of one in
two seconds, on a clock of two ticks a second and two ticks long, with two clients, two grants, one change
of scope and one restart. The second scope lacks a URL of the first, so a
redirect may leave it. It shows `TypeOK`, `LimitsHold`, `RateHolds`,
`CredentialsStayHome` and `NothingWithoutAHuman`. `Spec` has no fairness; clients
are symmetric. A rate below one a second has a gap between two requests, which is
longer than the window (`Rate`). The code does not keep that gap (section 9), so
`RateHolds` is stated for rates of one a second or more; the other properties
cover both.

### Proofs (`TestingEngine_proofs`)

All five properties are theorems for any set of clients, URLs and scopes, chains of
redirects of any length and any rates and limits, under `TestingAssumption`.

- `TypeCorrect`: types.
- `RateIsKept`: `Timed`. The window remembers, in order, every sending that is not
  older than `Window`; `Remembers` compares it with the sending times from their
  ends, because old times are dropped from the front. At a rate of one a second
  or more a new request then has too few in its window for the rate. Of a lower
  rate nothing is claimed.
- `LimitsAreKept`: `Counted`, that the counters are the numbers of the clients
  that wait and of the requests sent, and are within the limits with the targets;
  and `Budget(c)`, that what a client has sent and may still follow is within
  the redirects.
- `CredentialsAreKept`: `AtHome(c)`, that a client with credentials is at the
  origin of its call.
- `HumanBehindIt`: `Consent`. A human's approval for that scope is behind every
  approval the engine holds, behind those in the row, behind the engine's flags (but
  for active testing in the process that made a lab), and behind each fuzzer that
  is past its first request: only the first hop asks for the approval.

## 8. `FindingLifecycle` and `FindingPromise`

One finding of a project.

| Variable | Code |
|---|---|
| `row` | the row of `security_findings`: status, review state, target, evidence |
| `lock` | its row lock (`SELECT FOR UPDATE`) |
| `req` | scans and lifecycle calls, with the row as they read it |
| `overlapped` | a scan wrote over a row that had changed since it read it |

`Load` and `Save` are a lifecycle call (`attach_evidence`,
`record_collected_evidence`, with or without a transition): it reads under the
lock, correlates, applies the transition or refuses it, merges and commits.
`Scan`, then `Insert`, `InsertRaced` or `Rescan`, is `bulk_create`, which reads
without the lock and waits for it only when it writes. `RollBack` is any failure.

What is abstracted: evidence is a static record, a signed observation or a
successful reproduction, named by its rule or execution; AI text, contradictions,
failed reproductions and unsigned records, which no rule counts, are left out.
Two records that differ only in `seen` stand for one that came in twice. The
target is the columns it is computed from. The database is PostgreSQL, as in the
default configuration; SQLite has no row lock (`repositories/security_finding_repo.py:96`).
One scan writes one row, so a deadlock among several rows cannot show. Calls that
bring evidence are those of the service; in the repository its callers are tests.

`FindingPromise` is the abstract specification: a finding is potential,
corroborated, reproduced, verified or accepted, rises only on support for its
present target, falls only when the target changes, and stays rejected. One fall
on an unchanged target is part of the promise and an action of its own, `Lapse`: a
scan replaces the static records of a corroborated finding (`Rescan`, which moves
no status), and the next save, which loads the row through `to_domain`, finds it
potential. `KeepsPromise` checks that every step of `FindingLifecycle` is one of
these steps under the mapping `Standing`, `Support`, which keep potential and
corroborated apart. What follows an overlap is outside the promise.

`CollectedStatusIsEarned` is about the statuses that rest on collected evidence or
on a human: what is stored of them is what every load reads. It says nothing of
`corroborated`, of which between a `Rescan` and the next save it would be false.

| Run | Instance | Shows |
|---|---|---|
| `finding_lifecycle` | 2 requests at a time, 3 scans, 2 collections, 2 targets, 2 rules, 2 executions, any failure | `TypeOK`, `CollectedStatusIsEarned`, `KeepsPromise`, `EvidenceIsKept` |
| `finding_old_reproduction` | 1 request at a time, 2 scans, 1 collection | *violated*: `ReproducedHere` |

Bounds. Two collections allow a reproduction and an observation of one execution,
in either order; three scans allow a target to change and to change back; two
requests race on the insert and on the lock. The constraint `BeforeOverlap` stops
the search behind an overlap, where no property says anything. There is no
fairness: nothing is promised eventually.

The violation: `attach_evidence` strips the target of a record, and `reproduce`
binds every positive record without a target to the target of the day
(`domain/findings.py:389`). A reproduction attached while the finding was about
other code thus makes it reproduced.

### Proofs (`FindingLifecycle_proofs`)

Assumption: `LifecycleAssumption`. `Inv` consists of types, of `ReadOK(r)` and of
`CollectedStatusIsEarned`. `ReadOK(r)` says that a lifecycle call holds the lock from
its read to its commit, that what it has read is the stored row until then, and
that a scan which calls its finding corroborated has records that agree
(`Agreeing`). The half of the invariant about human acceptance is `Reviewed` of the
row; each operator on findings keeps it. `Inv` gives `TypeCorrect`, `StatusIsEarned` and,
with the merge that unites evidence, `EvidenceKept`; the last two up to an overlap.

`PromiseKept` proves `Spec => KeepsPromise`, the refinement: the initial row maps to
the initial state of `FindingPromise`, and each commit maps to the step of the
promise that its transition is named after, to a change of target, to more
support, to a `Rescan`, a `Lapse`, or to a stutter. A status never rises without
support: the correlation that precedes a transition is computed from the evidence
that is stored with it, and more evidence never corroborates less
(`MoreCorroborates`, by the cardinality of finite sets of rules).

## 9. What the models show beyond the listed runs

Behaviour that follows from the models, is described here and is stated by no
property of a run:

- `submit` reads its record back from shared memory after an await
  (`api/v1/endpoints/hackerone.py:400`); a hydrate of another handler may have
  replaced it, and an unknown outcome is then retried. `mark_ready` may overwrite
  an unknown outcome, which can then not be reconciled
  (`adapters/hackerone/reports.py:382`). After a crash between POST and commit the
  claim expires and the finding may be posted again. A refused claim leaves a
  ten-minute claim behind (`api/v1/endpoints/hackerone.py:378`), a row in
  `identity_verification_required` can never be claimed again
  (`repositories/hackerone_repo.py:402`), and `submit` checks the approval against
  the program and finding loaded before the claim (`api/v1/endpoints/hackerone.py:358`).
- A reconciliation takes a listed report with the draft's title and text, whichever
  finding it was sent for (`adapters/hackerone/reports.py:728`). When an attempt
  for one finding was lost and another finding was reported in the same words within
  the time window, both findings then name one report, and the first is taken for
  submitted.
- `SqlStore.save` compares the revision in Python and updates by primary key: of
  two processes that read one revision the second overwrites the started record of
  the first and runs its key again. A write-ahead save that fails leaves the memory
  in `executing`, and the next step stores the campaign as `failed`.
- A save of the orchestrator's document that is refused because its decisions
  contradict the stored ones is a plain `PersistenceError` ("decision history is
  immutable", `discovery/orchestration/store.py:168`), not the
  `CampaignConflictError` that `RunnerSqlStore` raises for a revision
  (`services/bounty_campaign_store.py:219`). `_step_locked` evicts an object for the
  second only (`discovery/bounty/service.py:472`), so the object stays registered,
  in `executing` with no engine running, and every later save of it is refused.
  Threads that build the campaign concurrently can get there.
- The orchestrators of one process share a revision map, so a thread that is still
  inside `get` may overwrite the campaign document with the older one it loaded.
- A pause of an agent's session finds `paused` already in the row it read and
  writes nothing of it; a resume that read the same row and commits later clears
  the flag, and a restart forgets the pause. `pause` accepts a completed session,
  and a resume then sets it working. A tool call is charged before it is refused
  and not saved, so the row is behind the memory.
- Times leave the rate limiter's window after one second, so a rate of 0.5 lets one
  request a second through, although the comment at `security_testing/rate_limit.py:47`
  says one in two seconds: the gap of a rate below one a second is never longer than
  the window. The model does the same: with the gap in the place of `Window`,
  `RateHolds` fails after two requests, one second apart. Limits that the snapshot lacks are restored as
  defaults: a lab session may have twice the targets after a restart. A sync of
  the program leaves the engines in memory as they are.
- A scan that read a finding before somebody else's save writes its own merge:
  it can drop evidence and undo a rejection or an acceptance. A scan of the same
  target with fewer static records leaves the row `corroborated`, which every load
  reads as `potential`, and the next save stores so (`Lapse` of `FindingPromise`).

## 10. What is proved and what stays with TLC

| Component | Theorems | Only model-checked |
|---|---|---|
| `HackerOneSubmission` | `TypeOK`, `OnlyApprovedIsPosted`, `OnePostPerClaim`, `ReportIdsAreReal`, `KeepsGate`; given `[]SubmitsAlone`, or one handler: `RepostedOnlyAfterCrash`, `ReportIdIsKept` | `ClaimDoesNotWedge` (liveness) |
| `ResearchOrchestrator` | `TypeOK`, `HistoryIsConsistent`; given `[]OneAtATime`: `EachKeyRunsOnce`, `RunsWithinLimit`, `LedgerIsMonotone`, `EndsAreFinal`, `KeepsLedger` | - |
| `BountyCampaign` | `TypeOK`, `RegisteredIsBetweenRounds`, `StopIsFinal`, `PauseIsRespected`, `NoPhantomJob` | `NobodyIsStuck` (`ENABLED`) |
| `SecurityAgent` | `TypeOK`, `LockIsNotLost`, `WorkIsAuthorised`, `StopIsFinal`, `PauseHolds` | - |
| `TestingEngine` | `TypeOK`, `RateHolds` (rates of one a second or more), `LimitsHold`, `CredentialsStayHome`, `NothingWithoutAHuman` | - |
| `FindingLifecycle` | `TypeOK`, `CollectedStatusIsEarned`, `EvidenceIsKept`, `KeepsPromise` | - |

Liveness under fairness and `ENABLED` are beyond the prover. What the violation
runs refute, `EveryRequestIsAnswered` among it, is false and stays with them.

## 11. Not modelled

Parsers, static analysis, the bounty engine's search, sandboxed execution and AI
providers are computations over large data or calls to external tools with no
protocol of their own; the control server and the frontend translate requests.
They are most of the code. HackerOne intents, jobs, the repair services and the
scheduler are in the plan or smaller relatives of what is modelled. Within the
modelled components, the parts left out are named in sections 3 to 8 and in
`PROJECT.json`.

## 12. Running

    tlc -config OrchestratorRounds.cfg MCResearchOrchestrator
    tlc -config CampaignControl.cfg MCBountyCampaign
    tlc -config AgentSession.cfg MCSecurityAgent
    tlc -config TestingEngine.cfg MCTestingEngine
    tlc -config FindingLifecycle.cfg MCFindingLifecycle
    tlapm HackerOneSubmission_proofs.tla
    tlapm HackerOneSerial_proofs.tla
    tlapm ResearchOrchestrator_proofs.tla
    tlapm BountyCampaign_proofs.tla
    tlapm SecurityAgent_proofs.tla
    tlapm TestingEngine_proofs.tla
    tlapm FindingLifecycle_proofs.tla

Definitions introduced as "Faulty variant" are deliberately wrong forms of the
definition that follows them; each shows that a property notices the mistake.
