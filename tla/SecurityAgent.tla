---------------------------- MODULE SecurityAgent ----------------------------
(***************************************************************************)
(* One research session of the security agent: the requests of its API,    *)
(* the registry of live agents, the budget, and the row the session is     *)
(* saved in.                                                               *)
(*                                                                         *)
(* Requests run on one event loop.  They interleave where they await: the  *)
(* database, the session's lock, the planner and a tool.  A request saves  *)
(* through a database session of its own, which writes only the columns    *)
(* that differ from the row it read.                                       *)
(***************************************************************************)
EXTENDS Naturals, Sequences, FiniteSets

CONSTANTS
  Requests,     \* the requests that may be in flight together
  Ops,          \* what they may ask for
  Controllers,  \* who plans: the model behind the provider, or Cursor
  Tools,        \* the tools the planner may ask for
  Cancellable,  \* those whose executor looks at the cancellation flag
  MaxIterations, MaxToolCalls, MaxTokens, \* the session's budget
  MaxCalls,     \* bound: requests
  MaxTroubles   \* bound: restarts of the process and commits that fail

AllOps == {"pause", "stop", "resume", "step", "decision", "tool", "replay",
           "grant", "reallocate"}

ASSUME AgentAssumption ==
  /\ Ops \subseteq AllOps
  /\ Controllers \subseteq {"internal_llm", "cursor"} /\ Controllers # {}
  /\ Cancellable \subseteq Tools /\ "none" \notin Tools /\ "free" \notin Requests
  /\ IsFiniteSet(Tools) /\ IsFiniteSet(Requests)
  /\ MaxIterations \in Nat /\ MaxToolCalls \in Nat /\ MaxTokens \in Nat
  /\ MaxCalls \in Nat /\ MaxTroubles \in Nat

VARIABLES
  controller, \* of the session
  row,        \* the session's row
  registry,   \* _SESSIONS: the registered agent, 0 if none
  agents,     \* the sessions of the agents made since the process started
  lock,       \* _LOCKS: the request that holds the session's lock
  req,        \* the requests
  hung,       \* a replay spins, and the event loop with it
  told,       \* what the operator was last told of: "paused", "stopped"
  plans,      \* planner calls and external decisions so far
  ran,        \* tool calls that reached the tool's work: all, and of Cancellable
  twins,      \* two requests found the registry empty: each made an agent
  granted,    \* tool calls granted by the operator
  calls, crashes, faults

vars == <<controller, row, registry, agents, lock, req, hung, told, plans, ran, twins,
          granted, calls, crashes, faults>>

work == <<plans, ran>>
troubles == <<crashes, faults>>

-----------------------------------------------------------------------------
\* The budget: units used and their caps.  A tool call stands for itself and
\* for the requests, browser actions or tests it is charged for.
Budget == [iterations : Nat, tools : Nat, tokens : Nat, maxIterations : Nat, maxTools : Nat]
NewBudget == [iterations |-> 0, tools |-> 0, tokens |-> 0,
              maxIterations |-> MaxIterations, maxTools |-> MaxToolCalls]

Exhausted(b) ==
  b.iterations >= b.maxIterations \/ b.tools >= b.maxTools \/ b.tokens >= MaxTokens

\* ResearchState.  "working" stands for every state that is not an end, a
\* pause or a stop.
States == {"working", "budget_exhausted", "max_iterations", "inconclusive",
           "completed_no_findings", "user_paused", "user_stopped"}
ResumeBlocked == {"user_stopped", "completed_no_findings"}

\* A session, in memory and as columns of its row.
Session == [state : States, reason : States \union {"none"}, stopped : BOOLEAN,
            paused : BOOLEAN, budget : Budget]
NewSession == [state |-> "working", reason |-> "none", stopped |-> FALSE, paused |-> FALSE,
               budget |-> NewBudget]

\* ResearchSession.cancelled: pause and stop set the event, resume clears it.
Cancelled(s) == s.stopped \/ s.paused
Ended(s, state) == [s EXCEPT !.state = state, !.reason = state]
Working(s) == [s EXCEPT !.state = "working"]

Places ==
  {"idle",
   "loading",     \* no agent: the row is to be read
   "restoring",   \* the row was read; the agent is to be made
   "ready",       \* _require returns the agent, its project having been read
   "planning",    \* the planner was asked
   "running",     \* a tool runs
   "saving",      \* the session is to be copied to the row's object
   "committing"}  \* it was copied; nothing is written yet

\* Places in which a request may hold the session's lock.
Locked == {"planning", "running", "saving", "committing"}

NoRow == [NewSession EXCEPT !.reason = "no row"]

\* base: the row as the request's database session read it; mine: what it saves.
Idle == [op |-> "none", pc |-> "idle", agent |-> 0, base |-> NoRow, mine |-> NoRow]

TypeOK ==
  /\ controller \in Controllers /\ row \in Session
  /\ agents \in Seq(Session) /\ registry \in 0 .. Len(agents)
  /\ lock \in Requests \union {"free"}
  /\ req \in [Requests -> [op : AllOps \union {"none"}, pc : Places, agent : 0 .. Len(agents),
                           base : Session \union {NoRow}, mine : Session \union {NoRow}]]
  /\ \A r \in Requests :
       req[r].pc \in Locked \union {"ready"} => req[r].agent \in DOMAIN agents
  /\ hung \in BOOLEAN /\ told \subseteq {"paused", "stopped"}
  /\ plans \in Nat /\ ran \in [all : Nat, cancellable : Nat] /\ twins \in BOOLEAN /\ granted \in Nat
  /\ calls \in Nat /\ crashes \in Nat /\ faults \in Nat

\* A session just created, and registered, or one that an earlier process left
\* paused in its row.
Init ==
  /\ controller \in Controllers
  /\ \/ row = NewSession /\ agents = <<NewSession>> /\ registry = 1 /\ told = {}
     \/ /\ row = Ended([NewSession EXCEPT !.paused = TRUE], "user_paused")
        /\ agents = <<>> /\ registry = 0 /\ told = {"paused"}
  /\ lock = "free" /\ req = [r \in Requests |-> Idle] /\ hung = FALSE
  /\ plans = 0 /\ ran = [all |-> 0, cancellable |-> 0] /\ twins = FALSE /\ granted = 0
  /\ calls = 0 /\ crashes = 0 /\ faults = 0

-----------------------------------------------------------------------------
(* What the steps of a request share.                                      *)

Of(r) == agents[req[r].agent]

\* Request r goes on at pc, its agent's session having become s.
Go(r, pc, s) ==
  /\ req' = [req EXCEPT ![r].pc = pc]
  /\ agents' = [agents EXCEPT ![req[r].agent] = s]

\* Faulty variant: the lock is released only when the request is answered.
FinishKeepsLock(r) ==
  /\ req' = [req EXCEPT ![r] = Idle]
  /\ lock' = IF lock = r /\ req[r].pc = "committing" THEN "free" ELSE lock

\* r is answered, or fails: "async with" releases the lock either way.
Finish(r) ==
  /\ req' = [req EXCEPT ![r] = Idle]
  /\ lock' = IF lock = r THEN "free" ELSE lock

\* r goes on, or it fails with an exception and its session is not saved.
Outcome(r, out) ==
  /\ agents' = [agents EXCEPT ![req[r].agent] = out.s]
  /\ \/ out.go = "refused" /\ Finish(r)
     \/ out.go = "answered" /\ req' = [req EXCEPT ![r].pc = "saving"] /\ lock' = r
     \/ out.go = "run" /\ req' = [req EXCEPT ![r].pc = "running"] /\ lock' = r
  /\ ran' = [all |-> ran.all + (IF out.go = "run" THEN 1 ELSE 0),
             cancellable |-> ran.cancellable
               + (IF out.go = "run" /\ out.tool \in Cancellable THEN 1 ELSE 0)]

Answered(s) == [s |-> s, go |-> "answered", tool |-> "none"]
Refused(s) == [s |-> s, go |-> "refused", tool |-> "none"]

\* Faulty variant: the executors do not look at the cancellation flag.
ToolStartUncancelled(s, t) ==
  LET charged == [s EXCEPT !.budget.tools = @ + 1]
  IN {Refused(s), Answered(s), Answered(Working(s)),
      IF charged.budget.tools > charged.budget.maxTools
      THEN Refused(Ended(charged, "budget_exhausted"))
      ELSE [s |-> Working(charged), go |-> "run", tool |-> t]}

\* Faulty variant: a call is charged after its budget was checked.
ToolStartLateCharge(s, t) ==
  LET charged == [s EXCEPT !.budget.tools = @ + 1]
  IN {Refused(s), Answered(s), Answered(Working(s)),
      IF s.budget.tools > s.budget.maxTools
      THEN Refused(Ended(charged, "budget_exhausted"))
      ELSE IF Cancelled(s) /\ t \in Cancellable
      THEN Answered(Working(charged))
      ELSE [s |-> Working(charged), go |-> "run", tool |-> t]}

\* _execute_tool up to the executor's first await: a disabled, repeated or
\* malformed call raises; an unavailable or unauthorized one is answered; one
\* that needs an approval waits for it; the rest is charged and handed to the
\* executor, which returns at once if it sees the cancellation flag.
ToolStart(s, t) ==
  LET charged == [s EXCEPT !.budget.tools = @ + 1]
  IN {Refused(s), Answered(s), Answered(Working(s)),
      IF charged.budget.tools > charged.budget.maxTools
      THEN Refused(Ended(charged, "budget_exhausted"))
      ELSE IF Cancelled(s) /\ t \in Cancellable
      THEN Answered(Working(charged))
      ELSE [s |-> Working(charged), go |-> "run", tool |-> t]}

\* A session without a verified finding ends by whether it has a hypothesis.
EndStates == {"inconclusive", "completed_no_findings"}

\* _finalize_run, for a "complete" decision: a reason already given stays.
Finalized(s) ==
  IF s.reason # "none" THEN {s}
  ELSE IF Cancelled(s) THEN {Ended(s, IF s.stopped THEN "user_stopped" ELSE "user_paused")}
  ELSE IF s.budget.iterations >= s.budget.maxIterations THEN {Ended(s, "max_iterations")}
  ELSE {Ended(s, end) : end \in EndStates}

\* _apply_decision: an analysis, plan, hypothesis or reproduction; a kind that
\* is forbidden or cannot be read; the end; or a tool call.
Applied(s, ends) ==
  {Answered(Working(s)), Refused(s)} \union {Answered(e) : e \in ends}
  \union UNION {ToolStart(s, t) : t \in Tools}

-----------------------------------------------------------------------------
(* The start of a request, and the agent it works on.                      *)

\* A request, and _require as far as its first await.
Require(r) ==
  /\ req[r].pc = "idle" /\ calls < MaxCalls
  /\ \E op \in Ops :
       req' = [req EXCEPT ![r] = [Idle EXCEPT !.op = op, !.agent = registry,
                                  !.pc = IF registry = 0 THEN "loading" ELSE "ready"]]
  /\ calls' = calls + 1
  /\ UNCHANGED <<controller, row, registry, agents, lock, hung, told, work, twins, granted,
                 troubles>>

\* The row is read once: reconstruct reads the same object of the same
\* database session.
LoadRow(r) ==
  /\ req[r].pc = "loading"
  /\ req' = [req EXCEPT ![r].pc = "restoring", ![r].base = row]
  /\ UNCHANGED <<controller, row, registry, agents, lock, hung, told, work, twins, granted, calls,
                 troubles>>

\* The agent is registered whatever the registry has by now.
Reconstruct(r) ==
  /\ req[r].pc = "restoring"
  /\ agents' = Append(agents, req[r].base)
  /\ registry' = Len(agents) + 1 /\ twins' = (twins \/ agents # <<>>)
  /\ req' = [req EXCEPT ![r].pc = "ready", ![r].agent = Len(agents) + 1]
  /\ UNCHANGED <<controller, row, lock, hung, told, work, granted, calls, troubles>>

-----------------------------------------------------------------------------
(* Operator requests: they change the session without its lock.            *)

At(r, op) == req[r].pc = "ready" /\ req[r].op = op

\* agent.pause and agent.stop, whatever the session's state is.
Halt(r) ==
  /\ \/ At(r, "pause") /\ Go(r, "saving", [Ended(Of(r), "user_paused") EXCEPT !.paused = TRUE])
     \/ At(r, "stop") /\ Go(r, "saving", [Ended(Of(r), "user_stopped") EXCEPT !.stopped = TRUE])
  /\ UNCHANGED <<controller, row, registry, lock, hung, told, work, twins, granted, calls, troubles>>

Resume(r) ==
  /\ At(r, "resume")
  /\ \/ /\ Of(r).state \in ResumeBlocked \/ Of(r).stopped
        /\ Finish(r) /\ UNCHANGED <<agents, told>>
     \/ /\ Of(r).state \notin ResumeBlocked /\ ~ Of(r).stopped
        /\ Go(r, "saving", [Working(Of(r)) EXCEPT !.paused = FALSE, !.reason = "none"])
        /\ told' = told \ {"paused"} /\ UNCHANGED lock
  /\ UNCHANGED <<controller, row, registry, hung, work, twins, granted, calls, troubles>>

\* change_limits.
Grant(r) ==
  /\ At(r, "grant")
  /\ granted' = granted + 1
  /\ Go(r, "saving", [Of(r) EXCEPT !.budget.maxTools = @ + 1])
  /\ UNCHANGED <<controller, row, registry, lock, hung, told, work, twins, calls, troubles>>

\* Faulty variant: what is used may be moved as well.
ReallocateUsed(r) ==
  /\ At(r, "reallocate")
  /\ \/ Go(r, "saving", [Of(r) EXCEPT !.budget.maxIterations = @ - 1, !.budget.maxTools = @ + 1])
     \/ Go(r, "saving", [Of(r) EXCEPT !.budget.maxTools = @ - 1, !.budget.maxIterations = @ + 1])
  /\ UNCHANGED <<controller, row, registry, lock, hung, told, work, twins, granted, calls, troubles>>

\* budget.reallocate of one unit, which must be left in its source.
Reallocate(r) ==
  /\ At(r, "reallocate")
  /\ LET b == Of(r).budget
     IN \/ /\ b.iterations < b.maxIterations /\ UNCHANGED lock
           /\ Go(r, "saving", [Of(r) EXCEPT !.budget.maxIterations = @ - 1,
                                            !.budget.maxTools = @ + 1])
        \/ /\ b.tools < b.maxTools /\ UNCHANGED lock
           /\ Go(r, "saving", [Of(r) EXCEPT !.budget.maxTools = @ - 1,
                                            !.budget.maxIterations = @ + 1])
        \/ /\ b.iterations >= b.maxIterations \/ b.tools >= b.maxTools
           /\ Finish(r) /\ UNCHANGED agents
  /\ UNCHANGED <<controller, row, registry, hung, told, work, twins, granted, calls, troubles>>

-----------------------------------------------------------------------------
(* Requests that make the agent work: they hold the session's lock.        *)

\* step_session and orchestrator.step, as far as the planner.
Step(r) ==
  /\ At(r, "step")
  /\ LET s == Of(r) IN
     \/ /\ controller = "cursor" /\ Finish(r) /\ UNCHANGED <<agents, plans>>
     \/ /\ controller = "internal_llm" /\ lock = "free" /\ lock' = r
        /\ \/ /\ Exhausted(s.budget)
              /\ Go(r, "saving", Ended(s, "budget_exhausted")) /\ UNCHANGED plans
           \/ /\ ~ Exhausted(s.budget) /\ Cancelled(s)
              /\ Go(r, "saving", s) /\ UNCHANGED plans
           \/ /\ ~ Exhausted(s.budget) /\ ~ Cancelled(s)
              /\ Go(r, "planning", [s EXCEPT !.budget.iterations = @ + 1])
              /\ plans' = plans + 1
  /\ UNCHANGED <<controller, row, registry, hung, told, ran, twins, granted, calls, troubles>>

\* The planner answers, or fails.  The provider reports no tokens, or more than
\* are left.  An answer that overdraws the token budget leaves a reason but not
\* its state.  A "complete" decision is rewritten by
\* the orchestrator, whatever _finalize_run made of it.
Plan(r) ==
  /\ req[r].pc = "planning"
  /\ \E used \in {0, MaxTokens + 1} :
       LET s == [Of(r) EXCEPT !.budget.tokens = @ + used]
       IN IF s.budget.tokens > MaxTokens /\ used > 0
          THEN Outcome(r, Answered(Working(Ended(s, "budget_exhausted"))))
          ELSE \E out \in Applied(s, {Ended(s, end) : end \in EndStates}) : Outcome(r, out)
  /\ UNCHANGED <<controller, row, registry, hung, told, plans, twins, granted, calls, troubles>>

\* external_decision: the decision came with the request.
Decision(r) ==
  /\ At(r, "decision")
  /\ LET s == Of(r)
         charged == [s EXCEPT !.budget.iterations = @ + 1]
     IN \/ /\ controller = "internal_llm" /\ Finish(r) /\ UNCHANGED <<agents, work>>
        \/ /\ controller = "cursor" /\ lock = "free"
           /\ \/ Cancelled(s) /\ Outcome(r, Answered(s)) /\ UNCHANGED plans
              \/ /\ ~ Cancelled(s) /\ charged.budget.iterations > s.budget.maxIterations
                 /\ Outcome(r, Answered(Ended(charged, "budget_exhausted"))) /\ UNCHANGED plans
              \/ /\ ~ Cancelled(s) /\ charged.budget.iterations <= s.budget.maxIterations
                 /\ \E out \in Applied(charged, Finalized(charged)) : Outcome(r, out)
                 /\ plans' = plans + 1
  /\ UNCHANGED <<controller, row, registry, hung, told, twins, granted, calls, troubles>>

\* request_tool: neither it nor _execute_tool looks at the flags.
RequestTool(r) ==
  /\ At(r, "tool") /\ lock = "free"
  /\ \E t \in Tools : \E out \in ToolStart(Of(r), t) : Outcome(r, out)
  /\ UNCHANGED <<controller, row, registry, hung, told, plans, twins, granted, calls, troubles>>

\* The tool is refused by the engine, waits for an approval, returns, overdraws
\* a time budget (which leaves a reason but not its state), or raises.
ToolEnds(r) ==
  /\ req[r].pc = "running"
  /\ LET s == Of(r) IN
     \E out \in {Answered(s), Answered(Working(s)),
                 Answered(Working(Ended(s, "budget_exhausted"))), Refused(s)} :
       Outcome(r, out)
  /\ UNCHANGED <<controller, row, registry, hung, told, plans, twins, granted, calls, troubles>>

\* replay.play of one recorded call.  Nothing in it awaits: planner and
\* executor are canned.  A step that returns without asking the planner leaves
\* the cursor where it is, and the loop never ends.  Nothing is saved.
Replay(r) ==
  /\ At(r, "replay") /\ lock = "free"
  /\ LET s == Of(r)
         charged == [s EXCEPT !.budget.iterations = @ + 1]
     IN \/ /\ controller = "cursor"
           /\ Finish(r) /\ UNCHANGED <<agents, hung>>
        \/ /\ controller = "internal_llm"
           /\ Cancelled(s) \/ s.budget.iterations >= s.budget.maxIterations
           /\ hung' = TRUE /\ UNCHANGED <<agents, req, lock>>
        \/ /\ controller = "internal_llm"
           /\ ~ Cancelled(s) /\ s.budget.iterations < s.budget.maxIterations
           /\ \E t \in Tools : \E out \in ToolStart(charged, t) :
                agents' = [agents EXCEPT ![req[r].agent] =
                             IF out.go = "run" THEN Working(out.s) ELSE out.s]
           /\ Finish(r) /\ UNCHANGED hung
  /\ UNCHANGED <<controller, row, registry, told, work, twins, granted, calls, troubles>>

-----------------------------------------------------------------------------
(* The end of a request.                                                   *)

\* save_session, as far as flush: the session is copied to the object of its
\* row, which this database session may have read long before.
Save(r) ==
  /\ req[r].pc = "saving"
  /\ req' = [req EXCEPT ![r].pc = "committing", ![r].mine = Of(r),
                        ![r].base = IF @ = NoRow THEN row ELSE @]
  /\ UNCHANGED <<controller, row, registry, agents, lock, hung, told, work, twins, granted, calls,
                 troubles>>

\* Faulty variant: every column is written.
MergedAll(base, mine, now) == [c \in DOMAIN now |-> mine[c]]

\* The columns that were changed replace those of the row.
Merged(base, mine, now) == [c \in DOMAIN now |-> IF mine[c] = base[c] THEN now[c] ELSE mine[c]]

\* What a request that halts the session tells the operator: the answer shows
\* the session as it is by then.
Shown(op, s) ==
  {f \in {"paused", "stopped"} : \/ f = "paused" /\ op = "pause" /\ s.paused
                                 \/ f = "stopped" /\ op = "stop"}

Commit(r) ==
  /\ req[r].pc = "committing"
  /\ row' = Merged(req[r].base, req[r].mine, row)
  /\ told' = told \union Shown(req[r].op, Of(r))
  /\ Finish(r)
  /\ UNCHANGED <<controller, registry, agents, hung, work, twins, granted, calls, troubles>>

\* The database fails: the request ends with an error, the agent stays as it is.
CommitFails(r) ==
  /\ req[r].pc = "committing" /\ crashes + faults < MaxTroubles
  /\ faults' = faults + 1
  /\ Finish(r)
  /\ UNCHANGED <<controller, row, registry, agents, hung, told, work, twins, granted, calls, crashes>>

\* The process is restarted: the row is what is left.
Restart ==
  /\ crashes + faults < MaxTroubles
  /\ crashes' = crashes + 1
  /\ registry' = 0 /\ agents' = <<>> /\ lock' = "free" /\ hung' = FALSE
  /\ req' = [r \in Requests |-> Idle]
  /\ UNCHANGED <<controller, row, told, work, twins, granted, calls, faults>>

\* The steps that the event loop, the database, the provider's and the tools'
\* time limits bring about.
Serve(r) ==
  /\ ~ hung
  /\ \/ LoadRow(r) \/ Reconstruct(r)
     \/ Halt(r) \/ Resume(r) \/ Grant(r) \/ Reallocate(r)
     \/ Step(r) \/ Plan(r) \/ Decision(r) \/ RequestTool(r) \/ ToolEnds(r) \/ Replay(r)
     \/ Save(r) \/ Commit(r) \/ CommitFails(r)

Next ==
  \/ \E r \in Requests : (~ hung /\ Require(r)) \/ Serve(r)
  \/ Restart

Spec == Init /\ [][Next]_vars /\ \A r \in Requests : WF_vars(Serve(r))

-----------------------------------------------------------------------------
(* Properties.                                                             *)

\* Nothing of a stopped session starts again, neither a planner call nor a tool
\* that looks at the cancellation flag: not in the step that the stop found in
\* flight, not by a resume, and not after a restart from the row.  Twins are
\* excepted: a stop reaches one of them, and the other goes on.
StopIsFinal ==
  [][~ twins /\ "stopped" \in told =>
       plans' = plans /\ ran'.cancellable = ran.cancellable]_vars

\* A paused session does nothing until it is resumed, in the life of a process.
\* A restart may undo it: a resume that commits after the pause was told writes
\* its column over a pause that found nothing to write.
PauseHolds ==
  [][~ twins /\ crashes = 0 /\ "paused" \in told =>
       plans' = plans /\ ran'.cancellable = ran.cancellable]_vars

\* However requests and operator changes interleave, the planner is asked and
\* tools run no more often than the caps of the session say, and the caps sum
\* up to the budget given and what an operator granted.
WorkIsAuthorised ==
  crashes = 0 /\ ~ twins /\ registry # 0 =>
    LET b == agents[registry].budget
    IN /\ plans <= b.maxIterations
       /\ ran.all <= b.maxTools
       /\ b.maxIterations + b.maxTools = MaxIterations + MaxToolCalls + granted

\* A lock in use is held by a request that is at work: no error path and no
\* refusal leaves the session locked, so that only a replay can block others.
LockIsNotLost == lock # "free" => req[lock].pc \in Locked

\* Every request is answered or fails.
EveryRequestIsAnswered == \A r \in Requests : req[r].pc # "idle" ~> req[r].pc = "idle"
=============================================================================
