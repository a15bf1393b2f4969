------------------------ MODULE SecurityAgent_proofs ------------------------
(***************************************************************************)
(* Theorems about SecurityAgent, for any number of requests, tools, calls  *)
(* and troubles and any budget: the session's lock is not lost, a stop is  *)
(* final, a pause holds, and the work done is the work authorised.         *)
(***************************************************************************)
EXTENDS SecurityAgent, SequenceTheorems, TLAPS

USE AgentAssumption

-----------------------------------------------------------------------------
(* What an operation may make of a session *)

Caps(s) == <<s.budget.maxIterations, s.budget.maxTools>>

\* The session t that work leaves of s: the operator's flags and the caps stay,
\* and what was used only grows.
Leaves(s, t) ==
  /\ t \in Session
  /\ t.stopped = s.stopped /\ t.paused = s.paused
  /\ Caps(t) = Caps(s)
  /\ t.budget.iterations >= s.budget.iterations /\ t.budget.tools >= s.budget.tools

\* The fields of a session.
LEMMA SessionParts ==
  ASSUME NEW s \in Session
  PROVE  /\ s.state \in States /\ s.reason \in States \union {"none"}
         /\ s.stopped \in BOOLEAN /\ s.paused \in BOOLEAN
         /\ s.budget \in Budget
         /\ s.budget.iterations \in Nat /\ s.budget.tools \in Nat /\ s.budget.tokens \in Nat
         /\ s.budget.maxIterations \in Nat /\ s.budget.maxTools \in Nat
  BY DEF Session, Budget

\* A session that is created.
LEMMA NewSessionTypes ==
  /\ NewBudget \in Budget /\ NewSession \in Session /\ NoRow \notin Session
  /\ NoRow.stopped = FALSE
  /\ ~NewSession.stopped /\ ~NewSession.paused /\ NewSession.budget = NewBudget
<1>1. NewBudget \in Budget
  BY DEF NewBudget, Budget
<1>2. NewSession \in Session
  BY <1>1 DEF NewSession, Session, States
<1>3. NoRow.reason = "no row"
  BY DEF NoRow, NewSession
<1>4. NoRow \notin Session
  BY <1>3 DEF Session, States
<1>5. NoRow.stopped = FALSE
  BY DEF NoRow, NewSession
<1>6. ~NewSession.stopped /\ ~NewSession.paused /\ NewSession.budget = NewBudget
  BY DEF NewSession
<1>7. QED
  BY <1>1, <1>2, <1>4, <1>5, <1>6

\* A session leaves its flags alone when nothing happens,
LEMMA LeavesSame ==
  ASSUME NEW s \in Session
  PROVE  Leaves(s, s)
  BY SessionParts DEF Leaves

\* and when two things happen that leave them alone.
LEMMA LeavesTrans ==
  ASSUME NEW s \in Session, NEW t \in Session, NEW u, Leaves(s, t), Leaves(t, u)
  PROVE  Leaves(s, u)
  BY SessionParts DEF Leaves

\* A change of state keeps the session's flags and budget.
LEMMA EndedLeaves ==
  ASSUME NEW s \in Session, NEW state \in States
  PROVE  /\ Leaves(s, Ended(s, state)) /\ Ended(s, state).budget = s.budget
         /\ Leaves(s, Working(s)) /\ Working(s).budget = s.budget
<1>1. /\ Ended(s, state) \in Session
      /\ Ended(s, state).stopped = s.stopped /\ Ended(s, state).paused = s.paused
      /\ Ended(s, state).budget = s.budget
  BY DEF Ended, Session
<1>2. /\ Working(s) \in Session
      /\ Working(s).stopped = s.stopped /\ Working(s).paused = s.paused
      /\ Working(s).budget = s.budget
  BY DEF Working, Session, States
<1>3. QED
  BY <1>1, <1>2, SessionParts DEF Leaves, Caps

\* Charging a session.
LEMMA ChargedLeaves ==
  ASSUME NEW s \in Session
  PROVE  /\ Leaves(s, [s EXCEPT !.budget.tools = @ + 1])
         /\ [s EXCEPT !.budget.tools = @ + 1].budget.tools = s.budget.tools + 1
         /\ Leaves(s, [s EXCEPT !.budget.iterations = @ + 1])
         /\ [s EXCEPT !.budget.iterations = @ + 1].budget.iterations = s.budget.iterations + 1
         /\ [s EXCEPT !.budget.iterations = @ + 1].budget.tools = s.budget.tools
         /\ \A used \in Nat :
              /\ Leaves(s, [s EXCEPT !.budget.tokens = @ + used])
              /\ [s EXCEPT !.budget.tokens = @ + used].budget.tools = s.budget.tools
<1> DEFINE Charged(b) == [s EXCEPT !.budget = b]
<1>1. ASSUME NEW b \in Budget
      PROVE  /\ Charged(b) \in Session /\ Charged(b).budget = b
             /\ Charged(b).stopped = s.stopped /\ Charged(b).paused = s.paused
  BY DEF Session
<1>2. /\ [s EXCEPT !.budget.tools = @ + 1] = Charged([s.budget EXCEPT !.tools = @ + 1])
      /\ [s EXCEPT !.budget.iterations = @ + 1] = Charged([s.budget EXCEPT !.iterations = @ + 1])
  BY DEF Session
<1>3. s.budget \in Budget
  BY SessionParts
<1>4. /\ [s.budget EXCEPT !.tools = @ + 1] \in Budget
      /\ [s.budget EXCEPT !.iterations = @ + 1] \in Budget
      /\ \A used \in Nat : [s.budget EXCEPT !.tokens = @ + used] \in Budget
  BY <1>3 DEF Budget
<1> HIDE DEF Charged
<1>5. ASSUME NEW b \in Budget, b.maxIterations = s.budget.maxIterations,
             b.maxTools = s.budget.maxTools,
             b.iterations >= s.budget.iterations, b.tools >= s.budget.tools
      PROVE  Leaves(s, Charged(b))
  BY <1>1, <1>5 DEF Leaves, Caps
<1>6. /\ Leaves(s, Charged([s.budget EXCEPT !.tools = @ + 1]))
      /\ Charged([s.budget EXCEPT !.tools = @ + 1]).budget.tools = s.budget.tools + 1
  BY <1>1, <1>3, <1>4, <1>5 DEF Budget
<1>7. LET b == [s.budget EXCEPT !.iterations = @ + 1]
      IN  /\ Leaves(s, Charged(b))
          /\ Charged(b).budget.iterations = s.budget.iterations + 1
          /\ Charged(b).budget.tools = s.budget.tools
  BY <1>1, <1>3, <1>4, <1>5 DEF Budget
<1>8. ASSUME NEW used \in Nat
      PROVE  /\ Leaves(s, Charged([s.budget EXCEPT !.tokens = @ + used]))
             /\ Charged([s.budget EXCEPT !.tokens = @ + used]).budget.tools = s.budget.tools
  BY <1>1, <1>3, <1>4, <1>5 DEF Budget
<1>9. /\ Leaves(s, [s EXCEPT !.budget.tools = @ + 1])
      /\ [s EXCEPT !.budget.tools = @ + 1].budget.tools = s.budget.tools + 1
  BY <1>2, <1>6
<1>10. /\ Leaves(s, [s EXCEPT !.budget.iterations = @ + 1])
       /\ [s EXCEPT !.budget.iterations = @ + 1].budget.iterations = s.budget.iterations + 1
       /\ [s EXCEPT !.budget.iterations = @ + 1].budget.tools = s.budget.tools
  BY <1>2, <1>7
<1>11. ASSUME NEW used \in Nat
       PROVE  /\ Leaves(s, [s EXCEPT !.budget.tokens = @ + used])
              /\ [s EXCEPT !.budget.tokens = @ + used].budget.tools = s.budget.tools
  <2>1. [s EXCEPT !.budget.tokens = @ + used] = Charged([s.budget EXCEPT !.tokens = @ + used])
    BY DEF Session, Charged
  <2>2. QED
    BY <1>8, <2>1
<1>12. QED
  BY <1>9, <1>10, <1>11

\* What a step may come out as: a tool runs only when a call was left, it is
\* charged for it, and one that looks at the cancellation flag did not see it.
Fair(s, out) ==
  /\ Leaves(s, out.s)
  /\ out.go \in {"answered", "refused", "run"}
  /\ out.go = "run" =>
       /\ s.budget.tools < s.budget.maxTools
       /\ out.s.budget.tools >= s.budget.tools + 1
       /\ out.tool \in Cancellable => ~Cancelled(s)

\* A step that is answered or refused runs no tool, so it is fair.
LEMMA AnsweredFair ==
  ASSUME NEW s \in Session, NEW t, Leaves(s, t)
  PROVE  Fair(s, Answered(t)) /\ Fair(s, Refused(t))
  BY DEF Fair, Answered, Refused

\* _execute_tool.
LEMMA ToolStartFair ==
  ASSUME NEW s \in Session, NEW t \in Tools, NEW out \in ToolStart(s, t)
  PROVE  Fair(s, out)
<1> DEFINE charged == [s EXCEPT !.budget.tools = @ + 1]
<1>1. Leaves(s, charged) /\ charged.budget.tools = s.budget.tools + 1
  BY ChargedLeaves
<1>2. charged \in Session
  BY <1>1 DEF Leaves
<1>3. Leaves(s, s) /\ Leaves(s, Working(s))
  BY LeavesSame, EndedLeaves DEF States
<1>4. /\ Leaves(charged, Ended(charged, "budget_exhausted"))
      /\ Leaves(charged, Working(charged)) /\ Working(charged).budget = charged.budget
  <2> HIDE DEF charged
  <2>1. QED
    BY <1>2, EndedLeaves DEF States
<1>5. Leaves(s, Ended(charged, "budget_exhausted")) /\ Leaves(s, Working(charged))
  <2> HIDE DEF charged
  <2>1. QED
    BY <1>1, <1>2, <1>4, LeavesTrans
<1>6. charged.budget.maxTools = s.budget.maxTools
  <2> HIDE DEF charged
  <2>1. QED
    BY <1>1 DEF Leaves, Caps
<1>7. CASE out \in {Refused(s), Answered(s), Answered(Working(s))}
  <2>1. Fair(s, Refused(s)) /\ Fair(s, Answered(s)) /\ Fair(s, Answered(Working(s)))
    BY <1>3, AnsweredFair
  <2>2. QED
    BY <1>7, <2>1
<1>8. CASE out \notin {Refused(s), Answered(s), Answered(Working(s))}
  <2>1. out = IF charged.budget.tools > charged.budget.maxTools
              THEN Refused(Ended(charged, "budget_exhausted"))
              ELSE IF Cancelled(s) /\ t \in Cancellable
              THEN Answered(Working(charged))
              ELSE [s |-> Working(charged), go |-> "run", tool |-> t]
    BY <1>8 DEF ToolStart
  <2> HIDE DEF charged
  <2>2. CASE out = Refused(Ended(charged, "budget_exhausted")) \/ out = Answered(Working(charged))
    BY <1>5, <2>2, AnsweredFair
  <2>3. CASE /\ ~ charged.budget.tools > charged.budget.maxTools
             /\ ~ (Cancelled(s) /\ t \in Cancellable)
             /\ out = [s |-> Working(charged), go |-> "run", tool |-> t]
    <3>1. s.budget.tools < s.budget.maxTools
      BY <1>1, <1>6, <2>3, SessionParts
    <3>2. out.s = Working(charged) /\ out.go = "run" /\ out.tool = t
      BY <2>3
    <3>3. out.s.budget.tools >= s.budget.tools + 1
      BY <1>1, <1>4, <3>2, SessionParts
    <3>4. QED
      BY <1>5, <2>3, <3>1, <3>2, <3>3 DEF Fair
  <2>4. QED
    BY <2>1, <2>2, <2>3
<1>9. QED
  BY <1>7, <1>8

\* _finalize_run.
LEMMA FinalizedLeaves ==
  ASSUME NEW s \in Session, NEW t \in Finalized(s)
  PROVE  Leaves(s, t)
<1>1. t = s \/ \E state \in States : t = Ended(s, state)
  BY DEF Finalized, EndStates, States
<1>2. QED
  BY <1>1, LeavesSame, EndedLeaves

\* _apply_decision.
LEMMA AppliedFair ==
  ASSUME NEW s \in Session, NEW ends, \A e \in ends : Leaves(s, e), NEW out \in Applied(s, ends)
  PROVE  Fair(s, out)
<1>1. \/ out = Answered(Working(s)) \/ out = Refused(s)
      \/ \E e \in ends : out = Answered(e)
      \/ \E t \in Tools : out \in ToolStart(s, t)
  BY DEF Applied
<1>2. Leaves(s, s) /\ Leaves(s, Working(s))
  BY LeavesSame, EndedLeaves DEF States
<1>3. QED
  BY <1>1, <1>2, AnsweredFair, ToolStartFair

\* A session that was charged first comes out of a step as fairly.
LEMMA FairAfter ==
  ASSUME NEW s \in Session, NEW t, Leaves(s, t), t.budget.tools = s.budget.tools,
         NEW out, Fair(t, out)
  PROVE  Fair(s, out)
<1>1. t \in Session /\ out.s \in Session
  BY DEF Leaves, Fair
<1>2. Leaves(s, out.s)
  BY <1>1, LeavesTrans DEF Fair
<1>3. Cancelled(t) <=> Cancelled(s)
  BY DEF Leaves, Cancelled
<1>4. t.budget.maxTools = s.budget.maxTools
  BY DEF Leaves, Caps
<1>5. QED
  BY <1>2, <1>3, <1>4 DEF Fair

-----------------------------------------------------------------------------
(* The requests, their agents and the lock *)

RequestState ==
  [op : AllOps \union {"none"}, pc : Places, agent : Nat,
   base : Session \union {NoRow}, mine : Session \union {NoRow}]

\* Places in which a request has an agent.
HasAgent == Locked \union {"ready"}

Placed(r) ==
  /\ req[r].agent \in 0 .. Len(agents)
  /\ req[r].pc \in HasAgent => req[r].agent \in 1 .. Len(agents)
  /\ req[r].pc = "restoring" => req[r].base \in Session
  /\ req[r].pc = "committing" => req[r].mine \in Session /\ req[r].base \in Session
  /\ req[r].pc = "planning" => req[r].op = "step"
  /\ req[r].pc = "running" => req[r].op \in {"step", "decision", "tool"}
  /\ req[r].pc \in {"planning", "running"} => lock = r

Typed ==
  /\ controller \in Controllers /\ row \in Session
  /\ agents \in Seq(Session) /\ registry \in 0 .. Len(agents)
  /\ lock \in Requests \union {"free"}
  /\ req \in [Requests -> RequestState]
  /\ hung \in BOOLEAN /\ told \subseteq {"paused", "stopped"}
  /\ plans \in Nat /\ ran \in [all : Nat, cancellable : Nat] /\ twins \in BOOLEAN
  /\ granted \in Nat /\ calls \in Nat /\ crashes \in Nat /\ faults \in Nat

Inv == Typed /\ (\A r \in Requests : Placed(r)) /\ LockIsNotLost

\* The inductive invariant includes the types.
LEMMA InvType == Inv => TypeOK
<1> SUFFICES ASSUME Inv PROVE TypeOK
  OBVIOUS
<1>1. Len(agents) \in Nat /\ DOMAIN agents = 1 .. Len(agents)
  BY LenProperties DEF Inv, Typed
<1>2. req \in [Requests -> [op : AllOps \union {"none"}, pc : Places, agent : 0 .. Len(agents),
                            base : Session \union {NoRow}, mine : Session \union {NoRow}]]
  <2>1. ASSUME NEW r \in Requests
        PROVE  req[r] \in [op : AllOps \union {"none"}, pc : Places, agent : 0 .. Len(agents),
                           base : Session \union {NoRow}, mine : Session \union {NoRow}]
    <3>1. req[r] \in RequestState /\ req[r].agent \in 0 .. Len(agents)
      BY DEF Inv, Typed, Placed
    <3>2. QED
      BY <3>1 DEF RequestState
  <2>2. QED
    BY <2>1 DEF Inv, Typed
<1>3. ASSUME NEW r \in Requests, req[r].pc \in Locked \union {"ready"}
      PROVE  req[r].agent \in DOMAIN agents
  BY <1>1, <1>3 DEF Inv, Placed, HasAgent
<1>4. QED
  BY <1>2, <1>3 DEF TypeOK, Inv, Typed

\* It holds of the sessions a process may find.
LEMMA InvInit == Init => Inv
<1> SUFFICES ASSUME Init PROVE Inv
  OBVIOUS
<1>1. row \in Session
  BY NewSessionTypes DEF Init, Ended, Session, States
<1>2. agents \in Seq(Session) /\ registry \in 0 .. Len(agents)
  <2>1. <<>> \in Seq(Session) /\ Len(<<>>) = 0
    BY EmptySeq
  <2>2. <<NewSession>> \in Seq(Session) /\ Len(<<NewSession>>) = 1
    BY NewSessionTypes
  <2>3. CASE agents = <<NewSession>> /\ registry = 1
    BY <2>2, <2>3
  <2>4. CASE agents = <<>> /\ registry = 0
    BY <2>1, <2>4
  <2>5. QED
    BY <2>3, <2>4 DEF Init
<1>3. Idle \in RequestState /\ Idle.pc = "idle" /\ Idle.agent = 0
  BY DEF Idle, RequestState, Places
<1>4. req \in [Requests -> RequestState] /\ \A r \in Requests : req[r] = Idle
  BY <1>3 DEF Init
<1>5. controller \in Controllers /\ lock = "free" /\ told \subseteq {"paused", "stopped"}
  BY DEF Init
<1>6. /\ hung \in BOOLEAN /\ twins \in BOOLEAN
      /\ plans \in Nat /\ granted \in Nat /\ calls \in Nat /\ crashes \in Nat /\ faults \in Nat
  BY DEF Init
<1>7. ran \in [all : Nat, cancellable : Nat]
  BY DEF Init
<1>8. Typed
  BY <1>1, <1>2, <1>4, <1>5, <1>6, <1>7 DEF Typed
<1>9. ASSUME NEW r \in Requests PROVE Placed(r)
  BY <1>2, <1>3, <1>4 DEF Placed, HasAgent, Locked
<1>10. LockIsNotLost
  BY <1>5 DEF LockIsNotLost
<1>11. QED
  BY <1>8, <1>9, <1>10 DEF Inv

-----------------------------------------------------------------------------
(* What the requests at work have in common *)

\* p plans, n tool calls and g grants are within the budget b.
Within(b, p, n, g) ==
  /\ p <= b.iterations /\ p <= b.maxIterations
  /\ n <= b.tools /\ n <= b.maxTools
  /\ b.maxIterations + b.maxTools = MaxIterations + MaxToolCalls + g

GoesOn(r, pc) ==
  /\ pc \in {"planning", "running", "saving"}
  /\ req' = [req EXCEPT ![r].pc = pc]
  /\ lock' = lock \/ (lock' = r /\ lock \in {r, "free"})
  /\ pc # "saving" => lock' = r
  /\ pc = "planning" => req[r].op = "step"
  /\ pc = "running" => req[r].op \in {"step", "decision", "tool"}

\* Request r works on its agent and leaves the session s: a stop is never taken
\* back, a pause only by telling so, nothing starts in a session that is halted,
\* and what starts is within the budget.
Works(r, s) ==
  /\ req[r].pc \in {"ready", "planning", "running"}
  /\ agents' = [agents EXCEPT ![req[r].agent] = s]
  /\ Finish(r) \/ (\E pc \in Locked : GoesOn(r, pc)) \/ UNCHANGED <<req, lock>>
  /\ UNCHANGED <<controller, row, registry, twins, calls, troubles>>
  /\ hung' \in BOOLEAN /\ told' \subseteq told
  /\ plans' \in Nat /\ ran' \in [all : Nat, cancellable : Nat] /\ granted' \in Nat
  /\ Of(r).stopped \/ req[r].op = "stop" => s.stopped
  /\ "stopped" \in told => "stopped" \in told'
  /\ Of(r).paused /\ "paused" \in told' => s.paused
  /\ Cancelled(Of(r)) => plans' = plans /\ ran'.cancellable = ran.cancellable
  /\ Within(Of(r).budget, plans, ran.all, granted) => Within(s.budget, plans', ran'.all, granted')

\* The agent a request works on is registered or was.
LEMMA AgentTypes ==
  ASSUME Typed, NEW r \in Requests, Placed(r), req[r].pc \in HasAgent
  PROVE  /\ req[r].agent \in 1 .. Len(agents) /\ Len(agents) \in Nat
         /\ Of(r) \in Session
         /\ [agents EXCEPT ![req[r].agent] = Of(r)] = agents
<1>1. req[r].agent \in 1 .. Len(agents)
  BY DEF Placed
<1>2. Len(agents) \in Nat /\ agents \in [1 .. Len(agents) -> Session]
  BY LenProperties DEF Typed
<1>3. QED
  BY <1>1, <1>2 DEF Of

\* Pause and stop.
LEMMA HaltWorks ==
  ASSUME Typed, NEW r \in Requests, Placed(r), Halt(r)
  PROVE  \E s \in Session : Works(r, s)
<1>1. req[r].pc = "ready" /\ Of(r) \in Session
  BY AgentTypes DEF Halt, At, HasAgent
<1>2. CASE req[r].op = "pause"
  <2> DEFINE s == [Ended(Of(r), "user_paused") EXCEPT !.paused = TRUE]
  <2>1. /\ Ended(Of(r), "user_paused") \in Session
        /\ Ended(Of(r), "user_paused").stopped = Of(r).stopped
        /\ Ended(Of(r), "user_paused").budget = Of(r).budget
    BY <1>1, EndedLeaves DEF Leaves, States
  <2>2. s \in Session /\ s.paused /\ s.stopped = Of(r).stopped /\ s.budget = Of(r).budget
    BY <2>1 DEF Session
  <2>3. Go(r, "saving", s)
    BY <1>2 DEF Halt, At
  <2> HIDE DEF s
  <2>4. Works(r, s)
    BY <1>1, <1>2, <2>2, <2>3 DEF Works, Halt, Go, GoesOn, Locked, Typed, work, troubles
  <2>5. QED
    BY <2>2, <2>4
<1>3. CASE req[r].op = "stop"
  <2> DEFINE s == [Ended(Of(r), "user_stopped") EXCEPT !.stopped = TRUE]
  <2>1. /\ Ended(Of(r), "user_stopped") \in Session
        /\ Ended(Of(r), "user_stopped").paused = Of(r).paused
        /\ Ended(Of(r), "user_stopped").budget = Of(r).budget
    BY <1>1, EndedLeaves DEF Leaves, States
  <2>2. s \in Session /\ s.stopped /\ s.paused = Of(r).paused /\ s.budget = Of(r).budget
    BY <2>1 DEF Session
  <2>3. Go(r, "saving", s)
    BY <1>3 DEF Halt, At
  <2> HIDE DEF s
  <2>4. Works(r, s)
    BY <1>1, <1>3, <2>2, <2>3 DEF Works, Halt, Go, GoesOn, Locked, Typed, work, troubles
  <2>5. QED
    BY <2>2, <2>4
<1>4. QED
  BY <1>2, <1>3 DEF Halt, At

\* A request that fails, or is refused, before it has touched its agent.
LEMMA RefusalWorks ==
  ASSUME Typed, NEW r \in Requests, Placed(r), req[r].pc = "ready", req[r].op # "stop",
         Finish(r) \/ UNCHANGED <<req, lock>>, agents' = agents, hung' \in BOOLEAN,
         UNCHANGED <<controller, row, registry, told, work, twins, granted, calls, troubles>>
  PROVE  \E s \in Session : Works(r, s)
<1>1. /\ Of(r) \in Session /\ [agents EXCEPT ![req[r].agent] = Of(r)] = agents
  BY AgentTypes DEF HasAgent
<1>2. Works(r, Of(r))
  BY <1>1 DEF Works, Typed, work, troubles
<1>3. QED
  BY <1>1, <1>2

\* A resume is work on its agent,
LEMMA ResumeWorks ==
  ASSUME Typed, NEW r \in Requests, Placed(r), Resume(r)
  PROVE  \E s \in Session : Works(r, s)
<1>1. req[r].pc = "ready" /\ req[r].op = "resume" /\ Of(r) \in Session
  BY AgentTypes DEF Resume, At, HasAgent
<1>2. CASE Of(r).state \in ResumeBlocked \/ Of(r).stopped
  BY <1>1, <1>2, RefusalWorks DEF Resume, Typed
<1>3. CASE ~(Of(r).state \in ResumeBlocked \/ Of(r).stopped)
  <2> DEFINE s == [Working(Of(r)) EXCEPT !.paused = FALSE, !.reason = "none"]
  <2>1. /\ Working(Of(r)) \in Session
        /\ Working(Of(r)).stopped = Of(r).stopped
        /\ Working(Of(r)).budget = Of(r).budget
    BY <1>1, EndedLeaves DEF Leaves, States
  <2>2. s \in Session /\ s.stopped = Of(r).stopped /\ s.budget = Of(r).budget
    BY <2>1 DEF Session
  <2>3. Go(r, "saving", s) /\ told' = told \ {"paused"} /\ lock' = lock
    BY <1>3 DEF Resume
  <2> HIDE DEF s
  <2>4. Works(r, s)
    BY <1>1, <2>2, <2>3 DEF Works, Resume, Go, GoesOn, Locked, Typed, work, troubles
  <2>5. QED
    BY <2>2, <2>4
<1>4. QED
  BY <1>2, <1>3

\* An operator's change of the caps, which leaves what was used within them.
LEMMA CapsWork ==
  ASSUME Typed, NEW r \in Requests, Placed(r), req[r].pc = "ready", req[r].op # "stop",
         NEW b \in Budget, Go(r, "saving", [Of(r) EXCEPT !.budget = b]),
         granted' \in Nat, lock' = lock,
         Within(Of(r).budget, plans, ran.all, granted) => Within(b, plans, ran.all, granted'),
         UNCHANGED <<controller, row, registry, hung, told, work, twins, calls, troubles>>
  PROVE  \E s \in Session : Works(r, s)
<1> DEFINE s == [Of(r) EXCEPT !.budget = b]
<1>1. Of(r) \in Session
  BY AgentTypes DEF HasAgent
<1>2. s \in Session /\ s.stopped = Of(r).stopped /\ s.paused = Of(r).paused /\ s.budget = b
  BY <1>1 DEF Session
<1>3. Go(r, "saving", s)
  OBVIOUS
<1> HIDE DEF s
<1>4. Works(r, s)
  BY <1>1, <1>2, <1>3 DEF Works, Go, GoesOn, Locked, Typed, work, troubles
<1>5. QED
  BY <1>2, <1>4

\* The counters are numbers.
LEMMA CountTypes ==
  ASSUME Typed
  PROVE  plans \in Nat /\ ran.all \in Nat /\ ran.cancellable \in Nat /\ granted \in Nat
  BY DEF Typed

\* Granting a unit, or moving one that is left, keeps what was used within the
\* caps, and the caps within what was given and granted.
LEMMA CapsWithin ==
  ASSUME NEW c \in Budget, NEW p \in Nat, NEW n \in Nat, NEW g \in Nat
  PROVE  /\ \E b \in Budget :
              /\ b = [c EXCEPT !.maxTools = @ + 1]
              /\ Within(c, p, n, g) => Within(b, p, n, g + 1)
         /\ c.iterations < c.maxIterations =>
              \E b \in Budget :
                /\ b = [c EXCEPT !.maxIterations = @ - 1, !.maxTools = @ + 1]
                /\ Within(c, p, n, g) => Within(b, p, n, g)
         /\ c.tools < c.maxTools =>
              \E b \in Budget :
                /\ b = [c EXCEPT !.maxTools = @ - 1, !.maxIterations = @ + 1]
                /\ Within(c, p, n, g) => Within(b, p, n, g)
<1>1. /\ c.iterations \in Nat /\ c.tools \in Nat /\ c.tokens \in Nat
      /\ c.maxIterations \in Nat /\ c.maxTools \in Nat
  BY DEF Budget
<1>2. ASSUME NEW mi \in Nat, NEW mt \in Nat
      PROVE  LET b == [c EXCEPT !.maxIterations = mi, !.maxTools = mt]
             IN  /\ b \in Budget /\ b.iterations = c.iterations /\ b.tools = c.tools
                 /\ b.maxIterations = mi /\ b.maxTools = mt
  BY DEF Budget
<1>3. \E b \in Budget :
        /\ b = [c EXCEPT !.maxTools = @ + 1]
        /\ Within(c, p, n, g) => Within(b, p, n, g + 1)
  <2> DEFINE b == [c EXCEPT !.maxTools = @ + 1]
  <2>1. /\ b \in Budget /\ b.iterations = c.iterations /\ b.tools = c.tools
        /\ b.maxIterations = c.maxIterations /\ b.maxTools = c.maxTools + 1
    BY <1>1 DEF Budget
  <2> HIDE DEF b
  <2>2. Within(c, p, n, g) => Within(b, p, n, g + 1)
    BY <1>1, <2>1 DEF Within
  <2>3. QED
    BY <2>1, <2>2 DEF b
<1>4. ASSUME c.iterations < c.maxIterations
      PROVE  \E b \in Budget :
               /\ b = [c EXCEPT !.maxIterations = @ - 1, !.maxTools = @ + 1]
               /\ Within(c, p, n, g) => Within(b, p, n, g)
  <2> DEFINE b == [c EXCEPT !.maxIterations = @ - 1, !.maxTools = @ + 1]
  <2>0. c.maxIterations - 1 \in Nat /\ c.maxTools + 1 \in Nat
    BY <1>1, <1>4
  <2>1. /\ b \in Budget /\ b.iterations = c.iterations /\ b.tools = c.tools
        /\ b.maxIterations = c.maxIterations - 1 /\ b.maxTools = c.maxTools + 1
    BY ZenonT(30), <1>2, <2>0
  <2> HIDE DEF b
  <2>2. Within(c, p, n, g) => Within(b, p, n, g)
    BY <1>1, <1>4, <2>1 DEF Within
  <2>3. QED
    BY <2>1, <2>2 DEF b
<1>5. ASSUME c.tools < c.maxTools
      PROVE  \E b \in Budget :
               /\ b = [c EXCEPT !.maxTools = @ - 1, !.maxIterations = @ + 1]
               /\ Within(c, p, n, g) => Within(b, p, n, g)
  <2> DEFINE b == [c EXCEPT !.maxTools = @ - 1, !.maxIterations = @ + 1]
  <2>0. c.maxTools - 1 \in Nat /\ c.maxIterations + 1 \in Nat
    BY <1>1, <1>5
  <2>1. /\ b \in Budget /\ b.iterations = c.iterations /\ b.tools = c.tools
        /\ b.maxIterations = c.maxIterations + 1 /\ b.maxTools = c.maxTools - 1
    BY <2>0 DEF Budget
  <2> HIDE DEF b
  <2>2. Within(c, p, n, g) => Within(b, p, n, g)
    BY <1>1, <1>5, <2>1 DEF Within
  <2>3. QED
    BY <2>1, <2>2 DEF b
<1>6. QED
  BY <1>3, <1>4, <1>5

\* a grant is,
LEMMA GrantWorks ==
  ASSUME Typed, NEW r \in Requests, Placed(r), Grant(r)
  PROVE  \E s \in Session : Works(r, s)
<1>1. req[r].pc = "ready" /\ req[r].op = "grant" /\ Of(r) \in Session
  BY AgentTypes DEF Grant, At, HasAgent
<1>2. Of(r).budget \in Budget
  BY <1>1, SessionParts
<1>3. PICK b \in Budget :
        /\ b = [Of(r).budget EXCEPT !.maxTools = @ + 1]
        /\ Within(Of(r).budget, plans, ran.all, granted) => Within(b, plans, ran.all, granted + 1)
  BY <1>2, CountTypes, CapsWithin
<1>4. [Of(r) EXCEPT !.budget.maxTools = @ + 1] = [Of(r) EXCEPT !.budget = b]
  BY <1>1, <1>3 DEF Session
<1>5. /\ Within(Of(r).budget, plans, ran.all, granted) => Within(b, plans, ran.all, granted')
      /\ granted' \in Nat
  BY <1>3, CountTypes DEF Grant
<1>6. Go(r, "saving", [Of(r) EXCEPT !.budget = b])
  BY <1>4 DEF Grant
<1>7. QED
  BY <1>1, <1>5, <1>6, CapsWork DEF Grant

\* A unit is moved only if it is left, so that what was used stays within the
\* cap it is taken from (budget.reallocate).
LEMMA ReallocateWorks ==
  ASSUME Typed, NEW r \in Requests, Placed(r), Reallocate(r)
  PROVE  \E s \in Session : Works(r, s)
<1>1. req[r].pc = "ready" /\ req[r].op = "reallocate" /\ Of(r) \in Session
  BY AgentTypes DEF Reallocate, At, HasAgent
<1>2. Of(r).budget \in Budget
  BY <1>1, SessionParts
<1>3. granted' \in Nat /\ granted' = granted
  BY DEF Reallocate, Typed
<1>4. CASE /\ Of(r).budget.iterations < Of(r).budget.maxIterations /\ UNCHANGED lock
           /\ Go(r, "saving", [Of(r) EXCEPT !.budget.maxIterations = @ - 1, !.budget.maxTools = @ + 1])
  <2>1. PICK b \in Budget :
          /\ b = [Of(r).budget EXCEPT !.maxIterations = @ - 1, !.maxTools = @ + 1]
          /\ Within(Of(r).budget, plans, ran.all, granted) => Within(b, plans, ran.all, granted)
    BY <1>2, <1>4, CountTypes, CapsWithin
  <2>2. [Of(r) EXCEPT !.budget.maxIterations = @ - 1, !.budget.maxTools = @ + 1]
          = [Of(r) EXCEPT !.budget = b]
    BY <1>1, <1>2, <2>1 DEF Session, Budget
  <2>3. Within(Of(r).budget, plans, ran.all, granted) => Within(b, plans, ran.all, granted')
    BY <1>3, <2>1
  <2>4. Go(r, "saving", [Of(r) EXCEPT !.budget = b])
    BY <1>4, <2>2
  <2>5. QED
    BY <1>1, <1>3, <1>4, <2>3, <2>4, CapsWork DEF Reallocate
<1>5. CASE /\ Of(r).budget.tools < Of(r).budget.maxTools /\ UNCHANGED lock
           /\ Go(r, "saving", [Of(r) EXCEPT !.budget.maxTools = @ - 1, !.budget.maxIterations = @ + 1])
  <2>1. PICK b \in Budget :
          /\ b = [Of(r).budget EXCEPT !.maxTools = @ - 1, !.maxIterations = @ + 1]
          /\ Within(Of(r).budget, plans, ran.all, granted) => Within(b, plans, ran.all, granted)
    BY <1>2, <1>5, CountTypes, CapsWithin
  <2>2. [Of(r) EXCEPT !.budget.maxTools = @ - 1, !.budget.maxIterations = @ + 1]
          = [Of(r) EXCEPT !.budget = b]
    BY <1>1, <1>2, <2>1 DEF Session, Budget
  <2>3. Within(Of(r).budget, plans, ran.all, granted) => Within(b, plans, ran.all, granted')
    BY <1>3, <2>1
  <2>4. Go(r, "saving", [Of(r) EXCEPT !.budget = b])
    BY <1>5, <2>2
  <2>5. QED
    BY <1>1, <1>3, <1>5, <2>3, <2>4, CapsWork DEF Reallocate
<1>6. CASE Finish(r) /\ UNCHANGED agents
  BY <1>1, <1>6, RefusalWorks DEF Reallocate, Typed
<1>7. QED
  BY <1>4, <1>5, <1>6 DEF Reallocate

\* a step is,
LEMMA StepWorks ==
  ASSUME Typed, NEW r \in Requests, Placed(r), Step(r)
  PROVE  \E s \in Session : Works(r, s)
<1>1. req[r].pc = "ready" /\ req[r].op = "step" /\ Of(r) \in Session
  BY AgentTypes DEF Step, At, HasAgent
<1>2. CASE controller = "cursor" /\ Finish(r) /\ UNCHANGED <<agents, plans>>
  BY <1>1, <1>2, RefusalWorks DEF Step, Typed, work
<1>3. ASSUME lock = "free", lock' = r, Exhausted(Of(r).budget),
             Go(r, "saving", Ended(Of(r), "budget_exhausted")), UNCHANGED plans
      PROVE  \E s \in Session : Works(r, s)
  <2> DEFINE s == Ended(Of(r), "budget_exhausted")
  <2>1. /\ s \in Session /\ s.stopped = Of(r).stopped /\ s.paused = Of(r).paused
        /\ s.budget = Of(r).budget
    BY <1>1, EndedLeaves DEF Leaves, States
  <2>2. Go(r, "saving", s)
    BY <1>3
  <2> HIDE DEF s
  <2>3. Works(r, s)
    BY <1>1, <1>3, <2>1, <2>2 DEF Works, Step, Go, GoesOn, Locked, Typed, work, troubles
  <2>4. QED
    BY <2>1, <2>3
<1>4. ASSUME lock = "free", lock' = r, Cancelled(Of(r)), Go(r, "saving", Of(r)), UNCHANGED plans
      PROVE  \E s \in Session : Works(r, s)
  <2>1. Works(r, Of(r))
    BY <1>1, <1>4 DEF Works, Step, Go, GoesOn, Locked, Typed, work, troubles
  <2>2. QED
    BY <1>1, <2>1
<1>5. ASSUME lock = "free", lock' = r, ~ Exhausted(Of(r).budget), ~ Cancelled(Of(r)),
             Go(r, "planning", [Of(r) EXCEPT !.budget.iterations = @ + 1]), plans' = plans + 1
      PROVE  \E s \in Session : Works(r, s)
  <2> DEFINE s == [Of(r) EXCEPT !.budget.iterations = @ + 1]
  <2>1. /\ s \in Session /\ s.stopped = Of(r).stopped /\ s.paused = Of(r).paused
        /\ s.budget.iterations = Of(r).budget.iterations + 1
        /\ s.budget.tools = Of(r).budget.tools
        /\ s.budget.maxIterations = Of(r).budget.maxIterations
        /\ s.budget.maxTools = Of(r).budget.maxTools
    BY <1>1, ChargedLeaves DEF Leaves, Caps
  <2>2. Go(r, "planning", s)
    BY <1>5
  <2> HIDE DEF s
  <2>3. Within(Of(r).budget, plans, ran.all, granted) => Within(s.budget, plans', ran.all, granted)
    BY <1>1, <1>5, <2>1, SessionParts, CountTypes DEF Within, Exhausted
  <2>4. ran' = ran /\ granted' = granted /\ plans' \in Nat
    BY <1>5, CountTypes DEF Step
  <2>5. Works(r, s)
    BY <1>1, <1>5, <2>1, <2>2, <2>3, <2>4 DEF Works, Step, Go, GoesOn, Locked, Typed, work, troubles
  <2>6. QED
    BY <2>1, <2>5
<1>6. QED
  BY <1>2, <1>3, <1>4, <1>5 DEF Step

\* What was planned and run stays within the budget when a step comes out fairly.
LEMMA FairWithin ==
  ASSUME NEW s \in Session, NEW out, Fair(s, out),
         NEW p \in Nat, NEW q \in Nat, NEW n \in Nat, NEW g \in Nat, Within(s.budget, p, n, g),
         q <= out.s.budget.iterations, q <= s.budget.maxIterations
  PROVE  Within(out.s.budget, q, n + (IF out.go = "run" THEN 1 ELSE 0), g)
<1>1. out.s \in Session /\ Leaves(s, out.s)
  BY DEF Fair, Leaves
<1>2. /\ out.s.budget.maxIterations = s.budget.maxIterations
      /\ out.s.budget.maxTools = s.budget.maxTools
      /\ out.s.budget.tools >= s.budget.tools
  BY <1>1 DEF Leaves, Caps
<1>3. CASE out.go = "run"
  BY <1>1, <1>2, <1>3, SessionParts DEF Fair, Within
<1>4. CASE out.go # "run"
  BY <1>1, <1>2, <1>4, SessionParts DEF Fair, Within
<1>5. QED
  BY <1>3, <1>4

\* A request that holds the lock, or may take it, leaves what a fair step makes
\* of its session; it may have planned one step, if one was left.
LEMMA OutcomeWorks ==
  ASSUME Typed, NEW r \in Requests, Placed(r), req[r].pc \in {"ready", "planning", "running"},
         req[r].op \in {"step", "decision", "tool"}, lock \in {r, "free"},
         NEW out, Fair(Of(r), out), Outcome(r, out),
         \/ plans' = plans
         \/ /\ plans' = plans + 1 /\ ~Cancelled(Of(r))
            /\ Of(r).budget.iterations + 1 <= out.s.budget.iterations
            /\ Of(r).budget.iterations + 1 <= Of(r).budget.maxIterations,
         UNCHANGED <<controller, row, registry, hung, told, twins, granted, calls, troubles>>
  PROVE  \E s \in Session : Works(r, s)
<1> DEFINE one == IF out.go = "run" THEN 1 ELSE 0
<1>1. Of(r) \in Session
  BY AgentTypes DEF HasAgent, Locked
<1>2. out.s \in Session /\ Leaves(Of(r), out.s)
  BY DEF Fair, Leaves
<1>3. agents' = [agents EXCEPT ![req[r].agent] = out.s]
  BY DEF Outcome
<1>4. Finish(r) \/ \E pc \in Locked : GoesOn(r, pc)
  BY DEF Outcome, GoesOn, Locked
<1>5. /\ ran'.all = ran.all + one
      /\ ran'.cancellable = ran.cancellable + (IF out.go = "run" /\ out.tool \in Cancellable THEN 1 ELSE 0)
      /\ ran' \in [all : Nat, cancellable : Nat]
  BY CountTypes DEF Outcome
<1>6. plans' \in Nat /\ granted' \in Nat /\ granted' = granted
  BY CountTypes
<1>7. ASSUME Cancelled(Of(r)) PROVE plans' = plans /\ ran'.cancellable = ran.cancellable
  <2>1. ~(out.go = "run" /\ out.tool \in Cancellable)
    BY <1>7 DEF Fair
  <2>2. QED
    BY <1>5, <1>7, <2>1, CountTypes
<1>8. ASSUME Within(Of(r).budget, plans, ran.all, granted)
      PROVE  Within(out.s.budget, plans', ran'.all, granted')
  <2>1. plans' <= out.s.budget.iterations /\ plans' <= Of(r).budget.maxIterations
    BY <1>1, <1>2, <1>8, SessionParts, CountTypes DEF Within, Leaves
  <2>2. Within(out.s.budget, plans', ran.all + one, granted)
    BY <1>1, <1>6, <1>8, <2>1, CountTypes, FairWithin
  <2>3. QED
    BY <1>5, <1>6, <2>2
<1>9. out.s.stopped = Of(r).stopped /\ out.s.paused = Of(r).paused
  BY <1>2 DEF Leaves
<1>10. hung' \in BOOLEAN /\ told' \subseteq told /\ ("stopped" \in told => "stopped" \in told')
  BY DEF Typed
<1> HIDE DEF one
<1>11. Works(r, out.s)
  BY <1>1, <1>2, <1>3, <1>4, <1>5, <1>6, <1>7, <1>8, <1>9, <1>10 DEF Works
<1>12. QED
  BY <1>2, <1>11

\* planning is,
LEMMA PlanWorks ==
  ASSUME Typed, NEW r \in Requests, Placed(r), Plan(r)
  PROVE  \E s \in Session : Works(r, s)
<1>1. /\ req[r].pc = "planning" /\ req[r].op = "step" /\ lock = r /\ Of(r) \in Session
  BY AgentTypes DEF Plan, Placed, HasAgent, Locked
<1>2. PICK used \in {0, MaxTokens + 1} :
        LET s == [Of(r) EXCEPT !.budget.tokens = @ + used]
        IN IF s.budget.tokens > MaxTokens /\ used > 0
           THEN Outcome(r, Answered(Working(Ended(s, "budget_exhausted"))))
           ELSE \E out \in Applied(s, {Ended(s, end) : end \in EndStates}) : Outcome(r, out)
  BY DEF Plan
<1> DEFINE s == [Of(r) EXCEPT !.budget.tokens = @ + used]
<1>3. Leaves(Of(r), s) /\ s.budget.tools = Of(r).budget.tools /\ s \in Session
  <2>1. used \in Nat
    BY <1>2
  <2>2. QED
    BY <1>1, <2>1, ChargedLeaves DEF Leaves
<1>4. \E out : Outcome(r, out)
              /\ \/ out = Answered(Working(Ended(s, "budget_exhausted")))
                 \/ out \in Applied(s, {Ended(s, end) : end \in EndStates})
  BY <1>2
<1> HIDE DEF s
<1>5. PICK out : Outcome(r, out)
                 /\ \/ out = Answered(Working(Ended(s, "budget_exhausted")))
                    \/ out \in Applied(s, {Ended(s, end) : end \in EndStates})
  BY <1>4
<1>6. Fair(s, out)
  <2>1. CASE out = Answered(Working(Ended(s, "budget_exhausted")))
    <3>1. Leaves(s, Ended(s, "budget_exhausted")) /\ Ended(s, "budget_exhausted") \in Session
      BY <1>3, EndedLeaves DEF Leaves, States
    <3>2. Leaves(Ended(s, "budget_exhausted"), Working(Ended(s, "budget_exhausted")))
      BY <3>1, EndedLeaves DEF States
    <3>3. Leaves(s, Working(Ended(s, "budget_exhausted")))
      BY <1>3, <3>1, <3>2, LeavesTrans
    <3>4. QED
      BY <1>3, <2>1, <3>3, AnsweredFair
  <2>2. CASE out \in Applied(s, {Ended(s, end) : end \in EndStates})
    <3>1. \A e \in {Ended(s, end) : end \in EndStates} : Leaves(s, e)
      BY <1>3, EndedLeaves DEF EndStates, States
    <3>2. QED
      BY <1>3, <2>2, <3>1, AppliedFair
  <2>3. QED
    BY <1>5, <2>1, <2>2
<1>7. Fair(Of(r), out)
  BY <1>1, <1>3, <1>6, FairAfter
<1>8. QED
  BY <1>1, <1>5, <1>7, OutcomeWorks DEF Plan

\* deciding is,
LEMMA DecisionWorks ==
  ASSUME Typed, NEW r \in Requests, Placed(r), Decision(r)
  PROVE  \E s \in Session : Works(r, s)
<1> DEFINE charged == [Of(r) EXCEPT !.budget.iterations = @ + 1]
<1>1. req[r].pc = "ready" /\ req[r].op = "decision" /\ Of(r) \in Session
  BY AgentTypes DEF Decision, At, HasAgent
<1>2. /\ Leaves(Of(r), charged) /\ charged.budget.tools = Of(r).budget.tools
      /\ charged.budget.iterations = Of(r).budget.iterations + 1 /\ charged \in Session
  BY <1>1, ChargedLeaves DEF Leaves
<1>3. \/ Finish(r) /\ UNCHANGED <<agents, work>>
      \/ lock = "free" /\ Outcome(r, Answered(Of(r))) /\ UNCHANGED plans
      \/ lock = "free" /\ Outcome(r, Answered(Ended(charged, "budget_exhausted"))) /\ UNCHANGED plans
      \/ /\ lock = "free" /\ ~Cancelled(Of(r)) /\ plans' = plans + 1
         /\ charged.budget.iterations <= Of(r).budget.maxIterations
         /\ \E out \in Applied(charged, Finalized(charged)) : Outcome(r, out)
  BY DEF Decision
<1>4. UNCHANGED <<controller, row, registry, hung, told, twins, granted, calls, troubles>>
  BY DEF Decision
<1> HIDE DEF charged
<1>5. CASE Finish(r) /\ UNCHANGED <<agents, work>>
  BY <1>1, <1>4, <1>5, RefusalWorks DEF Typed
<1>6. CASE lock = "free" /\ Outcome(r, Answered(Of(r))) /\ UNCHANGED plans
  <2>1. Fair(Of(r), Answered(Of(r)))
    BY <1>1, LeavesSame, AnsweredFair
  <2>2. QED
    BY <1>1, <1>4, <1>6, <2>1, OutcomeWorks
<1>7. CASE lock = "free" /\ Outcome(r, Answered(Ended(charged, "budget_exhausted"))) /\ UNCHANGED plans
  <2>1. Leaves(charged, Ended(charged, "budget_exhausted"))
    BY <1>2, EndedLeaves DEF States
  <2>2. Fair(Of(r), Answered(Ended(charged, "budget_exhausted")))
    BY <1>1, <1>2, <2>1, LeavesTrans, AnsweredFair
  <2>3. QED
    BY <1>1, <1>4, <1>7, <2>2, OutcomeWorks
<1>8. ASSUME lock = "free", ~Cancelled(Of(r)), plans' = plans + 1,
             charged.budget.iterations <= Of(r).budget.maxIterations,
             NEW out \in Applied(charged, Finalized(charged)), Outcome(r, out)
      PROVE  \E s \in Session : Works(r, s)
  <2>1. Fair(charged, out)
    BY <1>2, FinalizedLeaves, AppliedFair
  <2>2. Fair(Of(r), out)
    BY <1>1, <1>2, <2>1, FairAfter
  <2>3. Of(r).budget.iterations + 1 <= out.s.budget.iterations
    BY <1>2, <2>1 DEF Fair, Leaves
  <2>4. QED
    BY <1>1, <1>2, <1>4, <1>8, <2>2, <2>3, OutcomeWorks
<1>9. QED
  BY <1>3, <1>5, <1>6, <1>7, <1>8

\* asking for a tool is,
LEMMA RequestToolWorks ==
  ASSUME Typed, NEW r \in Requests, Placed(r), RequestTool(r)
  PROVE  \E s \in Session : Works(r, s)
<1>1. req[r].pc = "ready" /\ req[r].op = "tool" /\ lock = "free" /\ Of(r) \in Session
  BY AgentTypes DEF RequestTool, At, HasAgent
<1>2. PICK t \in Tools : \E out \in ToolStart(Of(r), t) : Outcome(r, out)
  BY DEF RequestTool
<1>3. PICK out \in ToolStart(Of(r), t) : Outcome(r, out)
  BY <1>2
<1>4. Fair(Of(r), out)
  BY <1>1, ToolStartFair
<1>5. QED
  BY <1>1, <1>3, <1>4, OutcomeWorks DEF RequestTool

\* and so is the end of a tool.
LEMMA ToolEndsWorks ==
  ASSUME Typed, NEW r \in Requests, Placed(r), ToolEnds(r)
  PROVE  \E s \in Session : Works(r, s)
<1>1. /\ req[r].pc = "running" /\ req[r].op \in {"step", "decision", "tool"} /\ lock = r
      /\ Of(r) \in Session
  BY AgentTypes DEF ToolEnds, Placed, HasAgent, Locked
<1>2. PICK out \in {Answered(Of(r)), Answered(Working(Of(r))),
                    Answered(Working(Ended(Of(r), "budget_exhausted"))), Refused(Of(r))} :
        Outcome(r, out)
  BY DEF ToolEnds
<1>3. /\ Leaves(Of(r), Of(r)) /\ Leaves(Of(r), Working(Of(r)))
      /\ Leaves(Of(r), Ended(Of(r), "budget_exhausted"))
  BY <1>1, LeavesSame, EndedLeaves DEF States
<1>4. Leaves(Of(r), Working(Ended(Of(r), "budget_exhausted")))
  <2>1. Ended(Of(r), "budget_exhausted") \in Session
    BY <1>3 DEF Leaves
  <2>2. Leaves(Ended(Of(r), "budget_exhausted"), Working(Ended(Of(r), "budget_exhausted")))
    BY <2>1, EndedLeaves DEF States
  <2>3. QED
    BY <1>1, <1>3, <2>1, <2>2, LeavesTrans
<1>5. Fair(Of(r), out)
  BY <1>1, <1>2, <1>3, <1>4, AnsweredFair
<1>6. QED
  BY <1>1, <1>2, <1>5, OutcomeWorks DEF ToolEnds

\* A replay charges the session but nothing of it runs.
LEMMA ReplayWorks ==
  ASSUME Typed, NEW r \in Requests, Placed(r), Replay(r)
  PROVE  \E s \in Session : Works(r, s)
<1> DEFINE charged == [Of(r) EXCEPT !.budget.iterations = @ + 1]
<1>1. req[r].pc = "ready" /\ req[r].op = "replay" /\ Of(r) \in Session
  BY AgentTypes DEF Replay, At, HasAgent
<1>2. /\ Leaves(Of(r), charged) /\ charged.budget.tools = Of(r).budget.tools /\ charged \in Session
  BY <1>1, ChargedLeaves DEF Leaves
<1>3. \/ Finish(r) /\ UNCHANGED <<agents, hung>>
      \/ hung' = TRUE /\ UNCHANGED <<agents, req, lock>>
      \/ /\ Finish(r) /\ UNCHANGED hung
         /\ \E t \in Tools : \E out \in ToolStart(charged, t) :
              agents' = [agents EXCEPT ![req[r].agent] =
                           IF out.go = "run" THEN Working(out.s) ELSE out.s]
  BY DEF Replay
<1>4. UNCHANGED <<controller, row, registry, told, work, twins, granted, calls, troubles>>
  BY DEF Replay
<1> HIDE DEF charged
<1>5. CASE (Finish(r) /\ UNCHANGED <<agents, hung>>) \/ (hung' = TRUE /\ UNCHANGED <<agents, req, lock>>)
  BY <1>1, <1>4, <1>5, RefusalWorks DEF Typed
<1>6. ASSUME Finish(r), UNCHANGED hung, NEW t \in Tools, NEW out \in ToolStart(charged, t),
             agents' = [agents EXCEPT ![req[r].agent] = IF out.go = "run" THEN Working(out.s) ELSE out.s]
      PROVE  \E s \in Session : Works(r, s)
  <2> DEFINE s == IF out.go = "run" THEN Working(out.s) ELSE out.s
  <2>1. Leaves(charged, out.s) /\ out.s \in Session
    BY <1>2, <1>6, ToolStartFair DEF Fair, Leaves
  <2>2. Leaves(Of(r), out.s)
    BY <1>1, <1>2, <2>1, LeavesTrans
  <2>3. Leaves(Of(r), s)
    BY <1>1, <2>1, <2>2, EndedLeaves, LeavesTrans DEF States
  <2> HIDE DEF s
  <2>4. /\ s \in Session /\ s.stopped = Of(r).stopped /\ s.paused = Of(r).paused
    BY <2>3 DEF Leaves
  <2>5. Within(Of(r).budget, plans, ran.all, granted) => Within(s.budget, plans, ran.all, granted)
    BY <1>1, <2>3, <2>4, SessionParts, CountTypes DEF Leaves, Caps, Within
  <2>6. agents' = [agents EXCEPT ![req[r].agent] = s]
    BY <1>6 DEF s
  <2>7. Works(r, s)
    BY <1>1, <1>4, <1>6, <2>4, <2>5, <2>6 DEF Works, Typed, work, troubles
  <2>8. QED
    BY <2>4, <2>7
<1>7. QED
  BY <1>3, <1>5, <1>6

\* Whatever serves a request is work on its agent, or reads or writes the row.
LEMMA ServeWorks ==
  ASSUME Typed, NEW r \in Requests, Placed(r), Serve(r)
  PROVE  \/ \E s \in Session : Works(r, s)
         \/ LoadRow(r) \/ Reconstruct(r) \/ Save(r) \/ Commit(r) \/ CommitFails(r)
  BY HaltWorks, ResumeWorks, GrantWorks, ReallocateWorks, StepWorks, PlanWorks, DecisionWorks,
     RequestToolWorks, ToolEndsWorks, ReplayWorks DEF Serve

-----------------------------------------------------------------------------
(* Types, and the lock *)

\* A request that is over.
LEMMA IdleTypes ==
  /\ Idle \in RequestState /\ Idle.pc = "idle" /\ Idle.agent = 0
  /\ Idle.base = NoRow /\ Idle.mine = NoRow /\ Idle.op = "none"
  BY DEF Idle, RequestState, Places

\* A request that nobody touches stays in its place.
LEMMA OthersPlaced ==
  ASSUME NEW q \in Requests, Placed(q), req'[q] = req[q], Len(agents) \in Nat, Len(agents') \in Nat,
         Len(agents') >= Len(agents), lock = q => lock' = q
  PROVE  Placed(q)'
  BY DEF Placed

\* A request that ends leaves no lock behind.
LEMMA FinishPlaced ==
  ASSUME Inv, NEW r \in Requests, Finish(r), agents' \in Seq(Session), Len(agents') >= Len(agents)
  PROVE  /\ req' \in [Requests -> RequestState] /\ lock' \in Requests \union {"free"}
         /\ \A q \in Requests : Placed(q)'
         /\ LockIsNotLost'
<1>1. req' = [req EXCEPT ![r] = Idle] /\ lock' = IF lock = r THEN "free" ELSE lock
  BY DEF Finish
<1>2. req' \in [Requests -> RequestState] /\ req'[r] = Idle /\ \A q \in Requests \ {r} : req'[q] = req[q]
  BY <1>1, IdleTypes DEF Inv, Typed
<1>3. lock' \in Requests \union {"free"}
  BY <1>1 DEF Inv, Typed
<1>4. Len(agents) \in Nat /\ Len(agents') \in Nat
  BY LenProperties DEF Inv, Typed
<1>5. Placed(r)'
  BY <1>2, <1>4, IdleTypes DEF Placed, HasAgent, Locked
<1>6. ASSUME NEW q \in Requests \ {r} PROVE Placed(q)'
  BY <1>1, <1>2, <1>4, OthersPlaced DEF Inv
<1>7. LockIsNotLost'
  BY <1>1, <1>2, <1>3 DEF Inv, LockIsNotLost, Typed
<1>8. QED
  BY <1>2, <1>3, <1>5, <1>6, <1>7

\* Work on an agent changes that agent only.
LEMMA WorksInv ==
  ASSUME Inv, NEW r \in Requests, NEW s \in Session, Works(r, s)
  PROVE  /\ Inv' /\ Len(agents') = Len(agents)
         /\ agents'[req[r].agent] = s
         /\ \A n \in 1 .. Len(agents) : n # req[r].agent => agents'[n] = agents[n]
<1>1. /\ req[r].agent \in 1 .. Len(agents) /\ Len(agents) \in Nat /\ req[r].pc \in HasAgent
  BY AgentTypes DEF Inv, Works, HasAgent, Locked
<1>2. /\ agents' \in Seq(Session) /\ Len(agents') = Len(agents) /\ agents'[req[r].agent] = s
      /\ \A n \in 1 .. Len(agents) : n # req[r].agent => agents'[n] = agents[n]
  <2>1. agents' = [agents EXCEPT ![req[r].agent] = s]
    BY DEF Works
  <2>2. agents \in Seq(Session)
    BY DEF Inv, Typed
  <2>3. QED
    BY <1>1, <2>1, <2>2, ExceptSeq, LenProperties
<1>3. ASSUME Finish(r) PROVE Inv'
  <2>1. Len(agents') >= Len(agents)
    BY <1>1, <1>2
  <2>2. /\ req' \in [Requests -> RequestState] /\ lock' \in Requests \union {"free"}
        /\ \A q \in Requests : Placed(q)'
        /\ LockIsNotLost'
    BY <1>2, <1>3, <2>1, FinishPlaced
  <2>3. Typed'
    BY <1>2, <2>2 DEF Inv, Typed, Works, troubles
  <2>4. QED
    BY <2>2, <2>3 DEF Inv
<1>4. ASSUME NEW pc \in Locked, GoesOn(r, pc) PROVE Inv'
  <2>1. /\ req' = [req EXCEPT ![r].pc = pc] /\ pc \in {"planning", "running", "saving"}
        /\ lock' = lock \/ (lock' = r /\ lock \in {r, "free"})
    BY <1>4 DEF GoesOn
  <2>2. /\ req'[r] = [req[r] EXCEPT !.pc = pc] /\ req'[r] \in RequestState
        /\ req'[r].pc = pc /\ req'[r].agent = req[r].agent /\ req'[r].op = req[r].op
        /\ \A q \in Requests \ {r} : req'[q] = req[q]
    <3>1. req \in [Requests -> RequestState] /\ req[r] \in RequestState
      BY DEF Inv, Typed
    <3>2. /\ req'[r] = [req[r] EXCEPT !.pc = pc]
          /\ \A q \in Requests \ {r} : req'[q] = req[q]
      BY <2>1, <3>1
    <3>3. pc \in Places
      BY <2>1 DEF Places
    <3>4. QED
      BY <3>1, <3>2, <3>3 DEF RequestState
  <2>3. req' \in [Requests -> RequestState]
    BY <2>1, <2>2 DEF Inv, Typed
  <2>4. Placed(r)'
    BY <1>1, <1>2, <1>4, <2>1, <2>2 DEF Placed, GoesOn
  <2>5. ASSUME NEW q \in Requests \ {r} PROVE Placed(q)'
    BY <1>1, <1>2, <2>1, <2>2, OthersPlaced DEF Inv
  <2>6. LockIsNotLost'
    BY <2>1, <2>2 DEF Inv, Typed, LockIsNotLost, Locked
  <2>7. Typed'
    BY <1>2, <2>1, <2>3 DEF Inv, Typed, Works, troubles
  <2>8. QED
    BY <2>4, <2>5, <2>6, <2>7 DEF Inv
<1>5. ASSUME UNCHANGED <<req, lock>> PROVE Inv'
  <2>1. Typed'
    BY <1>2, <1>5 DEF Inv, Typed, Works, troubles
  <2>2. \A q \in Requests : Placed(q)'
    BY <1>2, <1>5 DEF Inv, Placed
  <2>3. LockIsNotLost'
    BY <1>5 DEF Inv, LockIsNotLost
  <2>4. QED
    BY <2>1, <2>2, <2>3 DEF Inv
<1>6. Finish(r) \/ (\E pc \in Locked : GoesOn(r, pc)) \/ UNCHANGED <<req, lock>>
  BY DEF Works
<1>7. Inv'
  BY <1>3, <1>4, <1>5, <1>6
<1>8. QED
  BY <1>2, <1>7

\* Columns of a commit (AsyncSession.commit writes what changed).
LEMMA MergedTypes ==
  ASSUME NEW base \in Session, NEW mine \in Session, NEW now \in Session
  PROVE  /\ Merged(base, mine, now) \in Session
         /\ Merged(base, mine, now).stopped
              = (IF mine.stopped = base.stopped THEN now.stopped ELSE mine.stopped)
<1>1. DOMAIN now = {"state", "reason", "stopped", "paused", "budget"}
  BY DEF Session
<1>2. Merged(base, mine, now) =
        [state   |-> IF mine.state = base.state THEN now.state ELSE mine.state,
         reason  |-> IF mine.reason = base.reason THEN now.reason ELSE mine.reason,
         stopped |-> IF mine.stopped = base.stopped THEN now.stopped ELSE mine.stopped,
         paused  |-> IF mine.paused = base.paused THEN now.paused ELSE mine.paused,
         budget  |-> IF mine.budget = base.budget THEN now.budget ELSE mine.budget]
  BY <1>1 DEF Merged
<1>3. Merged(base, mine, now) \in Session
  BY <1>2 DEF Session
<1>4. QED
  BY <1>2, <1>3

\* Every step keeps the inductive invariant.
LEMMA InvStep == Inv /\ [Next]_vars => Inv'
<1> SUFFICES ASSUME Inv, [Next]_vars PROVE Inv'
  OBVIOUS
<1>0. Len(agents) \in Nat /\ DOMAIN agents = 1 .. Len(agents)
  BY LenProperties DEF Inv, Typed
<1>1. ASSUME NEW r \in Requests, Require(r) PROVE Inv'
  <2>1. PICK op \in Ops :
          req' = [req EXCEPT ![r] = [Idle EXCEPT !.op = op, !.agent = registry,
                                     !.pc = IF registry = 0 THEN "loading" ELSE "ready"]]
    BY <1>1 DEF Require
  <2> DEFINE new == [Idle EXCEPT !.op = op, !.agent = registry,
                                 !.pc = IF registry = 0 THEN "loading" ELSE "ready"]
  <2>2. /\ new.pc = (IF registry = 0 THEN "loading" ELSE "ready") /\ new.agent = registry
        /\ new \in RequestState
    <3>1. registry \in Nat /\ op \in AllOps
      BY <1>0 DEF Inv, Typed
    <3>2. QED
      BY <3>1, IdleTypes DEF Idle, RequestState, Places
  <2> HIDE DEF new
  <2>3. req' = [req EXCEPT ![r] = new]
    BY <2>1 DEF new
  <2>4. /\ req' \in [Requests -> RequestState] /\ req'[r] = new
        /\ \A q \in Requests \ {r} : req'[q] = req[q]
    BY <2>2, <2>3 DEF Inv, Typed
  <2>5. UNCHANGED <<controller, row, registry, agents, lock, hung, told, work, twins, granted, troubles>>
        /\ calls' \in Nat
    <3>1. calls \in Nat /\ calls' = calls + 1
      BY <1>1 DEF Require, Inv, Typed
    <3>2. calls' \in Nat
      BY <3>1
    <3>3. QED
      BY <1>1, <3>2, Zenon DEF Require
  <2>6. Typed'
    BY <2>4, <2>5 DEF Inv, Typed, work, troubles
  <2>7. Placed(r)'
    BY <1>0, <2>2, <2>4, <2>5 DEF Inv, Typed, Placed, HasAgent, Locked
  <2>8. ASSUME NEW q \in Requests \ {r} PROVE Placed(q)'
    BY <1>0, <2>4, <2>5, OthersPlaced DEF Inv
  <2>9. LockIsNotLost'
    BY <1>1, <2>4, <2>5 DEF Inv, Typed, LockIsNotLost, Require, Locked
  <2>10. QED
    BY <2>6, <2>7, <2>8, <2>9 DEF Inv
<1>2. ASSUME NEW r \in Requests, LoadRow(r) PROVE Inv'
  <2> DEFINE new == [req[r] EXCEPT !.pc = "restoring", !.base = row]
  <2>1. req' = [req EXCEPT ![r] = new]
    BY <1>2 DEF LoadRow, Inv, Typed
  <2>2. /\ new \in RequestState /\ new.pc = "restoring" /\ new.base = row /\ new.agent = req[r].agent
    <3>1. req[r] \in RequestState
      BY DEF Inv, Typed
    <3>2. [req[r] EXCEPT !.pc = "restoring"] \in RequestState
      BY <3>1 DEF RequestState, Places
    <3>3. row \in Session
      BY DEF Inv, Typed
    <3>4. QED
      BY <3>1, <3>2, <3>3 DEF RequestState
  <2> HIDE DEF new
  <2>3. /\ req' \in [Requests -> RequestState] /\ req'[r] = new
        /\ \A q \in Requests \ {r} : req'[q] = req[q]
    BY <2>1, <2>2 DEF Inv, Typed
  <2>4. UNCHANGED <<controller, row, registry, agents, lock, hung, told, work, twins, granted, calls, troubles>>
        /\ req[r].pc = "loading"
    BY <1>2 DEF LoadRow
  <2>5. Typed'
    BY <2>3, <2>4 DEF Inv, Typed, work, troubles
  <2>6. Placed(r)'
    BY <1>0, <2>2, <2>3, <2>4 DEF Inv, Typed, Placed, HasAgent, Locked
  <2>7. ASSUME NEW q \in Requests \ {r} PROVE Placed(q)'
    BY <1>0, <2>3, <2>4, OthersPlaced DEF Inv
  <2>8. LockIsNotLost'
    BY <2>3, <2>4 DEF Inv, Typed, LockIsNotLost, Locked
  <2>9. QED
    BY <2>5, <2>6, <2>7, <2>8 DEF Inv
<1>3. ASSUME NEW r \in Requests, Reconstruct(r) PROVE Inv'
  <2>1. req[r].pc = "restoring" /\ req[r].base \in Session
    BY <1>3 DEF Reconstruct, Inv, Placed
  <2>2. agents' \in Seq(Session) /\ Len(agents') = Len(agents) + 1
    BY <1>3, <2>1, AppendProperties DEF Reconstruct, Inv, Typed
  <2> DEFINE new == [req[r] EXCEPT !.pc = "ready", !.agent = Len(agents) + 1]
  <2>3. req' = [req EXCEPT ![r] = new]
    BY <1>3 DEF Reconstruct, Inv, Typed
  <2>4. new \in RequestState /\ new.pc = "ready" /\ new.agent = Len(agents) + 1
    <3>1. req[r] \in RequestState
      BY DEF Inv, Typed
    <3>2. Len(agents) + 1 \in Nat
      BY <1>0
    <3>3. QED
      BY <3>1, <3>2 DEF RequestState, Places
  <2> HIDE DEF new
  <2>5. /\ req' \in [Requests -> RequestState] /\ req'[r] = new
        /\ \A q \in Requests \ {r} : req'[q] = req[q]
    BY <2>3, <2>4 DEF Inv, Typed
  <2>6. UNCHANGED <<controller, row, lock, hung, told, work, granted, calls, troubles>>
        /\ registry' = Len(agents) + 1 /\ twins' \in BOOLEAN
    BY <1>3 DEF Reconstruct, Inv, Typed
  <2>7. Typed'
    BY <1>0, <2>2, <2>5, <2>6 DEF Inv, Typed, work, troubles
  <2>8. Placed(r)'
    BY <1>0, <2>2, <2>4, <2>5, <2>6 DEF Placed, HasAgent, Locked
  <2>9. ASSUME NEW q \in Requests \ {r} PROVE Placed(q)'
    BY <1>0, <2>2, <2>5, <2>6, OthersPlaced DEF Inv
  <2>10. LockIsNotLost'
    BY <2>1, <2>5, <2>6 DEF Inv, Typed, LockIsNotLost, Locked
  <2>11. QED
    BY <2>7, <2>8, <2>9, <2>10 DEF Inv
<1>4. ASSUME NEW r \in Requests, Save(r) PROVE Inv'
  <2>1. req[r].pc = "saving" /\ Of(r) \in Session
    BY <1>4, AgentTypes DEF Save, Inv, HasAgent, Locked
  <2> DEFINE new == [req[r] EXCEPT !.pc = "committing", !.mine = Of(r),
                                   !.base = IF @ = NoRow THEN row ELSE @]
  <2>2. req' = [req EXCEPT ![r] = new]
    BY <1>4 DEF Save, Inv, Typed
  <2>3. req[r] \in RequestState /\ row \in Session
    BY DEF Inv, Typed
  <2>4. /\ new.pc = "committing" /\ new.mine = Of(r) /\ new.agent = req[r].agent
        /\ new.base = (IF req[r].base = NoRow THEN row ELSE req[r].base)
        /\ new \in RequestState
    BY <2>1, <2>3 DEF RequestState, Places
  <2>5. new.base \in Session
    BY <2>3, <2>4 DEF RequestState
  <2> HIDE DEF new
  <2>6. /\ req' \in [Requests -> RequestState] /\ req'[r] = new
        /\ \A q \in Requests \ {r} : req'[q] = req[q]
    BY <2>2, <2>4 DEF Inv, Typed
  <2>7. UNCHANGED <<controller, row, registry, agents, lock, hung, told, work, twins, granted, calls, troubles>>
    BY <1>4 DEF Save
  <2>8. Typed'
    BY <2>6, <2>7 DEF Inv, Typed, work, troubles
  <2>9. Placed(r)'
    BY <1>0, <2>1, <2>4, <2>5, <2>6, <2>7 DEF Inv, Placed, HasAgent, Locked
  <2>10. ASSUME NEW q \in Requests \ {r} PROVE Placed(q)'
    BY <1>0, <2>6, <2>7, OthersPlaced DEF Inv
  <2>11. LockIsNotLost'
    BY <2>1, <2>4, <2>6, <2>7 DEF Inv, Typed, LockIsNotLost, Locked
  <2>12. QED
    BY <2>8, <2>9, <2>10, <2>11 DEF Inv
<1>5. ASSUME NEW r \in Requests, Commit(r) PROVE Inv'
  <2>1. /\ req[r].base \in Session /\ req[r].mine \in Session /\ row \in Session
        /\ agents' = agents /\ Finish(r)
    BY <1>5 DEF Commit, Inv, Placed, Typed
  <2>2. row' \in Session
    BY <1>5, <2>1, MergedTypes DEF Commit
  <2>3. told' \subseteq {"paused", "stopped"}
    BY <1>5 DEF Commit, Shown, Inv, Typed
  <2>4. /\ req' \in [Requests -> RequestState] /\ lock' \in Requests \union {"free"}
        /\ \A q \in Requests : Placed(q)'
        /\ LockIsNotLost'
    BY <1>0, <2>1, FinishPlaced DEF Inv, Typed
  <2>5. Typed'
    BY <1>5, <2>2, <2>3, <2>4 DEF Inv, Typed, Commit, work, troubles
  <2>6. QED
    BY <2>4, <2>5 DEF Inv
<1>6. ASSUME NEW r \in Requests, CommitFails(r) PROVE Inv'
  <2>1. agents' = agents /\ Finish(r) /\ faults' \in Nat
    BY <1>6 DEF CommitFails, Inv, Typed
  <2>2. /\ req' \in [Requests -> RequestState] /\ lock' \in Requests \union {"free"}
        /\ \A q \in Requests : Placed(q)'
        /\ LockIsNotLost'
    BY <1>0, <2>1, FinishPlaced DEF Inv, Typed
  <2>3. Typed'
    BY <1>6, <2>1, <2>2 DEF Inv, Typed, CommitFails, work
  <2>4. QED
    BY <2>2, <2>3 DEF Inv
<1>7. ASSUME Restart PROVE Inv'
  <2>1. /\ agents' = <<>> /\ registry' = 0 /\ lock' = "free" /\ hung' = FALSE
        /\ req' = [r \in Requests |-> Idle] /\ crashes' = crashes + 1
        /\ UNCHANGED <<controller, row, told, work, twins, granted, calls, faults>>
    BY <1>7 DEF Restart
  <2>2. agents' \in Seq(Session) /\ Len(agents') = 0
    BY <2>1, EmptySeq
  <2>3. req' \in [Requests -> RequestState] /\ \A q \in Requests : req'[q] = Idle
    BY <2>1, IdleTypes
  <2>4. Typed'
    <3>1. crashes' \in Nat /\ registry' \in 0 .. Len(agents')
      BY <2>1, <2>2 DEF Inv, Typed
    <3>2. lock' \in Requests \union {"free"} /\ hung' \in BOOLEAN
      <4>1. hung' = FALSE /\ lock' = "free"
        BY <2>1
      <4>2. QED
        BY <4>1
    <3>3. QED
      BY <2>1, <2>2, <2>3, <3>1, <3>2 DEF Inv, Typed, work
  <2>5. ASSUME NEW q \in Requests PROVE Placed(q)'
    BY <2>2, <2>3, IdleTypes DEF Placed, HasAgent, Locked
  <2>6. LockIsNotLost'
    BY <2>1 DEF LockIsNotLost
  <2>7. QED
    BY <2>4, <2>5, <2>6 DEF Inv
<1>8. ASSUME UNCHANGED vars PROVE Inv'
  BY <1>8 DEF vars, Inv, Typed, Placed, LockIsNotLost, work, troubles
<1>9. ASSUME NEW r \in Requests, Serve(r) PROVE Inv'
  <2>1. ASSUME NEW s \in Session, Works(r, s) PROVE Inv'
    BY <2>1, WorksInv
  <2>2. Typed /\ Placed(r)
    BY DEF Inv
  <2>3. QED
    BY <1>2, <1>3, <1>4, <1>5, <1>6, <1>9, <2>1, <2>2, ServeWorks
<1>10. QED
  BY <1>1, <1>7, <1>8, <1>9 DEF Next

\* The inductive invariant, for every number of requests and tools.
LEMMA Invariant == Spec => []Inv
<1>1. Init => Inv
  BY InvInit
<1>2. Inv /\ [Next]_vars => Inv'
  BY InvStep
<1>3. QED
  BY <1>1, <1>2, PTL DEF Spec

\* Every variable keeps its type; a request that works on an agent, or saves
\* it, has one.
THEOREM TypeCorrect == Spec => []TypeOK
<1>1. Inv => TypeOK
  BY InvType
<1>2. QED
  BY <1>1, Invariant, PTL

\* No error path, refusal or replay leaves the session's lock with a request
\* that is not at work ("async with _LOCKS[...]", security_agent.py).
THEOREM LockNotLost == Spec => []LockIsNotLost
<1>1. Inv => LockIsNotLost
  BY DEF Inv
<1>2. QED
  BY <1>1, Invariant, PTL

-----------------------------------------------------------------------------
(* One agent at a time *)

\* Until two requests restore one each there is at most one agent, it is the
\* registered one, and while there is none nobody writes the row.
Alone ==
  /\ ~twins => Len(agents) <= 1
  /\ registry = 0 <=> Len(agents) = 0
  /\ Len(agents) = 0 => \A r \in Requests : req[r].pc = "restoring" => req[r].base = row

\* The steps that leave agents, row and work alone.
Quiet == UNCHANGED <<row, registry, agents, told, work, twins, granted, crashes>>

\* Every step is the work of one request on its agent, a save, a commit, a
\* restoration, a restart, or changes nothing that the properties speak of.
LEMMA StepCases ==
  ASSUME Inv, [Next]_vars
  PROVE  \/ \E r \in Requests, s \in Session : Works(r, s)
         \/ \E r \in Requests : Reconstruct(r) \/ Commit(r)
         \/ Restart
         \/ /\ Quiet
            /\ \/ \E r \in Requests : Require(r) \/ LoadRow(r) \/ Save(r) \/ CommitFails(r)
               \/ UNCHANGED req
<1>1. ASSUME NEW r \in Requests, Serve(r)
      PROVE  \/ \E s \in Session : Works(r, s)
             \/ LoadRow(r) \/ Reconstruct(r) \/ Save(r) \/ Commit(r) \/ CommitFails(r)
  BY <1>1, ServeWorks DEF Inv
<1>2. ASSUME NEW r \in Requests, Require(r) \/ LoadRow(r) \/ Save(r) \/ CommitFails(r)
      PROVE  Quiet
  BY <1>2 DEF Quiet, Require, LoadRow, Save, CommitFails, work, troubles
<1>3. ASSUME UNCHANGED vars PROVE Quiet /\ UNCHANGED req
  BY <1>3 DEF Quiet, vars, work
<1>4. \/ \E r \in Requests : Require(r) \/ Serve(r)
      \/ Restart \/ UNCHANGED vars
  BY DEF Next
<1>5. ASSUME NEW r \in Requests, Require(r) \/ Serve(r)
      PROVE  \/ \E s \in Session : Works(r, s)
             \/ Reconstruct(r) \/ Commit(r)
             \/ Quiet /\ (Require(r) \/ LoadRow(r) \/ Save(r) \/ CommitFails(r))
  BY <1>1, <1>2, <1>5
<1>6. QED
  BY <1>3, <1>4, <1>5

\* Of at most one agent.
LEMMA AtMostOne ==
  ASSUME NEW n \in Nat, NEW m \in 0 .. n, m = 0 <=> n = 0
  PROVE  /\ n <= 1 => \A a \in 1 .. n : n = 1 /\ m = 1 /\ a = 1
         /\ n <= 1 /\ m # 0 => n = 1 /\ m = 1
  OBVIOUS

\* A request that works, or saves, has the registered agent.
LEMMA AloneAgent ==
  ASSUME Inv, Alone, ~twins, NEW r \in Requests, req[r].pc \in HasAgent
  PROVE  /\ req[r].agent = 1 /\ registry = 1 /\ Len(agents) = 1
         /\ Of(r) = agents[1] /\ agents[1] \in Session
<1>1. req[r].agent \in 1 .. Len(agents) /\ Len(agents) \in Nat /\ Of(r) \in Session
  BY AgentTypes DEF Inv
<1>2. registry \in 0 .. Len(agents)
  BY DEF Inv, Typed
<1>3. Len(agents) <= 1 /\ (registry = 0 <=> Len(agents) = 0)
  BY DEF Alone
<1>4. Len(agents) = 1 /\ req[r].agent = 1 /\ registry = 1
  BY <1>1, <1>2, <1>3, AtMostOne
<1>5. QED
  BY <1>1, <1>4 DEF Of

\* The first agent is restored from the row as it is.
LEMMA ReconstructAlone ==
  ASSUME Inv, Alone, NEW r \in Requests, Reconstruct(r), ~twins'
  PROVE  /\ ~twins /\ Len(agents) = 0 /\ Len(agents') = 1 /\ registry' = 1
         /\ agents'[1] = row /\ row' = row /\ req[r].base = row
<1>1. ~twins /\ agents = <<>>
  BY DEF Reconstruct, Inv, Typed
<1>2. Len(agents) = 0
  BY <1>1, EmptySeq
<1>3. req[r].base = row /\ row \in Session
  BY <1>2 DEF Alone, Reconstruct, Inv, Typed
<1>4. agents' = Append(agents, row) /\ agents \in Seq(Session)
  BY <1>3 DEF Reconstruct, Inv, Typed
<1>5. Len(agents') = 1 /\ agents'[1] = row
  BY <1>2, <1>3, <1>4, AppendProperties
<1>6. QED
  BY <1>1, <1>2, <1>3, <1>5 DEF Reconstruct

\* No agent is registered when the process starts.
LEMMA AloneInit == Init => Alone
<1> SUFFICES ASSUME Init PROVE Alone
  OBVIOUS
<1>1. \/ Len(agents) = 1 /\ registry = 1
      \/ Len(agents) = 0 /\ registry = 0
  <2>1. Len(<<NewSession>>) = 1 /\ Len(<<>>) = 0
    BY EmptySeq
  <2>2. QED
    BY <2>1 DEF Init
<1>2. \A r \in Requests : req[r].pc # "restoring"
  BY IdleTypes DEF Init
<1>3. Len(agents) <= 1 /\ (registry = 0 <=> Len(agents) = 0)
  <2>1. CASE Len(agents) = 1 /\ registry = 1
    BY <2>1
  <2>2. CASE Len(agents) = 0 /\ registry = 0
    BY <2>2
  <2>3. QED
    BY <1>1, <2>1, <2>2
<1>4. QED
  BY <1>2, <1>3 DEF Alone

\* As long as no two requests restore an agent at once, there is one.
LEMMA AloneStep == Inv /\ Alone /\ [Next]_vars => Alone'
<1> SUFFICES ASSUME Inv, Alone, [Next]_vars PROVE Alone'
  OBVIOUS
<1>0. Len(agents) \in Nat
  BY LenProperties DEF Inv, Typed
<1>1. ASSUME NEW r \in Requests, NEW s \in Session, Works(r, s) PROVE Alone'
  <2>1. Len(agents') = Len(agents) /\ Len(agents) # 0
    BY <1>1, WorksInv, AgentTypes DEF Inv, Works, HasAgent, Locked
  <2>2. QED
    BY <1>1, <2>1 DEF Alone, Works
<1>2. ASSUME NEW r \in Requests, Reconstruct(r) PROVE Alone'
  <2>1. Len(agents') = Len(agents) + 1 /\ registry' = Len(agents) + 1
    BY <1>2, AppendProperties DEF Reconstruct, Inv, Typed, Placed
  <2>2. ~twins' => Len(agents') = 1
    BY <1>2, ReconstructAlone
  <2>3. QED
    BY <1>0, <2>1, <2>2 DEF Alone
<1>3. ASSUME NEW r \in Requests, Commit(r) PROVE Alone'
  <2>1. Len(agents) # 0
    BY <1>0, <1>3, AgentTypes DEF Inv, Commit, HasAgent, Locked
  <2>2. QED
    BY <1>3, <2>1 DEF Alone, Commit
<1>4. ASSUME Restart PROVE Alone'
  <2>1. agents' = <<>> /\ registry' = 0 /\ req' = [r \in Requests |-> Idle]
    BY <1>4 DEF Restart
  <2>2. Len(agents') = 0
    BY <2>1, EmptySeq
  <2>3. \A r \in Requests : req'[r].pc = "idle"
    BY <2>1, IdleTypes
  <2>4. QED
    BY <2>1, <2>2, <2>3 DEF Alone
<1>5. ASSUME Quiet, NEW r \in Requests, Require(r) \/ LoadRow(r) \/ Save(r) \/ CommitFails(r)
      PROVE  Alone'
  <2>1. \A q \in Requests \ {r} : req'[q] = req[q]
    BY <1>5 DEF Require, LoadRow, Save, CommitFails, Finish, Inv, Typed
  <2>2. req'[r].pc = "restoring" => req'[r].base = row
    <3>1. CASE Require(r)
      BY <3>1 DEF Require, Idle, Inv, Typed
    <3>2. CASE LoadRow(r)
      BY <3>2 DEF LoadRow, Inv, Typed, RequestState
    <3>3. CASE Save(r)
      BY <3>3 DEF Save, Inv, Typed, RequestState
    <3>4. CASE CommitFails(r)
      BY <3>4, IdleTypes DEF CommitFails, Finish, Inv, Typed
    <3>5. QED
      BY <1>5, <3>1, <3>2, <3>3, <3>4
  <2>3. UNCHANGED <<row, registry, agents, twins>>
    BY <1>5 DEF Quiet
  <2>4. QED
    BY <2>1, <2>2, <2>3 DEF Alone
<1>6. ASSUME Quiet, UNCHANGED req PROVE Alone'
  BY <1>6 DEF Quiet, Alone
<1>7. QED
  BY <1>1, <1>2, <1>3, <1>4, <1>5, <1>6, StepCases

\* One agent, in every behaviour without twins.
LEMMA AloneInvariant == Spec => []Alone
<1>1. Init => Alone
  BY AloneInit
<1>2. Inv /\ Alone /\ [Next]_vars => Alone'
  BY AloneStep
<1>3. QED
  BY <1>1, <1>2, Invariant, PTL DEF Spec

-----------------------------------------------------------------------------
(* The work is the work authorised *)

BudgetKept ==
  crashes = 0 /\ ~twins =>
    IF Len(agents) = 0
    THEN plans = 0 /\ ran.all = 0 /\ granted = 0 /\ row.budget = NewBudget
    ELSE Within(agents[1].budget, plans, ran.all, granted)

\* Nothing of a new budget is spent.
LEMMA NewWithin == Within(NewBudget, 0, 0, 0)
  BY DEF Within, NewBudget

\* The budget covers the work at the start,
LEMMA BudgetInit == Init => BudgetKept
<1> SUFFICES ASSUME Init PROVE BudgetKept
  OBVIOUS
<1>1. plans = 0 /\ ran.all = 0 /\ granted = 0
  BY DEF Init
<1>2. row.budget = NewBudget
  BY NewSessionTypes DEF Init, Ended, NewSession
<1>3. CASE agents = <<NewSession>>
  <2>1. agents[1].budget = NewBudget /\ Len(agents) = 1
    BY <1>3, NewSessionTypes
  <2>2. QED
    BY <1>1, <2>1, NewWithin DEF BudgetKept
<1>4. CASE agents = <<>>
  BY <1>1, <1>2, <1>4, EmptySeq DEF BudgetKept
<1>5. QED
  BY <1>3, <1>4 DEF Init

\* and at every step.
LEMMA BudgetStep == Inv /\ Alone /\ BudgetKept /\ [Next]_vars => BudgetKept'
<1> SUFFICES ASSUME Inv, Alone, BudgetKept, [Next]_vars, crashes' = 0, ~twins'
             PROVE  IF Len(agents') = 0
                    THEN plans' = 0 /\ ran'.all = 0 /\ granted' = 0 /\ row'.budget = NewBudget
                    ELSE Within(agents'[1].budget, plans', ran'.all, granted')
  BY DEF BudgetKept
<1>1. ASSUME NEW r \in Requests, NEW s \in Session, Works(r, s)
      PROVE  Len(agents') # 0 /\ Within(agents'[1].budget, plans', ran'.all, granted')
  <2>1. crashes = 0 /\ ~twins
    BY <1>1 DEF Works, troubles
  <2>2. req[r].agent = 1 /\ Len(agents) = 1 /\ Of(r) = agents[1]
    BY <1>1, <2>1, AloneAgent DEF Works, HasAgent, Locked
  <2>3. Len(agents') = 1 /\ agents'[1] = s
    BY <1>1, <2>2, WorksInv
  <2>4. Within(Of(r).budget, plans, ran.all, granted)
    BY <2>1, <2>2 DEF BudgetKept
  <2>5. Within(s.budget, plans', ran'.all, granted')
    BY <1>1, <2>4 DEF Works
  <2>6. QED
    BY <2>3, <2>5
<1>2. ASSUME NEW r \in Requests, Reconstruct(r)
      PROVE  Len(agents') # 0 /\ Within(agents'[1].budget, plans', ran'.all, granted')
  <2>1. ~twins /\ Len(agents) = 0 /\ Len(agents') = 1 /\ agents'[1] = row
    BY <1>2, ReconstructAlone
  <2>2. UNCHANGED <<crashes, plans, ran, granted>>
    BY <1>2 DEF Reconstruct, work, troubles
  <2>3. plans' = 0 /\ ran'.all = 0 /\ granted' = 0 /\ row.budget = NewBudget
    BY <2>1, <2>2 DEF BudgetKept
  <2>4. agents'[1].budget = NewBudget
    BY <2>1, <2>3
  <2>5. Within(agents'[1].budget, plans', ran'.all, granted')
    BY <2>3, <2>4, NewWithin
  <2>6. QED
    BY <2>1, <2>5
<1>3. ASSUME NEW r \in Requests, Commit(r)
      PROVE  Len(agents') # 0 /\ Within(agents'[1].budget, plans', ran'.all, granted')
  <2>1. UNCHANGED <<crashes, plans, ran, granted, agents, twins>> /\ req[r].pc = "committing"
    BY <1>3 DEF Commit, work, troubles
  <2>2. Len(agents) = 1
    BY <2>1, AloneAgent DEF HasAgent, Locked
  <2>3. QED
    BY <2>1, <2>2 DEF BudgetKept
<1>4. ~Restart
  BY DEF Restart, Inv, Typed
<1>5. CASE Quiet
  BY <1>5 DEF Quiet, work, BudgetKept
<1>6. QED
  BY <1>1, <1>2, <1>3, <1>4, <1>5, StepCases

\* However requests and operator changes interleave, the planner is asked and
\* tools run no more often than the caps say, and the caps sum up to what was
\* given and granted (budget.py; reallocate, change_limits).
THEOREM Authorised == Spec => []WorkIsAuthorised
<1>1. Init => BudgetKept
  BY BudgetInit
<1>2. Inv /\ Alone /\ BudgetKept /\ [Next]_vars => BudgetKept'
  BY BudgetStep
<1>3. Inv /\ Alone /\ BudgetKept => WorkIsAuthorised
  <2> SUFFICES ASSUME Inv, Alone, BudgetKept, crashes = 0, ~twins, registry # 0
               PROVE  WorkIsAuthorised
    BY DEF WorkIsAuthorised
  <2>1. Len(agents) = 1 /\ registry = 1
    <3>1. Len(agents) \in Nat /\ registry \in 0 .. Len(agents)
      BY LenProperties DEF Inv, Typed
    <3>2. Len(agents) <= 1 /\ Len(agents) # 0
      BY DEF Alone
    <3>3. registry = 0 <=> Len(agents) = 0
      BY DEF Alone
    <3>4. QED
      BY <3>1, <3>2, <3>3, AtMostOne
  <2>2. Within(agents[1].budget, plans, ran.all, granted)
    BY <2>1 DEF BudgetKept
  <2>3. QED
    BY <2>1, <2>2 DEF WorkIsAuthorised, Within
<1>4. QED
  BY <1>1, <1>2, <1>3, Invariant, AloneInvariant, PTL DEF Spec

-----------------------------------------------------------------------------
(* A stop is final *)

\* What a request may still write takes no stop back: what it read was the row,
\* and what it copied was the agent.
StopSeen(r) ==
  /\ req[r].base.stopped => row.stopped
  /\ req[r].pc \in {"saving", "committing"} /\ req[r].op = "stop" => agents[1].stopped
  /\ req[r].pc = "committing" =>
       /\ req[r].base.stopped => req[r].mine.stopped
       /\ req[r].mine.stopped => agents[1].stopped
       /\ req[r].op = "stop" => req[r].mine.stopped

StopKept ==
  ~twins =>
    /\ Len(agents) # 0 /\ row.stopped => agents[1].stopped
    /\ "stopped" \in told => row.stopped
    /\ \A r \in Requests : StopSeen(r)

\* A request that is over saves nothing.
LEMMA IdleSees ==
  ASSUME NEW r \in Requests, req'[r] = Idle
  PROVE  StopSeen(r)'
  BY IdleTypes, NewSessionTypes DEF StopSeen

\* A request that nobody touches.
LEMMA OthersSee ==
  ASSUME NEW q \in Requests, StopSeen(q), req'[q] = req[q], row.stopped => row'.stopped,
         req[q].pc \in HasAgent => (agents[1].stopped => agents'[1].stopped)
  PROVE  StopSeen(q)'
  BY DEF StopSeen, HasAgent, Locked

\* No stop was told at the start.
LEMMA StopInit == Init => StopKept
<1> SUFFICES ASSUME Init PROVE StopKept
  OBVIOUS
<1>1. ~row.stopped
  <2>1. ~NewSession.stopped /\ NewSession \in Session
    BY NewSessionTypes
  <2>2. ~Ended([NewSession EXCEPT !.paused = TRUE], "user_paused").stopped
    BY <2>1 DEF Ended, Session
  <2>3. row = NewSession \/ row = Ended([NewSession EXCEPT !.paused = TRUE], "user_paused")
    BY DEF Init
  <2>4. QED
    BY <2>1, <2>2, <2>3
<1>2. "stopped" \notin told
  BY DEF Init
<1>3. ASSUME NEW r \in Requests PROVE StopSeen(r)
  <2>1. req[r] = Idle
    BY DEF Init
  <2>2. QED
    BY <2>1, IdleTypes, NewSessionTypes DEF StopSeen
<1>4. QED
  BY <1>1, <1>2, <1>3 DEF StopKept

\* Work on an agent keeps a stop.
LEMMA StopWorks ==
  ASSUME Inv, Alone, StopKept, ~twins', NEW r \in Requests, NEW s \in Session, Works(r, s)
  PROVE  StopKept'
<1>1. ~twins /\ row' = row /\ req[r].pc \in {"ready", "planning", "running"}
  BY DEF Works
<1>2. req[r].agent = 1 /\ Len(agents) = 1 /\ Of(r) = agents[1]
  BY <1>1, AloneAgent DEF HasAgent, Locked
<1>3. Len(agents') = 1 /\ agents'[1] = s
  BY <1>2, WorksInv
<1>4. agents[1].stopped \/ req[r].op = "stop" => s.stopped
  BY <1>2 DEF Works
<1>5. ASSUME NEW q \in Requests \ {r} PROVE StopSeen(q)'
  <2>1. req'[q] = req[q]
    BY DEF Works, Finish, GoesOn, Inv, Typed
  <2>2. QED
    BY <1>1, <1>3, <1>4, <2>1, OthersSee DEF StopKept
<1>6. StopSeen(r)'
  <2>1. CASE Finish(r)
    <3>1. req'[r] = Idle
      BY <2>1 DEF Finish, Inv, Typed
    <3>2. QED
      BY <3>1, IdleSees
  <2>2. ASSUME NEW pc \in Locked, GoesOn(r, pc) PROVE StopSeen(r)'
    <3>1. /\ req'[r].pc = pc /\ pc # "committing"
          /\ req'[r].op = req[r].op /\ req'[r].base = req[r].base
      BY <2>2 DEF GoesOn, Inv, Typed, RequestState
    <3>2. QED
      BY <1>1, <1>3, <1>4, <3>1 DEF StopKept, StopSeen
  <2>3. CASE UNCHANGED <<req, lock>>
    BY <1>1, <1>3, <2>3 DEF StopKept, StopSeen
  <2>4. QED
    BY <2>1, <2>2, <2>3 DEF Works
<1>7. "stopped" \in told' => row'.stopped
  BY <1>1 DEF Works, StopKept
<1>8. row'.stopped => agents'[1].stopped
  BY <1>1, <1>2, <1>3, <1>4 DEF StopKept
<1>9. QED
  BY <1>5, <1>6, <1>7, <1>8 DEF StopKept

\* The row that is committed has the stop that the agent has.
LEMMA StopCommit ==
  ASSUME Inv, Alone, StopKept, ~twins', NEW r \in Requests, Commit(r)
  PROVE  StopKept'
<1>1. /\ req[r].pc = "committing" /\ agents' = agents /\ ~twins /\ Finish(r)
      /\ row' = Merged(req[r].base, req[r].mine, row)
      /\ told' = told \union Shown(req[r].op, Of(r))
  BY DEF Commit
<1>2. Len(agents) = 1
  BY <1>1, AloneAgent DEF HasAgent, Locked
<1>3. req[r].base \in Session /\ req[r].mine \in Session /\ row \in Session
  BY <1>1 DEF Inv, Placed, Typed
<1> DEFINE base == req[r].base
           mine == req[r].mine
<1>4. /\ row'.stopped = (IF mine.stopped = base.stopped THEN row.stopped ELSE mine.stopped)
      /\ base.stopped \in BOOLEAN /\ mine.stopped \in BOOLEAN /\ row.stopped \in BOOLEAN
  BY <1>1, <1>3, MergedTypes, SessionParts
<1>5. /\ base.stopped => row.stopped
      /\ base.stopped => mine.stopped
      /\ mine.stopped => agents[1].stopped
      /\ req[r].op = "stop" => mine.stopped
      /\ row.stopped => agents[1].stopped
  BY <1>1, <1>2 DEF StopKept, StopSeen
<1> HIDE DEF base, mine
<1>6. /\ row.stopped => row'.stopped
      /\ mine.stopped => row'.stopped
      /\ row'.stopped => row.stopped \/ mine.stopped
  BY <1>4, <1>5
<1>7. row'.stopped => agents'[1].stopped
  BY <1>1, <1>5, <1>6
<1>8. "stopped" \in told' => row'.stopped
  BY <1>1, <1>5, <1>6 DEF Shown, StopKept
<1>9. StopSeen(r)'
  <2>1. req'[r] = Idle
    BY <1>1 DEF Finish, Inv, Typed
  <2>2. QED
    BY <2>1, IdleSees
<1>10. ASSUME NEW q \in Requests \ {r} PROVE StopSeen(q)'
  <2>1. req'[q] = req[q] /\ agents' = agents /\ StopSeen(q)
    BY <1>1 DEF Finish, Inv, Typed, StopKept
  <2>2. QED
    BY <1>6, <2>1, OthersSee
<1>11. QED
  BY <1>7, <1>8, <1>9, <1>10 DEF StopKept

\* Every step keeps a stop that was told.
LEMMA StopStep == Inv /\ Alone /\ StopKept /\ [Next]_vars => StopKept'
<1> SUFFICES ASSUME Inv, Alone, StopKept, [Next]_vars, ~twins'
             PROVE  StopKept'
  BY DEF StopKept
<1>1. ASSUME NEW r \in Requests, Reconstruct(r) PROVE StopKept'
  <2>1. ~twins /\ Len(agents) = 0 /\ agents'[1] = row /\ row' = row
    BY <1>1, ReconstructAlone
  <2>2. told' = told
    BY <1>1 DEF Reconstruct
  <2>3. /\ req'[r].pc = "ready" /\ req'[r].base = req[r].base
        /\ \A q \in Requests \ {r} : req'[q] = req[q]
    BY <1>1 DEF Reconstruct, Inv, Typed, RequestState
  <2>4. \A q \in Requests : req[q].pc \notin HasAgent
    BY <2>1, AgentTypes DEF Inv
  <2>5. StopSeen(r)'
    BY <2>1, <2>3 DEF StopKept, StopSeen
  <2>6. ASSUME NEW q \in Requests \ {r} PROVE StopSeen(q)'
    BY <2>1, <2>3, <2>4, OthersSee DEF StopKept
  <2>7. QED
    BY <2>1, <2>2, <2>5, <2>6 DEF StopKept
<1>2. ASSUME Restart PROVE StopKept'
  <2>1. /\ Len(agents') = 0 /\ row' = row /\ told' = told /\ twins' = twins
        /\ \A q \in Requests : req'[q] = Idle
    BY <1>2, EmptySeq DEF Restart
  <2>2. \A q \in Requests : StopSeen(q)'
    BY <2>1, IdleSees
  <2>3. QED
    BY <2>1, <2>2 DEF StopKept
<1>3. ASSUME Quiet, NEW r \in Requests, Require(r) \/ LoadRow(r) \/ Save(r) \/ CommitFails(r)
      PROVE  StopKept'
  <2>1. UNCHANGED <<row, agents, twins, told>>
    BY <1>3 DEF Quiet
  <2>2. ASSUME NEW q \in Requests \ {r} PROVE StopSeen(q)'
    <3>1. req'[q] = req[q]
      BY <1>3 DEF Require, LoadRow, Save, CommitFails, Finish, Inv, Typed
    <3>2. QED
      BY <2>1, <3>1, OthersSee DEF StopKept
  <2>3. StopSeen(r)'
    <3>1. CASE Require(r)
      <4>1. req'[r].base = NoRow /\ req'[r].pc \notin {"saving", "committing"}
        BY <3>1, IdleTypes DEF Require, Idle, Inv, Typed
      <4>2. QED
        BY <4>1, NewSessionTypes DEF StopSeen
    <3>2. CASE LoadRow(r)
      <4>1. req'[r].base = row /\ req'[r].pc = "restoring"
        BY <3>2 DEF LoadRow, Inv, Typed, RequestState
      <4>2. QED
        BY <2>1, <4>1 DEF StopSeen
    <3>3. CASE Save(r)
      <4>1. /\ req'[r].base = (IF req[r].base = NoRow THEN row ELSE req[r].base)
            /\ req'[r].mine = Of(r) /\ req'[r].op = req[r].op /\ req[r].pc = "saving"
        BY <3>3 DEF Save, Inv, Typed, RequestState
      <4>2. Of(r) = agents[1] /\ Len(agents) = 1
        BY <2>1, <4>1, AloneAgent DEF HasAgent, Locked
      <4>3. req'[r].base.stopped => row.stopped
        BY <2>1, <4>1 DEF StopKept, StopSeen
      <4>4. row.stopped => agents[1].stopped
        BY <2>1, <4>2 DEF StopKept
      <4>5. req[r].op = "stop" => agents[1].stopped
        BY <2>1, <4>1 DEF StopKept, StopSeen
      <4>6. QED
        BY <2>1, <4>1, <4>2, <4>3, <4>4, <4>5 DEF StopSeen
    <3>4. CASE CommitFails(r)
      <4>1. req'[r] = Idle
        BY <3>4 DEF CommitFails, Finish, Inv, Typed
      <4>2. QED
        BY <4>1, IdleSees
    <3>5. QED
      BY <1>3, <3>1, <3>2, <3>3, <3>4
  <2>4. QED
    BY <2>1, <2>2, <2>3 DEF StopKept
<1>4. ASSUME Quiet, UNCHANGED req PROVE StopKept'
  BY <1>4 DEF Quiet, StopKept, StopSeen
<1>5. QED
  BY <1>1, <1>2, <1>3, <1>4, StopWorks, StopCommit, StepCases

\* Nothing starts in a step that is not the work of a request.
LEMMA OnlyWorkStarts ==
  ASSUME Inv, [Next]_vars
  PROVE  \/ \E r \in Requests, s \in Session : Works(r, s)
         \/ UNCHANGED work
  BY StepCases DEF Reconstruct, Commit, Restart, Quiet

\* Once the operator was told that the session is stopped, no planner call and
\* no cancellable tool starts: not in the step in flight, not by a resume, and
\* not from the row after a restart (agent.stop, save_session, reconstruct).
THEOREM StopFinal == Spec => StopIsFinal
<1>1. Init => StopKept
  BY StopInit
<1>2. Inv /\ Alone /\ StopKept /\ [Next]_vars => StopKept'
  BY StopStep
<1>3. ASSUME Inv, Alone, StopKept, [Next]_vars, ~twins, "stopped" \in told
      PROVE  plans' = plans /\ ran'.cancellable = ran.cancellable
  <2>1. ASSUME NEW r \in Requests, NEW s \in Session, Works(r, s)
        PROVE  plans' = plans /\ ran'.cancellable = ran.cancellable
    <3>1. Of(r) = agents[1] /\ Len(agents) = 1
      BY <1>3, <2>1, AloneAgent DEF Works, HasAgent, Locked
    <3>2. Cancelled(Of(r))
      BY <1>3, <3>1 DEF StopKept, Cancelled
    <3>3. QED
      BY <2>1, <3>2 DEF Works
  <2>2. CASE UNCHANGED work
    BY <2>2 DEF work
  <2>3. QED
    BY <1>3, <2>1, <2>2, OnlyWorkStarts
<1>4. QED
  BY <1>1, <1>2, <1>3, Invariant, AloneInvariant, PTL DEF Spec, StopIsFinal

-----------------------------------------------------------------------------
(* A pause holds *)

PauseKept ==
  ~twins /\ crashes = 0 /\ "paused" \in told =>
    IF Len(agents) = 0 THEN row.paused ELSE agents[1].paused

\* A pause that was told before the start is in the row.
LEMMA PauseInit == Init => PauseKept
<1> SUFFICES ASSUME Init, "paused" \in told
             PROVE  IF Len(agents) = 0 THEN row.paused ELSE agents[1].paused
  BY DEF PauseKept
<1>1. row = Ended([NewSession EXCEPT !.paused = TRUE], "user_paused") /\ agents = <<>>
  BY DEF Init
<1>2. row.paused
  BY <1>1 DEF Ended, NewSession
<1>3. QED
  BY <1>1, <1>2, EmptySeq

\* Every step keeps a pause that was told.
LEMMA PauseStep == Inv /\ Alone /\ PauseKept /\ [Next]_vars => PauseKept'
<1> SUFFICES ASSUME Inv, Alone, PauseKept, [Next]_vars, ~twins', crashes' = 0, "paused" \in told'
             PROVE  IF Len(agents') = 0 THEN row'.paused ELSE agents'[1].paused
  BY DEF PauseKept
<1>1. ASSUME NEW r \in Requests, NEW s \in Session, Works(r, s)
      PROVE  Len(agents') # 0 /\ agents'[1].paused
  <2>1. ~twins /\ crashes = 0 /\ "paused" \in told
    BY <1>1 DEF Works, troubles
  <2>2. Len(agents) = 1 /\ Of(r) = agents[1] /\ req[r].agent = 1
    BY <1>1, <2>1, AloneAgent DEF Works, HasAgent, Locked
  <2>3. Len(agents') = 1 /\ agents'[1] = s
    BY <1>1, <2>2, WorksInv
  <2>4. Of(r).paused
    BY <2>1, <2>2 DEF PauseKept
  <2>5. s.paused
    BY <1>1, <2>4 DEF Works
  <2>6. QED
    BY <2>3, <2>5
<1>2. ASSUME NEW r \in Requests, Reconstruct(r)
      PROVE  Len(agents') # 0 /\ agents'[1].paused
  <2>1. ~twins /\ Len(agents) = 0 /\ Len(agents') = 1 /\ agents'[1] = row
    BY <1>2, ReconstructAlone
  <2>2. crashes = 0 /\ "paused" \in told
    BY <1>2 DEF Reconstruct, troubles
  <2>3. row.paused
    BY <2>1, <2>2 DEF PauseKept
  <2>4. QED
    BY <2>1, <2>3
<1>3. ASSUME NEW r \in Requests, Commit(r)
      PROVE  Len(agents') # 0 /\ agents'[1].paused
  <2>1. /\ req[r].pc = "committing" /\ agents' = agents /\ ~twins /\ crashes = 0
        /\ told' = told \union Shown(req[r].op, Of(r))
    BY <1>3 DEF Commit, troubles
  <2>2. Len(agents) = 1 /\ Of(r) = agents[1]
    BY <2>1, AloneAgent DEF HasAgent, Locked
  <2>3. "paused" \in told \/ Of(r).paused
    BY <2>1 DEF Shown
  <2>4. agents[1].paused
    BY <2>1, <2>2, <2>3 DEF PauseKept
  <2>5. QED
    BY <2>1, <2>2, <2>4
<1>4. ~Restart
  BY DEF Restart, Inv, Typed
<1>5. CASE Quiet
  BY <1>5 DEF Quiet, PauseKept
<1>6. QED
  BY <1>1, <1>2, <1>3, <1>4, <1>5, StepCases

\* Once the operator was told that the session is paused, nothing starts until
\* it is resumed, in the life of a process (agent.pause, agent.resume).
THEOREM PauseIsKept == Spec => PauseHolds
<1>1. Init => PauseKept
  BY PauseInit
<1>2. Inv /\ Alone /\ PauseKept /\ [Next]_vars => PauseKept'
  BY PauseStep
<1>3. ASSUME Inv, Alone, PauseKept, [Next]_vars, ~twins, crashes = 0, "paused" \in told
      PROVE  plans' = plans /\ ran'.cancellable = ran.cancellable
  <2>1. ASSUME NEW r \in Requests, NEW s \in Session, Works(r, s)
        PROVE  plans' = plans /\ ran'.cancellable = ran.cancellable
    <3>1. Of(r) = agents[1] /\ Len(agents) = 1
      BY <1>3, <2>1, AloneAgent DEF Works, HasAgent, Locked
    <3>2. Cancelled(Of(r))
      BY <1>3, <3>1 DEF PauseKept, Cancelled
    <3>3. QED
      BY <2>1, <3>2 DEF Works
  <2>2. CASE UNCHANGED work
    BY <2>2 DEF work
  <2>3. QED
    BY <1>3, <2>1, <2>2, OnlyWorkStarts
<1>4. QED
  BY <1>1, <1>2, <1>3, Invariant, AloneInvariant, PTL DEF Spec, PauseHolds
=============================================================================
