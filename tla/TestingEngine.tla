---------------------------- MODULE TestingEngine ----------------------------
(***************************************************************************)
(* The engine every security-testing request goes through: scope, human    *)
(* approvals, safety limits and rate limit, the HTTP clients that follow   *)
(* redirects through it, and the privileges that are saved with a research *)
(* session and cut down when it is restored.                               *)
(*                                                                         *)
(* Clients interleave where they await the network.  A URL is a model      *)
(* value, its origin and the scopes that include it are constants; a scope *)
(* fingerprint is the revision of the scope and its active-testing flag.   *)
(***************************************************************************)
EXTENDS Naturals, Sequences, FiniteSets

CONSTANTS
  Clients,    \* requests that may be in flight together
  Urls, Origin,
  Scopes,     \* Scopes[i]: the URLs in revision i of the program's scope
  LabUrls,    \* the URLs of the lab's hosts
  Calls,      \* what the tools may ask of a client
  Kinds,      \* of session: who made it, and its mode
  Rates,      \* the rates a session may have
  Window,     \* ticks of the clock in a second
  Defaults,   \* the safety limits of a live session
  LabLimits,  \* and of a lab
  MaxClock, MaxGrants, MaxRescopes, MaxRestarts \* bounds

Approvals == {"enable_active_testing", "enable_fuzzing"}
Uses == {"passive", "active", "fuzzer"}
Call == [url : Urls, use : Uses, credentials : BOOLEAN, follow : BOOLEAN]
Limits == [requests : Nat, concurrent : Nat, targets : Nat, redirects : Nat]

\* A rate below one a second has a gap between two requests, in ticks: it is
\* longer than a second.
Rate == [perSecond : Nat \ {0}, gap : {0} \union {n \in Nat : n > Window}]

ASSUME TestingAssumption ==
  /\ IsFiniteSet(Urls) /\ IsFiniteSet(Clients) /\ Urls = DOMAIN Origin
  /\ Scopes \in Seq(SUBSET Urls) /\ Scopes # <<>> /\ LabUrls \subseteq Urls
  /\ Calls \subseteq Call /\ Rates \subseteq Rate
  /\ Kinds \subseteq {"agent_live", "agent_lab", "api_live"}
  /\ Window \in Nat \ {0} /\ Defaults \in Limits /\ LabLimits \in Limits
  /\ MaxClock \in Nat /\ MaxGrants \in Nat /\ MaxRescopes \in Nat /\ MaxRestarts \in Nat

VARIABLES
  kind, rate, \* of the session
  engine,     \* the engine, in memory
  safety,     \* its counters
  times,      \* the rate limiter's: when the last requests were let through
  clients,
  stored,     \* the privileges of the session in its row
  program,    \* revision of the program's scope
  clock, grants, aged, rescopes, restarts,
  hop,        \* the last that passed every check: sent or, in a dry run, described
  sentAt,     \* when this process sent its requests
  licensed    \* what humans allowed: approval, scope revision, process, grant

vars == <<kind, rate, engine, safety, times, clients, stored, program, clock, grants, aged,
          rescopes, restarts, hop, sentAt, licensed>>

session == <<kind, rate>>
traffic == <<safety, times, clients, hop, sentAt>>
authority == <<engine, stored, program, grants, aged, rescopes, restarts, licensed>>

-----------------------------------------------------------------------------
Live == kind \in {"agent_live", "api_live"}

\* Only a research agent's session has a row to be restored from.
Persistent == kind \in {"agent_live", "agent_lab"}

\* An approval is the number of its grant, 0 when it is missing.  active,
\* fuzzing: active_testing_enabled and fuzzing_enabled of the session; allow:
\* allow_active_testing of its scope, whose revision is rev (0 in a lab).
Engine == [rev : 0 .. Len(Scopes), allow : BOOLEAN, active : BOOLEAN, fuzzing : BOOLEAN,
           dryRun : BOOLEAN, approvals : [Approvals -> Nat], limits : Limits]

\* capture_privileges: the limits of concurrency, targets and redirects are
\* not part of it.
Snapshot == [rev : 0 .. Len(Scopes), allow : BOOLEAN, active : BOOLEAN, fuzzing : BOOLEAN,
             dryRun : BOOLEAN, approvals : [Approvals -> Nat], requests : Nat]
Captured(e) == [rev |-> e.rev, allow |-> e.allow, active |-> e.active, fuzzing |-> e.fuzzing,
                dryRun |-> e.dryRun, approvals |-> e.approvals, requests |-> e.limits.requests]

NewSafety == [count |-> 0, inFlight |-> 0, targets |-> {}]
NoHop == [use |-> "none"]
NoCall == [url |-> "none"]
IdleClient == [pc |-> "idle", call |-> NoCall, url |-> "none", credentials |-> FALSE,
               left |-> 0, seen |-> {}, sends |-> 0]

TypeOK ==
  /\ kind \in Kinds /\ rate \in Rates /\ engine \in Engine /\ stored \in Snapshot
  /\ safety \in [count : Nat, inFlight : Nat, targets : SUBSET Urls]
  /\ times \in Seq(0 .. clock) /\ sentAt \in Seq(0 .. clock)
  /\ clients \in [Clients -> [pc : {"idle", "hop", "waiting"}, call : Calls \union {NoCall},
                              url : Urls \union {"none"}, credentials : BOOLEAN,
                              left : Nat, seen : SUBSET Urls, sends : Nat]]
  /\ \A c \in Clients :
       clients[c].pc # "idle" => clients[c].call \in Calls /\ clients[c].url \in Urls
  /\ program \in DOMAIN Scopes /\ clock \in Nat /\ grants \in Nat /\ aged \in 0 .. grants
  /\ restarts \in Nat /\ rescopes \in Nat
  /\ hop \in [url : Urls, first : Urls, use : Uses, credentials : BOOLEAN,
              rev : 0 .. Len(Scopes), process : Nat] \union {NoHop}
  /\ licensed \subseteq (Approvals \X (0 .. Len(Scopes)) \X Nat \X Nat)

\* The research agent's live sessions are dry runs without active testing, its
\* labs are active; live sessions of the testing API are as the caller wishes.
NewEngine(active, dryRun) ==
  [rev |-> IF Live THEN 1 ELSE 0, allow |-> active, active |-> active, fuzzing |-> FALSE,
   dryRun |-> dryRun, approvals |-> [k \in Approvals |-> 0],
   limits |-> IF kind = "agent_lab" THEN LabLimits ELSE Defaults]

NewEngines ==
  CASE kind = "agent_live" -> {NewEngine(FALSE, TRUE)}
    [] kind = "agent_lab"  -> {NewEngine(TRUE, FALSE)}
    [] kind = "api_live"   -> {NewEngine(FALSE, dryRun) : dryRun \in BOOLEAN}

Init ==
  /\ kind \in Kinds /\ rate \in Rates /\ engine \in NewEngines /\ stored = Captured(engine)
  /\ safety = NewSafety /\ times = <<>> /\ sentAt = <<>>
  /\ clients = [c \in Clients |-> IdleClient]
  /\ program = 1 /\ clock = 0 /\ grants = 0 /\ aged = 0 /\ restarts = 0 /\ rescopes = 0
  /\ hop = NoHop /\ licensed = {}

-----------------------------------------------------------------------------
(* The checks a hop passes, in the engine's order.                         *)

Granted(k) == engine.approvals[k] # 0

\* ScopeGuard.authorize.  Methods, kinds of asset and a rule's own permission of
\* active testing are left out.
InScope(call, url) ==
  /\ url \in (IF Live THEN Scopes[engine.rev] ELSE LabUrls)
  /\ call.use # "passive" => engine.allow

\* SecurityTestEngine.authorize as far as the scope guard.  A redirect of the
\* fuzzer is another tool, "fuzzer_redirect".
Authorized(call, url, first) ==
  /\ Live /\ call.use # "passive" => Granted("enable_active_testing")
  /\ call.use = "fuzzer" /\ first => engine.fuzzing \/ Granted("enable_fuzzing")
  /\ InScope(call, url)

\* Faulty variant: the hosts are counted before the new one is added.
SafeBefore(url) ==
  /\ safety.count < engine.limits.requests
  /\ safety.inFlight < engine.limits.concurrent
  /\ Cardinality(safety.targets) <= engine.limits.targets

\* SafetyController.check_request.
Safe(url) ==
  /\ safety.count < engine.limits.requests
  /\ safety.inFlight < engine.limits.concurrent
  /\ Cardinality(safety.targets \union {url}) <= engine.limits.targets

\* RateLimiter.check: times that left the window are dropped from the left, up
\* to the first that is still in it.
Gone == {i \in 0 .. Len(times) : \A j \in 1 .. i : clock - times[j] >= Window}
Recent ==
  LET dropped == CHOOSE i \in Gone : i + 1 \notin Gone
  IN SubSeq(times, dropped + 1, Len(times))

\* Faulty variant: off by one.
RateOkOneMore ==
  IF rate.gap > 0
  THEN \A i \in DOMAIN Recent : clock - Recent[i] >= rate.gap
  ELSE Len(Recent) <= rate.perSecond

RateOk ==
  IF rate.gap > 0
  THEN \A i \in DOMAIN Recent : clock - Recent[i] >= rate.gap
  ELSE Len(Recent) < rate.perSecond

-----------------------------------------------------------------------------
(* A request of an HTTP client.                                            *)

Begin(c) ==
  /\ clients[c].pc = "idle"
  /\ \E call \in Calls :
       clients' = [clients EXCEPT ![c] =
         [pc |-> "hop", call |-> call, url |-> call.url, credentials |-> call.credentials,
          left |-> IF call.follow THEN engine.limits.redirects ELSE 0, seen |-> {}, sends |-> 0]]
  /\ UNCHANGED <<session, safety, times, hop, sentAt, authority, clock>>

Hop(c) == [url |-> clients[c].url, first |-> clients[c].call.url, use |-> clients[c].call.use,
           credentials |-> clients[c].credentials, rev |-> engine.rev, process |-> restarts]

\* One turn of the loop in request, as far as the network: nothing in it
\* awaits.  A live name may fail to resolve, or resolve to a forbidden address,
\* when it is authorized and again when the connection is pinned.
Attempt(c) ==
  /\ clients[c].pc = "hop"
  /\ LET url == clients[c].url
         allowed == Authorized(clients[c].call, url, clients[c].sends = 0) /\ Safe(url)
     IN \/ \* denied
           /\ Live \/ ~ allowed \/ (~ RateOk /\ ~ engine.dryRun)
           /\ clients' = [clients EXCEPT ![c] = IdleClient]
           /\ UNCHANGED <<safety, times, hop, sentAt>>
        \/ \* described
           /\ allowed /\ engine.dryRun
           /\ clients' = [clients EXCEPT ![c] = IdleClient] /\ hop' = Hop(c)
           /\ UNCHANGED <<safety, times, sentAt>>
        \/ \* the pin fails: the rate limiter has counted the request
           /\ allowed /\ ~ engine.dryRun /\ RateOk /\ Live
           /\ clients' = [clients EXCEPT ![c] = IdleClient] /\ times' = Append(Recent, clock)
           /\ UNCHANGED <<safety, hop, sentAt>>
        \/ \* sent
           /\ allowed /\ ~ engine.dryRun /\ RateOk
           /\ clients' = [clients EXCEPT ![c].pc = "waiting", ![c].sends = @ + 1]
           /\ safety' = [count |-> safety.count + 1, inFlight |-> safety.inFlight + 1,
                         targets |-> safety.targets \union {url}]
           /\ times' = Append(Recent, clock) /\ sentAt' = Append(sentAt, clock)
           /\ hop' = Hop(c)
  /\ UNCHANGED <<session, authority, clock>>

\* Faulty variant: the headers of the first request are looked at again.
HeadersOfFirst(cl, nxt) == cl.call.credentials /\ Origin[nxt] = Origin[cl.url]

\* _headers_for_redirect: credentials go on to the same origin only.
Headers(cl, nxt) == cl.credentials /\ Origin[nxt] = Origin[cl.url]

\* The request is over: it timed out, failed, or was answered; or a redirect is
\* malformed, closes a loop or is one too many.  Or the redirect is followed.
Respond(c) ==
  /\ clients[c].pc = "waiting"
  /\ LET cl == clients[c] IN
     \/ clients' = [clients EXCEPT ![c] = IdleClient]
     \/ \E nxt \in Urls :
          /\ nxt \notin cl.seen /\ cl.url \notin cl.seen /\ cl.left > 0
          /\ clients' = [clients EXCEPT ![c] =
               [cl EXCEPT !.pc = "hop", !.url = nxt, !.seen = @ \union {cl.url}, !.left = @ - 1,
                          !.credentials = Headers(cl, nxt)]]
  /\ safety' = [safety EXCEPT !.inFlight = IF @ > 0 THEN @ - 1 ELSE @]
  /\ UNCHANGED <<session, times, hop, sentAt, authority, clock>>

Tick ==
  /\ clock < MaxClock
  /\ clock' = clock + 1
  /\ UNCHANGED <<session, traffic, authority>>

-----------------------------------------------------------------------------
(* The operator, the program, and the session's row.                       *)

\* grant by an operator: any approval, as often as he likes.
Grant(k) ==
  /\ grants < MaxGrants
  /\ grants' = grants + 1
  /\ engine' = [engine EXCEPT !.approvals[k] = grants + 1,
                              !.active = @ \/ k = "enable_active_testing",
                              !.allow = @ \/ k = "enable_active_testing",
                              !.fuzzing = @ \/ k = "enable_fuzzing"]
  /\ licensed' = licensed \union {<<k, engine.rev, restarts, grants + 1>>}
  /\ UNCHANGED <<session, traffic, stored, program, clock, aged, rescopes, restarts>>

\* save_session and its commit, by any request of the session.
Save ==
  /\ Persistent /\ stored # Captured(engine)
  /\ stored' = Captured(engine)
  /\ UNCHANGED <<session, traffic, engine, program, clock, grants, aged, rescopes, restarts,
                 licensed>>

\* The time to live of all approvals so far passes.
Age ==
  /\ aged < grants
  /\ aged' = grants
  /\ UNCHANGED <<session, traffic, engine, stored, program, clock, grants, rescopes, restarts,
                 licensed>>

\* The program is synchronized: its scope has changed.  Engines keep theirs.
Rescope ==
  /\ rescopes < MaxRescopes
  /\ \E rev \in DOMAIN Scopes \ {program} : program' = rev
  /\ rescopes' = rescopes + 1
  /\ UNCHANGED <<session, traffic, engine, stored, clock, grants, aged, restarts, licensed>>

\* Faulty variant: the limits of the snapshot replace all others.
LimitsOfSnapshot == [requests |-> stored.requests]

\* What a snapshot does not have becomes the default of SafetyLimits.
RestoredLimits == [Defaults EXCEPT !.requests = stored.requests]

\* Faulty variant: the flags are restored as they were saved.
RestoredFlags(keeps, downgraded) ==
  [rev |-> IF Live THEN program ELSE 0, allow |-> stored.active, active |-> stored.active,
   fuzzing |-> stored.fuzzing, dryRun |-> downgraded \/ stored.dryRun,
   approvals |-> [k \in Approvals |-> IF k \in keeps THEN stored.approvals[k] ELSE 0],
   limits |-> RestoredLimits]

\* apply_privilege_snapshot on a new engine.
RestoredEngine(keeps, downgraded) ==
  LET active == stored.active /\ "enable_active_testing" \in keeps
  IN [rev |-> IF Live THEN program ELSE 0, allow |-> active, active |-> active,
      fuzzing |-> stored.fuzzing /\ "enable_fuzzing" \in keeps,
      dryRun |-> downgraded \/ stored.dryRun,
      approvals |-> [k \in Approvals |-> IF k \in keeps THEN stored.approvals[k] ELSE 0],
      limits |-> RestoredLimits]

\* A restart, and the session restored from its row: intersect_privileges with
\* the program's scope, which has no active testing; in a lab
\* expire_stale_privileges.  Counters and requests in flight are gone.
Restart ==
  /\ Persistent /\ restarts < MaxRestarts
  /\ restarts' = restarts + 1
  /\ LET downgraded == Live /\ <<program, FALSE>> # <<stored.rev, stored.allow>>
         fresh == {k \in Approvals : stored.approvals[k] > aged}
     IN engine' = RestoredEngine(IF downgraded THEN {} ELSE fresh, downgraded)
  /\ licensed' = licensed \union
       {<<l[1], l[2], restarts + 1, l[4]>> :
          l \in {m \in licensed : m[2] = engine'.rev /\ m[4] > aged}}
  /\ safety' = NewSafety /\ times' = <<>> /\ sentAt' = <<>>
  /\ clients' = [c \in Clients |-> IdleClient]
  /\ UNCHANGED <<session, stored, program, clock, grants, aged, rescopes, hop>>

Next ==
  \/ \E c \in Clients : Begin(c) \/ Attempt(c) \/ Respond(c)
  \/ \E k \in Approvals : Grant(k)
  \/ Tick \/ Save \/ Age \/ Rescope \/ Restart

Spec == Init /\ [][Next]_vars

-----------------------------------------------------------------------------
(* Properties.                                                             *)

\* The counters are what they count, whatever way a request ends, and no
\* interleaving of clients, redirects included, exceeds a limit.
LimitsHold ==
  /\ safety.inFlight = Cardinality({c \in Clients : clients[c].pc = "waiting"})
  /\ safety.inFlight <= engine.limits.concurrent
  /\ safety.count = Len(sentAt) /\ safety.count <= engine.limits.requests
  /\ Cardinality(safety.targets) <= engine.limits.targets
  /\ \A c \in Clients : clients[c].sends <= engine.limits.redirects + 1

\* At a rate of one a second or more, a process sends no more than the rate in
\* any window of time, not only in those that start with a second.  A rate below
\* one a second is left out: the limiter forgets a request when it leaves the
\* window, so it does not keep the gap of a rate of one in two seconds.
RateHolds ==
  rate.gap = 0 =>
    \A i \in DOMAIN sentAt :
      i + rate.perSecond \in DOMAIN sentAt => sentAt[i + rate.perSecond] - sentAt[i] >= Window

\* However a chain of redirects winds, the credentials of a request are sent to
\* the origin they were given for, and to no other.
CredentialsStayHome ==
  hop # NoHop /\ hop.credentials => Origin[hop.url] = Origin[hop.first]

\* A human allowed active testing for the scope it is done in, and fuzzing: in
\* the same process, or earlier if the approval had not expired when the session
\* was restored and the scope was the same.  A lab is active when it is created.
Licensed(k) == \E l \in licensed : l[1] = k /\ l[2] = hop.rev /\ l[3] = hop.process
NothingWithoutAHuman ==
  hop # NoHop =>
    /\ hop.use # "passive" /\ (Live \/ hop.process > 0) => Licensed("enable_active_testing")
    /\ hop.use = "fuzzer" => Licensed("enable_fuzzing")
=============================================================================
