------------------------ MODULE BountyCampaign_proofs ------------------------
(***************************************************************************)
(* Theorems about BountyCampaign, for any number of request threads and    *)
(* workers, any requests, rounds, failures and restarts: the registered    *)
(* campaign is between two rounds when no engine runs for it, a stop and a *)
(* pause are kept, and a campaign that says it has a job has one.          *)
(***************************************************************************)
EXTENDS BountyCampaign, SequenceTheorems, TLAPS

USE CampaignAssumption

-----------------------------------------------------------------------------
(* Documents, records and threads keep their types *)

\* The documents and records of a new campaign are well typed.
LEMMA Constants ==
  /\ NewDoc \in Doc /\ NewRecord \in Record
  /\ NewRecord.rev = 1 /\ NewRecord.control = "active" /\ NewDoc.state = "ready"
<1>1. NewDoc.decisions \in Seq(Nat) /\ NewDoc.state \in DocStates
  BY DEF NewDoc, DocStates
<1>2. NewDoc \in Doc
  BY <1>1 DEF NewDoc, Doc
<1>3. NewRecord \in Record
  BY DEF NewRecord, Record, Job, JobActive
<1>4. QED
  BY <1>2, <1>3 DEF NewRecord, NewDoc

\* What the orchestrator makes of a document is a document.
LEMMA DocTypes ==
  ASSUME NEW doc \in Doc, made \in Nat
  PROVE  /\ doc.state \in DocStates /\ doc.decisions \in Seq(Nat)
         /\ \A state \in DocStates :
              /\ Decided(doc, state) \in Doc /\ Decided(doc, state).state = state
              /\ [doc EXCEPT !.state = state] \in Doc
              /\ [doc EXCEPT !.state = state].state = state
              /\ [doc EXCEPT !.state = state].decisions = doc.decisions
         /\ Restored(doc) \in Doc /\ Restored(doc).state # "executing"
         /\ Restored(doc).state = "stopped" <=> doc.state = "stopped"
<1>1. doc.state \in DocStates /\ doc.decisions \in Seq(Nat)
  BY DEF Doc
<1>2. ASSUME NEW state \in DocStates
      PROVE  Decided(doc, state) \in Doc /\ Decided(doc, state).state = state
  <2>1. Append(doc.decisions, made + 1) \in Seq(Nat)
    <3>1. made + 1 \in Nat
      OBVIOUS
    <3>2. QED
      BY <1>1, <3>1, AppendProperties
  <2>2. QED
    BY <2>1 DEF Decided, Doc
<1>3. ASSUME NEW state \in DocStates
      PROVE  /\ [doc EXCEPT !.state = state] \in Doc
             /\ [doc EXCEPT !.state = state].state = state
             /\ [doc EXCEPT !.state = state].decisions = doc.decisions
  BY DEF Doc
<1>4. "ready" \in DocStates
  BY DEF DocStates
<1>5. /\ Restored(doc) \in Doc /\ Restored(doc).state # "executing"
      /\ Restored(doc).state = "stopped" <=> doc.state = "stopped"
  BY <1>2, <1>4 DEF Restored
<1>6. QED
  BY <1>1, <1>2, <1>3, <1>5

\* A decision leaves a document in the state it decides.
LEMMA DecidedTypes ==
  ASSUME NEW doc \in Doc, made \in Nat, NEW state \in DocStates
  PROVE  Decided(doc, state) \in Doc /\ Decided(doc, state).state = state
<1>1. doc.decisions \in Seq(Nat)
  BY DEF Doc
<1>2. made + 1 \in Nat
  OBVIOUS
<1>3. Append(doc.decisions, made + 1) \in Seq(Nat)
  BY <1>1, <1>2
<1>4. QED
  BY <1>3 DEF Decided, Doc

\* A resumed document is ready or was already at an end.
LEMMA ResumedTypes ==
  ASSUME NEW doc \in Doc
  PROVE  /\ Resumed(doc) \in Doc
         /\ doc.state # "executing" => Resumed(doc).state # "executing"
         /\ doc.state = "stopped" => Resumed(doc).state = "stopped"
<1> DEFINE s == IF doc.state \in {"blocked", "paused"} THEN "ready" ELSE doc.state
<1>1. s \in DocStates
  BY DEF Doc, DocStates
<1>2. Resumed(doc) = [doc EXCEPT !.state = s]
  BY DEF Resumed, Doc
<1>3. Resumed(doc) \in Doc /\ Resumed(doc).state = s
  BY <1>1, <1>2 DEF Doc
<1>4. QED
  BY <1>3

\* A record with another job is the same record otherwise.
LEMMA WithJobTypes ==
  ASSUME NEW rec \in Record, NEW id \in Nat,
         NEW status \in {"queued", "running", "completed", "halted", "failed"}
  PROVE  /\ WithJob(rec, id, status) \in Record
         /\ WithJob(rec, id, status).control = rec.control
         /\ WithJob(rec, id, status).rev = rec.rev
         /\ WithJob(rec, id, status).job.id = id
         /\ WithJob(rec, id, status).job.status = status
<1>1. [id |-> id, status |-> status] \in Job
  BY DEF Job, JobActive
<1>2. QED
  BY <1>1 DEF WithJob, Record

\* A record that is saved, marked or controlled is a record, and keeps the rest.
LEMMA RecordTypes ==
  ASSUME NEW rec \in Record
  PROVE  /\ rec.rev \in Nat /\ rec.control \in {"active", "paused", "stopped"}
         /\ rec.job \in Job /\ rec.job.id \in Nat
         /\ Newer(rec) \in Record /\ Newer(rec).rev = rec.rev + 1
         /\ Newer(rec).control = rec.control /\ Newer(rec).job = rec.job
         /\ Interrupted(rec) \in Record /\ Interrupted(rec).rev = rec.rev
         /\ Interrupted(rec).control = rec.control
         /\ Interrupted(rec).job.status = "interrupted"
         /\ \A control \in {"active", "paused", "stopped"} :
              /\ [rec EXCEPT !.control = control] \in Record
              /\ [rec EXCEPT !.control = control].control = control
              /\ [rec EXCEPT !.control = control].rev = rec.rev
              /\ [rec EXCEPT !.control = control].job = rec.job
<1>1. /\ rec.rev \in Nat /\ rec.control \in {"active", "paused", "stopped"}
      /\ rec.job \in Job /\ rec.job.id \in Nat
  BY DEF Record, Job
<1>2. /\ Newer(rec) \in Record /\ Newer(rec).rev = rec.rev + 1
      /\ Newer(rec).control = rec.control /\ Newer(rec).job = rec.job
  BY DEF Newer, Record
<1>3. /\ Interrupted(rec) \in Record /\ Interrupted(rec).rev = rec.rev
      /\ Interrupted(rec).control = rec.control
      /\ Interrupted(rec).job.status = "interrupted"
  <2> DEFINE job == [rec.job EXCEPT !.status = "interrupted"]
  <2>1. job \in Job /\ job.status = "interrupted"
    BY <1>1 DEF Job, JobActive
  <2>2. Interrupted(rec) = [rec EXCEPT !.job = job]
    BY DEF Interrupted, Record
  <2> HIDE DEF job
  <2>3. QED
    BY <2>1, <2>2 DEF Record
<1>4. ASSUME NEW control \in {"active", "paused", "stopped"}
      PROVE  /\ [rec EXCEPT !.control = control] \in Record
             /\ [rec EXCEPT !.control = control].control = control
             /\ [rec EXCEPT !.control = control].rev = rec.rev
             /\ [rec EXCEPT !.control = control].job = rec.job
  BY DEF Record
<1>5. QED
  BY <1>1, <1>2, <1>3, <1>4

\* A thread that may be in a process with n objects.
Placed(x, n) == x \in Thread /\ (x.pc \notin Building \union {"idle"} => x.obj \in 1 .. n)

\* The threads between two requests, and those that start one.
Starts == {"idle", "again", "lookup"}

\* Threads that are idle, report or rescue a job.
LEMMA StartTypes ==
  /\ Idle \in Thread /\ Idle.pc = "idle" /\ Idle.op = "none"
  /\ Reports \in Thread /\ Reports.pc = "again" /\ Reports.op = "report"
  /\ [Idle EXCEPT !.op = "rescue", !.pc = "again"] \in Thread
  /\ [Idle EXCEPT !.op = "rescue", !.pc = "again"].pc = "again"
  /\ [Idle EXCEPT !.op = "rescue", !.pc = "again"].op = "rescue"
  /\ Starts \subseteq Building \union {"idle"} /\ Starts \intersect Holding = {}
<1>1. Idle \in Thread /\ Idle.pc = "idle" /\ Idle.op = "none"
  BY Constants DEF Idle, Thread, Places
<1>2. /\ Reports \in Thread /\ Reports.pc = "again" /\ Reports.op = "report"
      /\ [Idle EXCEPT !.op = "rescue", !.pc = "again"] \in Thread
      /\ [Idle EXCEPT !.op = "rescue", !.pc = "again"].pc = "again"
      /\ [Idle EXCEPT !.op = "rescue", !.pc = "again"].op = "rescue"
  BY <1>1 DEF Reports, Thread, Places, AllOps
<1>3. Starts \subseteq Building \union {"idle"} /\ Starts \intersect Holding = {}
  BY DEF Starts, Building, Holding
<1>4. QED
  BY <1>1, <1>2, <1>3

\* The fields of a thread.
LEMMA ThreadTypes ==
  ASSUME TypeOK, NEW t \in Threads
  PROVE  /\ th[t] \in Thread /\ Placed(th[t], Len(objs))
         /\ th[t].op \in AllOps \union {"none", "job", "rescue"} /\ th[t].pc \in Places
         /\ th[t].obj \in Nat /\ th[t].rec \in Record /\ th[t].doc \in Doc
         /\ th[t].job \in Nat /\ th[t].learn \in Nat /\ th[t].out \in {"completed", "halted"}
<1>1. DOMAIN objs = 1 .. Len(objs)
  BY LenProperties DEF TypeOK
<1>2. th[t] \in Thread /\ Placed(th[t], Len(objs))
  BY <1>1 DEF TypeOK, Placed
<1>3. QED
  BY <1>2 DEF Thread

\* A thread that goes to another place keeps its other fields.
LEMMA GoTypes ==
  ASSUME TypeOK, NEW t \in Threads, NEW pc \in Places
  PROVE  /\ Go(t, pc) \in Thread /\ Go(t, pc).pc = pc
         /\ Go(t, pc).obj = th[t].obj /\ Go(t, pc).op = th[t].op
         /\ Go(t, pc).rec = th[t].rec /\ Go(t, pc).doc = th[t].doc
         /\ Go(t, pc).job = th[t].job
         /\ \A out \in {"completed", "halted"} :
              /\ [Go(t, pc) EXCEPT !.out = out] \in Thread
              /\ [Go(t, pc) EXCEPT !.out = out].pc = pc
              /\ [Go(t, pc) EXCEPT !.out = out].obj = th[t].obj
              /\ [Go(t, pc) EXCEPT !.out = out].op = th[t].op
              /\ [Go(t, pc) EXCEPT !.out = out].job = th[t].job
<1>1. th[t] \in Thread
  BY ThreadTypes
<1>2. QED
  BY <1>1 DEF Go, Thread

\* A thread that goes to a place is there.
LEMMA GoPlace ==
  ASSUME TypeOK, NEW t \in Threads, NEW pc \in Places
  PROVE  Go(t, pc) \in Thread /\ Go(t, pc).pc = pc
  BY GoTypes

\* What a thread learns later does not change where it is.
LEMMA LearnTypes ==
  ASSUME NEW x \in Thread, NEW n \in Nat
  PROVE  /\ [x EXCEPT !.learn = n] \in Thread
         /\ [x EXCEPT !.learn = n].pc = x.pc /\ [x EXCEPT !.learn = n].obj = x.obj
         /\ [x EXCEPT !.learn = n].op = x.op /\ [x EXCEPT !.learn = n].rec = x.rec
         /\ [x EXCEPT !.learn = n].doc = x.doc /\ [x EXCEPT !.learn = n].job = x.job
  BY DEF Thread

\* The fields of an object.
LEMMA ObjectTypes ==
  ASSUME TypeOK
  PROVE  /\ Len(objs) \in Nat /\ DOMAIN objs = 1 .. Len(objs)
         /\ \A o \in 1 .. Len(objs) :
              objs[o] \in Object /\ objs[o].doc \in Doc /\ objs[o].rec \in Record
<1>1. Len(objs) \in Nat /\ DOMAIN objs = 1 .. Len(objs)
  BY LenProperties DEF TypeOK
<1>2. \A o \in 1 .. Len(objs) : objs[o] \in Object
  BY <1>1, ElementOfSeq DEF TypeOK
<1>3. QED
  BY <1>1, <1>2 DEF Object

\* A thread outside get has an object.
LEMMA MineTypes ==
  ASSUME TypeOK, NEW t \in Threads, th[t].pc \notin Building \union {"idle"}
  PROVE  /\ th[t].obj \in 1 .. Len(objs) /\ th[t].obj \in DOMAIN objs
         /\ Mine(t).doc \in Doc /\ Mine(t).rec \in Record
<1>1. th[t].obj \in 1 .. Len(objs)
  BY ThreadTypes DEF Placed
<1>2. QED
  BY <1>1, ObjectTypes DEF Mine

\* What a job makes of its campaign's record.
LEMMA MineJobTypes ==
  ASSUME TypeOK, NEW t \in Threads, th[t].pc \notin Building \union {"idle"},
         NEW id \in Nat, NEW status \in {"queued", "running", "completed", "halted", "failed"}
  PROVE  LET rec == WithJob(Mine(t).rec, id, status) IN
         /\ rec \in Record
         /\ rec.control = Mine(t).rec.control /\ rec.rev = Mine(t).rec.rev
         /\ rec.job.id = id /\ rec.job.status = status
<1>1. PICK r \in Record : r = Mine(t).rec
  BY MineTypes
<1>2. /\ WithJob(r, id, status) \in Record
      /\ WithJob(r, id, status).control = r.control /\ WithJob(r, id, status).rev = r.rev
      /\ WithJob(r, id, status).job.id = id /\ WithJob(r, id, status).job.status = status
  BY WithJobTypes
<1>3. QED
  BY <1>1, <1>2

\* The numbers in the record of a thread's object.
LEMMA MineJobId ==
  ASSUME TypeOK, NEW t \in Threads, th[t].pc \notin Building \union {"idle"}
  PROVE  Mine(t).rec.job.id \in Nat /\ Mine(t).rec.rev \in Nat
<1>1. PICK r \in Record : r = Mine(t).rec
  BY MineTypes
<1>2. r.job.id \in Nat /\ r.rev \in Nat
  BY RecordTypes
<1>3. QED
  BY <1>1, <1>2

\* The effect of replacing an object's document or record.
LEMMA ObjectChanges ==
  ASSUME TypeOK, NEW o \in 1 .. Len(objs)
  PROVE  /\ \A d \in Doc : LET s == [objs EXCEPT ![o].doc = d] IN
              /\ s \in Seq(Object) /\ Len(s) = Len(objs) /\ DOMAIN s = 1 .. Len(objs)
              /\ \A n \in 1 .. Len(objs) : /\ s[n].rec = objs[n].rec
                                           /\ s[n].doc = IF n = o THEN d ELSE objs[n].doc
         /\ \A r \in Record : LET s == [objs EXCEPT ![o].rec = r] IN
              /\ s \in Seq(Object) /\ Len(s) = Len(objs) /\ DOMAIN s = 1 .. Len(objs)
              /\ \A n \in 1 .. Len(objs) : /\ s[n].doc = objs[n].doc
                                           /\ s[n].rec = IF n = o THEN r ELSE objs[n].rec
<1>1. DOMAIN objs = 1 .. Len(objs) /\ objs \in Seq(Object)
  BY ObjectTypes DEF TypeOK
<1>2. ASSUME NEW b \in Object
      PROVE  LET s == [objs EXCEPT ![o] = b] IN
             /\ s \in Seq(Object) /\ Len(s) = Len(objs) /\ DOMAIN s = 1 .. Len(objs)
             /\ \A n \in 1 .. Len(objs) : s[n] = IF n = o THEN b ELSE objs[n]
  <2>1. [objs EXCEPT ![o] = b] \in Seq(Object) /\ Len([objs EXCEPT ![o] = b]) = Len(objs)
    BY <1>1, ExceptSeq
  <2>2. QED
    BY <1>1, <2>1
<1>3. ASSUME NEW d \in Doc
      PROVE  LET s == [objs EXCEPT ![o].doc = d] IN
             /\ s \in Seq(Object) /\ Len(s) = Len(objs) /\ DOMAIN s = 1 .. Len(objs)
             /\ \A n \in 1 .. Len(objs) : /\ s[n].rec = objs[n].rec
                                          /\ s[n].doc = IF n = o THEN d ELSE objs[n].doc
  <2> DEFINE b == [objs[o] EXCEPT !.doc = d]
  <2>1. b \in Object /\ b.doc = d /\ b.rec = objs[o].rec
    BY ObjectTypes DEF Object
  <2>2. [objs EXCEPT ![o].doc = d] = [objs EXCEPT ![o] = b]
    BY <1>1
  <2> HIDE DEF b
  <2>3. QED
    BY <1>2, <2>1, <2>2
<1>4. ASSUME NEW r \in Record
      PROVE  LET s == [objs EXCEPT ![o].rec = r] IN
             /\ s \in Seq(Object) /\ Len(s) = Len(objs) /\ DOMAIN s = 1 .. Len(objs)
             /\ \A n \in 1 .. Len(objs) : /\ s[n].doc = objs[n].doc
                                          /\ s[n].rec = IF n = o THEN r ELSE objs[n].rec
  <2> DEFINE b == [objs[o] EXCEPT !.rec = r]
  <2>1. b \in Object /\ b.rec = r /\ b.doc = objs[o].doc
    BY ObjectTypes DEF Object
  <2>2. [objs EXCEPT ![o].rec = r] = [objs EXCEPT ![o] = b]
    BY <1>1
  <2> HIDE DEF b
  <2>3. QED
    BY <1>2, <2>1, <2>2
<1>5. QED
  BY <1>3, <1>4

-----------------------------------------------------------------------------
(* The service's maps, errors and saves *)

Service(n) == [cache : 0 .. n, known : Nat, halt : BOOLEAN, jobs : BOOLEAN, queue : Seq(Nat)]

\* The fields of the service's maps.
LEMMA ServiceTypes ==
  ASSUME TypeOK
  PROVE  /\ svc \in Service(Len(objs))
         /\ svc.cache \in 0 .. Len(objs) /\ svc.known \in Nat /\ svc.halt \in BOOLEAN
         /\ svc.jobs \in BOOLEAN /\ svc.queue \in Seq(Nat)
  BY DEF TypeOK, Service

\* The tables and the counters.
LEMMA TableTypes ==
  ASSUME TypeOK
  PROVE  /\ docRow.rev \in Nat /\ docRow.doc \in Doc /\ history \in Seq(Nat)
         /\ recRow \in Record /\ made \in Nat /\ rounds \in Nat /\ paused \in BOOLEAN
         /\ calls \in Nat /\ faults \in Nat /\ crashes \in Nat
  BY DEF TypeOK

\* Where an error leaves the thread.
Failed(t) == IF Rescued(t) THEN [Idle EXCEPT !.op = "rescue", !.pc = "again"] ELSE Idle

\* A thread that fails is idle, or rescues its job.
LEMMA FailedTypes ==
  ASSUME NEW t
  PROVE  /\ Fails(t) <=> Becomes(t, Failed(t))
         /\ Failed(t) \in Thread /\ Failed(t).pc \in Starts
         /\ Failed(t).op = "rescue" => Rescued(t)
         /\ Failed(t).op \in {"rescue", "none"}
  BY StartTypes DEF Fails, Failed, Starts

\* What an error leaves of the service's maps (_evict, _run_job).
LEMMA DroppedTypes ==
  ASSUME TypeOK, NEW t \in Threads, NEW evict \in BOOLEAN
  PROVE  LET s == Dropped(t, evict) IN
         /\ s \in Service(Len(objs))
         /\ s.cache = IF evict \/ Rescued(t) THEN 0 ELSE svc.cache
         /\ s.queue = svc.queue
         /\ s.jobs <=> (svc.jobs /\ th[t].op # "rescue")
         /\ \A n \in Nat : /\ [s EXCEPT !.known = n] \in Service(Len(objs))
                           /\ [s EXCEPT !.known = n].cache = s.cache
                           /\ [s EXCEPT !.known = n].queue = s.queue
                           /\ [s EXCEPT !.known = n].jobs = s.jobs
<1> DEFINE c == IF evict \/ Rescued(t) THEN 0 ELSE svc.cache
           k == IF evict \/ Rescued(t) THEN 0 ELSE svc.known
           h == svc.halt /\ th[t].pc \notin {"halting", "haltrec"}
           j == svc.jobs /\ th[t].op # "rescue"
           s == Dropped(t, evict)
<1>1. c \in 0 .. Len(objs) /\ k \in Nat
  BY ServiceTypes, ObjectTypes
<1>2. h \in BOOLEAN /\ j \in BOOLEAN
  OBVIOUS
<1>3. svc \in Service(Len(objs))
  BY ServiceTypes
<1>4. s = [svc EXCEPT !.cache = c, !.known = k, !.halt = h, !.jobs = j]
  BY <1>3, Zenon DEF Dropped, Service
<1> HIDE DEF c, k, h, j, s
<1>5. s \in Service(Len(objs)) /\ s.cache = c /\ s.queue = svc.queue /\ s.jobs = j
  BY <1>1, <1>2, <1>3, <1>4 DEF Service
<1>6. \A n \in Nat : /\ [s EXCEPT !.known = n] \in Service(Len(objs))
                     /\ [s EXCEPT !.known = n].cache = s.cache
                     /\ [s EXCEPT !.known = n].queue = s.queue
                     /\ [s EXCEPT !.known = n].jobs = s.jobs
  BY <1>5 DEF Service
<1>7. QED
  BY <1>5, <1>6 DEF c, j, s

\* A document written to the table is well typed, and extends the decisions.
LEMMA WriteTypes ==
  ASSUME TypeOK, NEW doc \in Doc, WriteDoc(doc)
  PROVE  docRow' \in [rev : Nat, doc : Doc] /\ history' \in Seq(Nat) /\ docRow'.doc = doc
<1>1. doc.decisions \in Seq(Nat)
  BY DEF Doc
<1>2. docRow' = [rev |-> docRow.rev + 1, doc |-> doc] /\ docRow.rev + 1 \in Nat
  BY TableTypes DEF WriteDoc
<1>3. history' \in Seq(Nat)
  BY <1>1, TableTypes DEF WriteDoc
<1>4. QED
  BY <1>2, <1>3

\* The outcomes of saving a document: it is written; it is refused, as a conflict
\* only if the revision is another one; or the database fails.
SaveDocEnds(t, doc, evict, next, x) ==
  \/ /\ Storable(doc) /\ WriteDoc(doc) /\ faults' = faults /\ svc' = svc
     /\ x = [next EXCEPT !.learn = docRow.rev + 1]
  \/ /\ ~Storable(doc) /\ UNCHANGED store /\ faults' = faults
     /\ x = Failed(t)
     /\ svc'.cache = IF (evict /\ svc.known # docRow.rev) \/ Rescued(t) THEN 0 ELSE svc.cache
     /\ svc'.queue = svc.queue /\ (svc'.jobs <=> svc.jobs /\ th[t].op # "rescue")
  \/ /\ faults' = faults + 1 /\ x = Failed(t)
     /\ UNCHANGED store \/ (Storable(doc) /\ WriteDoc(doc))
     /\ svc'.cache = IF Rescued(t) THEN 0 ELSE svc.cache
     /\ svc'.queue = svc.queue /\ (svc'.jobs <=> svc.jobs /\ th[t].op # "rescue")

\* A save of a document succeeds, is refused, or fails (Orchestrator._save).
LEMMA SaveDocCases ==
  ASSUME TypeOK, NEW t \in Threads, NEW doc \in Doc, NEW evict \in BOOLEAN,
         NEW next \in Thread, SaveDoc(t, doc, evict, next)
  PROVE  /\ svc' \in Service(Len(objs)) /\ faults' \in Nat
         /\ docRow' \in [rev : Nat, doc : Doc] /\ history' \in Seq(Nat)
         /\ \E x \in Thread :
              /\ Becomes(t, x) /\ SaveDocEnds(t, doc, evict, next, x)
              /\ \/ x.pc = next.pc /\ x.obj = next.obj /\ x.op = next.op
                    /\ x.rec = next.rec /\ x.doc = next.doc /\ x.job = next.job
                 \/ x = Failed(t)
<1>1. docRow.rev \in Nat /\ docRow.rev + 1 \in Nat /\ faults \in Nat
  BY TableTypes
<1>2. ASSUME UNCHANGED store
      PROVE  docRow' \in [rev : Nat, doc : Doc] /\ history' \in Seq(Nat)
  BY <1>2 DEF store, TypeOK
<1>3. CASE /\ Storable(doc) /\ WriteDoc(doc)
           /\ Becomes(t, [next EXCEPT !.learn = docRow.rev + 1])
           /\ UNCHANGED <<svc, faults>>
  <2> DEFINE x == [next EXCEPT !.learn = docRow.rev + 1]
  <2>1. /\ x \in Thread /\ x.pc = next.pc /\ x.obj = next.obj /\ x.op = next.op
        /\ x.rec = next.rec /\ x.doc = next.doc /\ x.job = next.job
    BY <1>1, LearnTypes
  <2>2. SaveDocEnds(t, doc, evict, next, x)
    BY <1>3 DEF SaveDocEnds
  <2>3. svc' \in Service(Len(objs)) /\ faults' \in Nat
    BY <1>3, <1>1, ServiceTypes
  <2>4. Becomes(t, x)
    BY <1>3
  <2> HIDE DEF x
  <2>5. QED
    BY <1>3, <2>1, <2>2, <2>3, <2>4, WriteTypes
<1>4. CASE /\ ~Storable(doc)
           /\ Raise(t, evict /\ svc.known # docRow.rev)
           /\ UNCHANGED <<store, faults>>
  <2>1. Becomes(t, Failed(t)) /\ Failed(t) \in Thread
    BY <1>4, FailedTypes DEF Raise
  <2>2. (evict /\ svc.known # docRow.rev) \in BOOLEAN
    OBVIOUS
  <2>3. /\ svc' \in Service(Len(objs))
        /\ svc'.cache = IF (evict /\ svc.known # docRow.rev) \/ Rescued(t) THEN 0 ELSE svc.cache
        /\ svc'.queue = svc.queue /\ (svc'.jobs <=> svc.jobs /\ th[t].op # "rescue")
    <3>1. svc' = Dropped(t, evict /\ svc.known # docRow.rev)
      BY <1>4 DEF Raise
    <3>2. QED
      BY <2>2, <3>1, DroppedTypes
  <2>4. SaveDocEnds(t, doc, evict, next, Failed(t))
    BY <1>4, <2>3 DEF SaveDocEnds
  <2>5. QED
    BY <1>1, <1>2, <1>4, <2>1, <2>3, <2>4
<1>5. CASE /\ faults' = faults + 1
           /\ Fails(t)
           /\ \/ svc' = Dropped(t, FALSE) /\ UNCHANGED store
              \/ /\ Storable(doc) /\ WriteDoc(doc)
                 /\ svc' = [Dropped(t, FALSE) EXCEPT !.known = docRow.rev + 1]
  <2>1. Becomes(t, Failed(t)) /\ Failed(t) \in Thread
    BY <1>5, FailedTypes
  <2>2. /\ svc' \in Service(Len(objs))
        /\ svc'.cache = IF Rescued(t) THEN 0 ELSE svc.cache
        /\ svc'.queue = svc.queue
        /\ svc'.jobs <=> (svc.jobs /\ th[t].op # "rescue")
    <3> DEFINE s == Dropped(t, FALSE)
    <3>1. /\ s \in Service(Len(objs)) /\ s.cache = IF Rescued(t) THEN 0 ELSE svc.cache
          /\ s.queue = svc.queue
          /\ s.jobs <=> (svc.jobs /\ th[t].op # "rescue")
      BY DroppedTypes
    <3>2. LET u == [s EXCEPT !.known = docRow.rev + 1] IN
          /\ u \in Service(Len(objs)) /\ u.cache = s.cache /\ u.queue = s.queue /\ u.jobs = s.jobs
      BY <1>1, DroppedTypes
    <3> HIDE DEF s
    <3>3. svc' = s \/ svc' = [s EXCEPT !.known = docRow.rev + 1]
      BY <1>5 DEF s
    <3>4. QED
      BY <3>1, <3>2, <3>3
  <2>3. faults' = faults + 1 /\ (UNCHANGED store \/ (Storable(doc) /\ WriteDoc(doc)))
    BY <1>5, Zenon
  <2>4. SaveDocEnds(t, doc, evict, next, Failed(t))
    BY <2>2, <2>3 DEF SaveDocEnds
  <2>5. docRow' \in [rev : Nat, doc : Doc] /\ history' \in Seq(Nat)
    BY <1>2, <1>5, WriteTypes
  <2>6. faults' \in Nat
    BY <1>1, <1>5
  <2>7. QED
    BY <2>1, <2>2, <2>4, <2>5, <2>6
<1>6. QED
  BY <1>3, <1>4, <1>5, Zenon DEF SaveDoc

\* The outcomes of saving the campaign record.
SaveRecordEnds(t, rec, next, service, x) ==
  \/ /\ recRow.rev = rec.rev /\ recRow' = Newer(rec) /\ faults' = faults
     /\ objs' = [objs EXCEPT ![th[t].obj].rec = Newer(rec)]
     /\ x = next /\ svc' = service
  \/ /\ recRow.rev # rec.rev /\ recRow' = recRow /\ faults' = faults
     /\ objs' = [objs EXCEPT ![th[t].obj].rec = rec]
     /\ x = Failed(t) /\ svc'.cache = 0
  \/ /\ faults' = faults + 1
     /\ recRow' = recRow \/ (recRow.rev = rec.rev /\ recRow' = Newer(rec))
     /\ objs' = [objs EXCEPT ![th[t].obj].rec = rec]
     /\ x = Failed(t) /\ svc'.cache \in {0, svc.cache}

\* A save of a record succeeds, is refused, or fails (_save_record).
LEMMA SaveRecordCases ==
  ASSUME TypeOK, NEW t \in Threads, th[t].pc \notin Building \union {"idle"},
         NEW rec \in Record, NEW next \in Thread, NEW service \in Service(Len(objs)),
         SaveRecord(t, rec, next, service)
  PROVE  /\ svc' \in Service(Len(objs)) /\ faults' \in Nat /\ recRow' \in Record
         /\ objs' \in Seq(Object) /\ Len(objs') = Len(objs)
         /\ \E x \in Thread : /\ Becomes(t, x) /\ x \in {next, Failed(t)}
                              /\ SaveRecordEnds(t, rec, next, service, x)
<1> DEFINE o == th[t].obj
<1>1. o \in 1 .. Len(objs) /\ Newer(rec) \in Record /\ faults \in Nat /\ recRow \in Record
  BY MineTypes, RecordTypes, TableTypes
<1>2. \A r \in Record : /\ [objs EXCEPT ![o].rec = r] \in Seq(Object)
                        /\ Len([objs EXCEPT ![o].rec = r]) = Len(objs)
  BY <1>1, ObjectChanges
<1>3. CASE /\ recRow.rev = rec.rev /\ recRow' = Newer(rec)
           /\ objs' = [objs EXCEPT ![o].rec = Newer(rec)]
           /\ Becomes(t, next) /\ svc' = service /\ UNCHANGED faults
  <2>1. SaveRecordEnds(t, rec, next, service, next)
    BY <1>3 DEF SaveRecordEnds
  <2>2. objs' \in Seq(Object) /\ Len(objs') = Len(objs)
    BY <1>1, <1>2, <1>3
  <2>3. QED
    BY <1>1, <1>3, <2>1, <2>2
<1>4. CASE /\ recRow.rev # rec.rev /\ objs' = [objs EXCEPT ![o].rec = rec]
           /\ Raise(t, TRUE) /\ UNCHANGED <<recRow, faults>>
  <2>1. Becomes(t, Failed(t)) /\ Failed(t) \in Thread /\ svc' = Dropped(t, TRUE)
    BY <1>4, FailedTypes DEF Raise
  <2>2. svc' \in Service(Len(objs)) /\ svc'.cache = 0
    BY <2>1, DroppedTypes
  <2>3. SaveRecordEnds(t, rec, next, service, Failed(t))
    BY <1>4, <2>2 DEF SaveRecordEnds
  <2>4. objs' \in Seq(Object) /\ Len(objs') = Len(objs)
    BY <1>2, <1>4
  <2>5. QED
    BY <1>1, <1>4, <2>1, <2>2, <2>3, <2>4
<1>5. CASE /\ faults' = faults + 1 /\ objs' = [objs EXCEPT ![o].rec = rec]
           /\ Raise(t, FALSE)
           /\ recRow' \in {recRow} \union (IF recRow.rev = rec.rev THEN {Newer(rec)} ELSE {})
  <2>1. Becomes(t, Failed(t)) /\ Failed(t) \in Thread /\ svc' = Dropped(t, FALSE)
    BY <1>5, FailedTypes DEF Raise
  <2>2. svc' \in Service(Len(objs)) /\ svc'.cache \in {0, svc.cache}
    BY <2>1, DroppedTypes
  <2>3. recRow' = recRow \/ (recRow.rev = rec.rev /\ recRow' = Newer(rec))
    BY <1>5
  <2>4. SaveRecordEnds(t, rec, next, service, Failed(t))
    BY <1>5, <2>2, <2>3 DEF SaveRecordEnds
  <2>5. objs' \in Seq(Object) /\ Len(objs') = Len(objs)
    BY <1>2, <1>5
  <2>6. faults' \in Nat /\ recRow' \in Record
    BY <1>1, <1>5, <2>3
  <2>7. QED
    BY <2>1, <2>2, <2>4, <2>5, <2>6
<1>6. QED
  BY <1>3, <1>4, <1>5, Zenon DEF SaveRecord

\* get, as far as the thread that calls it.
LEMMA EnterTypes ==
  ASSUME TypeOK, NEW op \in AllOps \union {"none", "job", "rescue"}, NEW job \in Nat
  PROVE  /\ Placed(Enter(op, job), Len(objs))
         /\ Enter(op, job).pc \in Starts \union {"got"}
         /\ Enter(op, job).pc = "got" => Enter(op, job).obj = svc.cache /\ svc.cache # 0
         /\ Enter(op, job) = Idle
            \/ (Enter(op, job).op = op /\ Enter(op, job).job = job)
<1> DEFINE lookup == [Idle EXCEPT !.op = op, !.job = job, !.pc = "lookup"]
           got == [Idle EXCEPT !.op = op, !.job = job, !.obj = svc.cache, !.pc = "got"]
<1>1. svc.cache \in Nat /\ (svc.cache # 0 => svc.cache \in 1 .. Len(objs))
  BY ServiceTypes, ObjectTypes
<1>2. /\ lookup \in Thread /\ lookup.pc = "lookup" /\ lookup.op = op /\ lookup.job = job
  BY StartTypes DEF Thread, Places
<1>3. /\ got \in Thread /\ got.pc = "got" /\ got.op = op /\ got.job = job
      /\ got.obj = svc.cache
  BY <1>1, StartTypes DEF Thread, Places
<1>4. Enter(op, job) \in {lookup, Idle} \/ (Enter(op, job) = got /\ svc.cache # 0)
  BY DEF Enter
<1> HIDE DEF lookup, got
<1>5. CASE Enter(op, job) \in {lookup, Idle}
  BY <1>2, <1>5, StartTypes DEF Placed, Starts, Building
<1>6. CASE Enter(op, job) = got /\ svc.cache # 0
  BY <1>1, <1>3, <1>6 DEF Placed
<1>7. QED
  BY <1>4, <1>5, <1>6

\* Where a step leaves the thread that took it.
LEMMA AfterTypes ==
  ASSUME TypeOK, NEW t \in Threads, NEW progressed \in BOOLEAN, NEW next \in After(t, progressed)
  PROVE  /\ next \in Thread /\ next.pc \in {"noting", "looping", "again"}
         /\ next = Reports \/ (/\ next.obj = th[t].obj /\ next.op = th[t].op
                               /\ next.job = th[t].job /\ next.pc # "again")
         /\ th[t].op = "job" => next.op = "job" /\ next.pc = "noting"
         /\ next.op \in {"report", th[t].op}
<1>1. next \in {Go(t, "noting"), Go(t, "looping"), Reports}
  BY DEF After
<1>2. th[t].op = "job" => next = Go(t, "noting")
  BY DEF After
<1>3. "noting" \in Places /\ "looping" \in Places
  BY DEF Places
<1>4. /\ Go(t, "noting") \in Thread /\ Go(t, "noting").pc = "noting"
      /\ Go(t, "noting").obj = th[t].obj /\ Go(t, "noting").op = th[t].op
      /\ Go(t, "noting").job = th[t].job
  BY <1>3, GoTypes
<1>5. /\ Go(t, "looping") \in Thread /\ Go(t, "looping").pc = "looping"
      /\ Go(t, "looping").obj = th[t].obj /\ Go(t, "looping").op = th[t].op
      /\ Go(t, "looping").job = th[t].job
  BY <1>3, GoTypes
<1>6. QED
  BY <1>1, <1>2, <1>4, <1>5, StartTypes

\* A step finds the research stopped, or saves a document: of a step that ends,
\* or of one that starts a round.
LEMMA StepCases ==
  ASSUME TypeOK, NEW t \in Threads, th[t].pc \notin Building \union {"idle"}, StepLocked(t)
  PROVE  /\ recRow' = recRow /\ paused' = paused /\ calls' = calls /\ crashes' = crashes
         /\ rounds' = IF th'[t].pc = "round" THEN rounds + 1 ELSE rounds
         /\ \/ /\ Mine(t).doc.state \in Stops
               /\ UNCHANGED <<docRow, history, svc, objs, made, faults>>
               /\ \E next \in After(t, FALSE) : Becomes(t, next)
            \/ \E d \in Doc, next \in Thread :
                 /\ made' \in {made, made + 1} /\ Mine(t).doc.state \notin Stops
                 /\ Advance(t, d, TRUE, next)
                 /\ \/ d.state # "executing" /\ next \in After(t, FALSE)
                    \/ /\ d = [Mine(t).doc EXCEPT !.state = "executing"]
                       /\ next = Go(t, "round")
<1>1. Mine(t).doc \in Doc
  BY MineTypes
<1>2. {"executing", "done"} \subseteq DocStates /\ PlannerStops \subseteq DocStates \ {"executing"}
  BY DEF DocStates
<1>3. Go(t, "round") \in Thread
  <2>1. "round" \in Places
    BY DEF Places
  <2>2. QED
    BY <2>1, GoTypes
<1>4. \A next \in After(t, FALSE) : next \in Thread
  BY AfterTypes
<1>5. made \in Nat
  BY TableTypes
<1>6. /\ recRow' = recRow /\ paused' = paused /\ calls' = calls /\ crashes' = crashes
      /\ rounds' = IF th'[t].pc = "round" THEN rounds + 1 ELSE rounds
  BY DEF StepLocked, counters
<1>7. CASE /\ Mine(t).doc.state \in Stops
           /\ \E next \in After(t, FALSE) : Becomes(t, next)
           /\ UNCHANGED <<store, svc, objs, made, faults>>
  BY <1>6, <1>7 DEF store
<1>8. CASE /\ Mine(t).doc.state = "executing"
           /\ \E next \in After(t, FALSE) :
                Advance(t, [Mine(t).doc EXCEPT !.state = "done"], TRUE, next)
           /\ UNCHANGED made
  <2> DEFINE d == [Mine(t).doc EXCEPT !.state = "done"]
  <2>1. d \in Doc /\ d.state # "executing"
    BY <1>1, <1>2, <1>5, DocTypes
  <2>2. PICK next \in After(t, FALSE) : Advance(t, d, TRUE, next)
    BY <1>8
  <2>3. Mine(t).doc.state \notin Stops
    BY <1>8 DEF Stops
  <2> HIDE DEF d
  <2>4. QED
    BY <1>4, <1>6, <1>8, <2>1, <2>2, <2>3
<1>9. CASE /\ Mine(t).doc.state = "ready"
           /\ made' = made + 1
           /\ \E state \in PlannerStops, next \in After(t, FALSE) :
                Advance(t, Decided(Mine(t).doc, state), TRUE, next)
  <2>1. PICK state \in PlannerStops, next \in After(t, FALSE) :
          Advance(t, Decided(Mine(t).doc, state), TRUE, next)
    BY <1>9
  <2> DEFINE d == Decided(Mine(t).doc, state)
  <2>2. d \in Doc /\ d.state # "executing"
    <3>1. state \in DocStates /\ state # "executing"
      BY <1>2
    <3>2. Decided(Mine(t).doc, state) \in Doc /\ Decided(Mine(t).doc, state).state = state
      BY <1>1, <1>5, <3>1, DecidedTypes
    <3>3. QED
      BY <3>1, <3>2
  <2>3. Mine(t).doc.state \notin Stops
    BY <1>9 DEF Stops
  <2>4. Advance(t, d, TRUE, next)
    BY <2>1
  <2> HIDE DEF d
  <2>5. QED
    BY <1>4, <1>6, <1>9, <2>2, <2>3, <2>4
<1>10. CASE /\ Mine(t).doc.state = "ready" /\ rounds < MaxRounds
            /\ Advance(t, [Mine(t).doc EXCEPT !.state = "executing"], TRUE, Go(t, "round"))
            /\ UNCHANGED made
  <2> DEFINE d == [Mine(t).doc EXCEPT !.state = "executing"]
             next == Go(t, "round")
  <2>1. d \in Doc
    BY <1>1, <1>2, <1>5, DocTypes
  <2>2. Mine(t).doc.state \notin Stops
    BY <1>10 DEF Stops
  <2>3. Advance(t, d, TRUE, next) /\ next \in Thread /\ made' = made
    BY <1>3, <1>10
  <2>4. d = [Mine(t).doc EXCEPT !.state = "executing"] /\ next = Go(t, "round")
    OBVIOUS
  <2> HIDE DEF d, next
  <2>5. QED
    BY <1>6, <2>1, <2>2, <2>3, <2>4
<1>11. QED
  BY <1>7, <1>8, <1>9, <1>10, Zenon DEF StepLocked

-----------------------------------------------------------------------------
(* Type correctness, and at most one thread holds the lock of an object *)

\* A lock has one holder.
OneHolder ==
  \A t, u \in Threads :
    th[t].pc \in Holding /\ th[u].pc \in Holding /\ th[t].obj = th[u].obj => t = u

\* A thread that goes on as x keeps the lock it holds, or takes a free one.
Locks(t, x) ==
  x.pc \in Holding =>
    x.obj = th[t].obj /\ (th[t].pc \in Holding \/ Free(th[t].obj))

CountersTyped ==
  /\ made \in Nat /\ rounds \in Nat /\ paused \in BOOLEAN
  /\ calls \in Nat /\ faults \in Nat /\ crashes \in Nat

\* What a thread's step leaves is well typed, and it respects the locks.
StepOK(t) ==
  /\ docRow' \in [rev : Nat, doc : Doc] /\ history' \in Seq(Nat) /\ recRow' \in Record
  /\ svc' \in Service(Len(objs')) /\ objs' \in Seq(Object) /\ Len(objs) <= Len(objs')
  /\ CountersTyped'
  /\ \E x \in Thread : Becomes(t, x) /\ Placed(x, Len(objs')) /\ Locks(t, x)

\* A step that is well typed and respects the locks keeps the type invariant.
LEMMA StepTypes ==
  ASSUME TypeOK, OneHolder, NEW t \in Threads, StepOK(t)
  PROVE  TypeOK' /\ OneHolder'
<1>1. PICK x \in Thread : Becomes(t, x) /\ Placed(x, Len(objs')) /\ Locks(t, x)
  BY DEF StepOK
<1>2. /\ th' \in [Threads -> Thread] /\ th'[t] = x
      /\ \A u \in Threads : u # t => th'[u] = th[u]
  BY <1>1 DEF Becomes, TypeOK
<1>3. Len(objs) \in Nat /\ Len(objs') \in Nat /\ DOMAIN objs' = 1 .. Len(objs')
  <2>1. objs' \in Seq(Object)
    BY DEF StepOK
  <2>2. QED
    BY <2>1, ObjectTypes, LenProperties
<1>4. ASSUME NEW u \in Threads, th'[u].pc \notin Building \union {"idle"}
      PROVE  th'[u].obj \in DOMAIN objs'
  <2>1. CASE u = t
    BY <1>1, <1>2, <1>3, <1>4, <2>1 DEF Placed
  <2>2. CASE u # t
    <3>1. th[u].obj \in 1 .. Len(objs)
      BY <1>2, <1>4, <2>2, ThreadTypes DEF Placed
    <3>2. Len(objs) <= Len(objs')
      BY DEF StepOK
    <3>3. QED
      BY <1>2, <1>3, <2>2, <3>1, <3>2
  <2>3. QED
    BY <2>1, <2>2
<1>5. TypeOK'
  <2>1. /\ docRow' \in [rev : Nat, doc : Doc] /\ history' \in Seq(Nat) /\ recRow' \in Record
        /\ svc' \in Service(Len(objs')) /\ objs' \in Seq(Object) /\ CountersTyped'
    BY DEF StepOK
  <2>2. QED
    BY <1>2, <1>4, <2>1 DEF TypeOK, Service, CountersTyped
<1>6. OneHolder'
  <2> SUFFICES ASSUME NEW u \in Threads, NEW v \in Threads,
                      th'[u].pc \in Holding, th'[v].pc \in Holding, th'[u].obj = th'[v].obj
               PROVE  u = v
    BY DEF OneHolder
  <2>1. ASSUME NEW w \in Threads, w # t, th[w].pc \in Holding, x.pc \in Holding,
               th[w].obj = x.obj
        PROVE  FALSE
    BY <1>1, <2>1 DEF Locks, Free, OneHolder
  <2>2. QED
    BY <1>2, <2>1 DEF OneHolder
<1>7. QED
  BY <1>5, <1>6

\* A step that leaves the tables and the objects alone.
LEMMA QuietOK ==
  ASSUME TypeOK, NEW t \in Threads, NEW x \in Thread,
         UNCHANGED <<docRow, history, recRow, objs>>,
         svc' \in Service(Len(objs)), CountersTyped',
         Becomes(t, x), Placed(x, Len(objs)), Locks(t, x)
  PROVE  StepOK(t)
<1>1. docRow' \in [rev : Nat, doc : Doc] /\ history' \in Seq(Nat) /\ recRow' \in Record
  BY DEF TypeOK
<1>2. objs' \in Seq(Object) /\ Len(objs') = Len(objs) /\ Len(objs) \in Nat
  BY ObjectTypes DEF TypeOK
<1>3. svc' \in Service(Len(objs'))
  BY <1>2
<1>4. Len(objs) <= Len(objs')
  BY <1>2
<1>5. Placed(x, Len(objs'))
  BY <1>2
<1>6. QED
  BY <1>1, <1>2, <1>3, <1>4, <1>5 DEF StepOK

\* A thread that starts again, or fails, is in nobody's way.
LEMMA StartOK ==
  ASSUME NEW t \in Threads, NEW x \in Thread, x.pc \in Starts, NEW n
  PROVE  Placed(x, n) /\ Locks(t, x)
  BY StartTypes DEF Placed, Locks

\* Counters that do not change stay numbers.
LEMMA QuietCounters ==
  ASSUME TypeOK, UNCHANGED <<made, rounds, paused, calls, faults, crashes>>
  PROVE  CountersTyped'
  BY DEF TypeOK, CountersTyped

\* After a save the thread goes on, or has failed.
LEMMA SaveDocMoves ==
  ASSUME TypeOK, NEW t \in Threads, NEW d \in Doc, NEW evict \in BOOLEAN, NEW next \in Thread,
         SaveDoc(t, d, evict, next)
  PROVE  \E x \in Thread :
           Becomes(t, x) /\ ((x.pc = next.pc /\ x.obj = next.obj) \/ x = Failed(t))
  BY SaveDocCases

\* A step that saves a document it has put into its object, or not (start).
LEMMA SaveDocOK ==
  ASSUME TypeOK, NEW t \in Threads, NEW d \in Doc, NEW evict \in BOOLEAN, NEW next \in Thread,
         SaveDoc(t, d, evict, next),
         Placed(next, Len(objs)), Locks(t, next),
         recRow' = recRow, objs' \in Seq(Object), Len(objs') = Len(objs),
         made' \in Nat, rounds' \in Nat, paused' \in BOOLEAN, UNCHANGED <<calls, crashes>>
  PROVE  StepOK(t)
<1>1. PICK x \in Thread :
        /\ Becomes(t, x)
        /\ (x.pc = next.pc /\ x.obj = next.obj) \/ x = Failed(t)
  BY SaveDocMoves
<1>2. Placed(x, Len(objs)) /\ Locks(t, x)
  <2>1. CASE x.pc = next.pc /\ x.obj = next.obj
    BY <2>1 DEF Placed, Locks
  <2>2. CASE x = Failed(t)
    BY <2>2, FailedTypes, StartOK
  <2>3. QED
    BY <1>1, <2>1, <2>2
<1>3. /\ svc' \in Service(Len(objs)) /\ faults' \in Nat
      /\ docRow' \in [rev : Nat, doc : Doc] /\ history' \in Seq(Nat)
  BY SaveDocCases
<1>4. CountersTyped'
  BY <1>3, TableTypes DEF CountersTyped
<1>5. Len(objs) \in Nat /\ recRow' \in Record
  BY ObjectTypes, TableTypes
<1>6. QED
  BY <1>1, <1>2, <1>3, <1>4, <1>5 DEF StepOK

\* Changing and saving a document is well typed.
LEMMA AdvanceOK ==
  ASSUME TypeOK, NEW t \in Threads, th[t].pc \notin Building \union {"idle"},
         NEW d \in Doc, NEW evict \in BOOLEAN, NEW next \in Thread,
         Advance(t, d, evict, next), Placed(next, Len(objs)), Locks(t, next),
         recRow' = recRow, made' \in Nat, rounds' \in Nat, paused' \in BOOLEAN,
         UNCHANGED <<calls, crashes>>
  PROVE  StepOK(t)
<1>1. objs' \in Seq(Object) /\ Len(objs') = Len(objs)
  BY MineTypes, ObjectChanges DEF Advance
<1>2. SaveDoc(t, d, evict, next)
  BY DEF Advance
<1>3. QED
  BY <1>1, <1>2, SaveDocOK

\* A step that saves the record.
LEMMA SaveRecordOK ==
  ASSUME TypeOK, NEW t \in Threads, th[t].pc \notin Building \union {"idle"},
         NEW rec \in Record, NEW next \in Thread, NEW service \in Service(Len(objs)),
         SaveRecord(t, rec, next, service),
         Placed(next, Len(objs)), Locks(t, next),
         UNCHANGED <<docRow, history>>,
         made' \in Nat, rounds' \in Nat, paused' \in BOOLEAN, UNCHANGED <<calls, crashes>>
  PROVE  StepOK(t)
<1>1. PICK x \in Thread : Becomes(t, x) /\ x \in {next, Failed(t)}
  BY SaveRecordCases
<1>2. Placed(x, Len(objs)) /\ Locks(t, x)
  BY <1>1, FailedTypes, StartOK
<1>3. /\ svc' \in Service(Len(objs)) /\ faults' \in Nat /\ recRow' \in Record
      /\ objs' \in Seq(Object) /\ Len(objs') = Len(objs)
  BY SaveRecordCases
<1>4. CountersTyped'
  BY <1>3, TableTypes DEF CountersTyped
<1>5. Len(objs) \in Nat /\ docRow' \in [rev : Nat, doc : Doc] /\ history' \in Seq(Nat)
  BY ObjectTypes DEF TypeOK
<1>6. QED
  BY <1>1, <1>2, <1>3, <1>4, <1>5 DEF StepOK

\* What a request or a worker changes in the service's maps.
LEMMA ServiceChanges ==
  ASSUME TypeOK
  PROVE  /\ \A b \in BOOLEAN :
              /\ [svc EXCEPT !.halt = b] \in Service(Len(objs))
              /\ [svc EXCEPT !.halt = b].cache = svc.cache
              /\ [svc EXCEPT !.halt = b].queue = svc.queue
              /\ [svc EXCEPT !.halt = b].jobs <=> svc.jobs
         /\ \A b \in BOOLEAN :
              /\ [svc EXCEPT !.jobs = b] \in Service(Len(objs))
              /\ [svc EXCEPT !.jobs = b].cache = svc.cache
              /\ [svc EXCEPT !.jobs = b].queue = svc.queue
              /\ [svc EXCEPT !.jobs = b].jobs <=> b
         /\ \A n \in Nat :
              /\ [svc EXCEPT !.known = n] \in Service(Len(objs))
              /\ [svc EXCEPT !.known = n].cache = svc.cache
              /\ [svc EXCEPT !.known = n].queue = svc.queue
              /\ [svc EXCEPT !.known = n].jobs <=> svc.jobs
         /\ \A q \in Seq(Nat) :
              /\ [svc EXCEPT !.queue = q] \in Service(Len(objs))
              /\ [svc EXCEPT !.queue = q].cache = svc.cache
              /\ [svc EXCEPT !.queue = q].queue = q
              /\ [svc EXCEPT !.queue = q].jobs <=> svc.jobs
<1>1. svc \in Service(Len(objs))
  BY ServiceTypes
<1>2. ASSUME NEW b \in BOOLEAN
      PROVE  /\ [svc EXCEPT !.halt = b] \in Service(Len(objs))
             /\ [svc EXCEPT !.halt = b].cache = svc.cache
             /\ [svc EXCEPT !.halt = b].queue = svc.queue
             /\ [svc EXCEPT !.halt = b].jobs <=> svc.jobs
  BY <1>1 DEF Service
<1>3. ASSUME NEW b \in BOOLEAN
      PROVE  /\ [svc EXCEPT !.jobs = b] \in Service(Len(objs))
             /\ [svc EXCEPT !.jobs = b].cache = svc.cache
             /\ [svc EXCEPT !.jobs = b].queue = svc.queue
             /\ [svc EXCEPT !.jobs = b].jobs <=> b
  BY <1>1 DEF Service
<1>4. ASSUME NEW n \in Nat
      PROVE  /\ [svc EXCEPT !.known = n] \in Service(Len(objs))
             /\ [svc EXCEPT !.known = n].cache = svc.cache
             /\ [svc EXCEPT !.known = n].queue = svc.queue
             /\ [svc EXCEPT !.known = n].jobs <=> svc.jobs
  BY <1>1 DEF Service
<1>5. ASSUME NEW q \in Seq(Nat)
      PROVE  /\ [svc EXCEPT !.queue = q] \in Service(Len(objs))
             /\ [svc EXCEPT !.queue = q].cache = svc.cache
             /\ [svc EXCEPT !.queue = q].queue = q
             /\ [svc EXCEPT !.queue = q].jobs <=> svc.jobs
  BY <1>1 DEF Service
<1>6. QED
  BY <1>2, <1>3, <1>4, <1>5

\* A thread that goes to another place with the object it has.
LEMMA GoOK ==
  ASSUME TypeOK, NEW t \in Threads, NEW pc \in Places,
         th[t].pc \notin Building \union {"idle"} \/ pc \in Building \union {"idle"},
         pc \in Holding => th[t].pc \in Holding \/ Free(th[t].obj)
  PROVE  /\ Go(t, pc) \in Thread /\ Placed(Go(t, pc), Len(objs)) /\ Locks(t, Go(t, pc))
         /\ \A out \in {"completed", "halted"} :
              LET x == [Go(t, pc) EXCEPT !.out = out] IN
              x \in Thread /\ Placed(x, Len(objs)) /\ Locks(t, x)
<1>1. /\ Go(t, pc) \in Thread /\ Go(t, pc).pc = pc /\ Go(t, pc).obj = th[t].obj
      /\ \A out \in {"completed", "halted"} :
           /\ [Go(t, pc) EXCEPT !.out = out] \in Thread
           /\ [Go(t, pc) EXCEPT !.out = out].pc = pc
           /\ [Go(t, pc) EXCEPT !.out = out].obj = th[t].obj
  BY GoTypes
<1>2. th[t].pc \notin Building \union {"idle"} => th[t].obj \in 1 .. Len(objs)
  BY MineTypes
<1>3. \A x \in Thread : x.pc = pc /\ x.obj = th[t].obj =>
        Placed(x, Len(objs)) /\ Locks(t, x)
  BY <1>2 DEF Placed, Locks
<1>4. QED
  BY <1>1, <1>3

\* get starts where its thread may be.
LEMMA EnterOK ==
  ASSUME TypeOK, NEW t \in Threads, NEW op \in AllOps \union {"none", "job", "rescue"}, NEW job \in Nat
  PROVE  /\ Enter(op, job) \in Thread /\ Placed(Enter(op, job), Len(objs))
         /\ Locks(t, Enter(op, job))
<1>1. Placed(Enter(op, job), Len(objs)) /\ Enter(op, job).pc \in Starts \union {"got"}
  BY EnterTypes
<1>2. QED
  BY <1>1, StartTypes DEF Locks, Placed, Holding

\* A request that begins is well typed.
LEMMA BeginOK ==
  ASSUME TypeOK, NEW t \in Threads, Begin(t)
  PROVE  StepOK(t)
<1>1. PICK op \in Ops : Becomes(t, Enter(op, 0))
  BY DEF Begin
<1>2. /\ UNCHANGED <<docRow, history, recRow, objs, svc, made, rounds, paused, faults, crashes>>
      /\ calls' = calls + 1
  BY DEF Begin, store
<1>3. CountersTyped'
  BY <1>2, TableTypes DEF CountersTyped
<1>4. op \in AllOps
  BY DEF CampaignAssumption
<1>5. /\ Enter(op, 0) \in Thread /\ Placed(Enter(op, 0), Len(objs)) /\ Locks(t, Enter(op, 0))
  BY <1>4, EnterOK
<1>6. svc' \in Service(Len(objs))
  BY <1>2, ServiceTypes
<1>7. QED
  BY <1>1, <1>2, <1>3, <1>5, <1>6, QuietOK

\* The executor's queue without its first job.
LEMMA QueueTypes ==
  ASSUME TypeOK, svc.queue # <<>>
  PROVE  /\ Head(svc.queue) \in Nat /\ Tail(svc.queue) \in Seq(Nat)
         /\ Len(Tail(svc.queue)) = Len(svc.queue) - 1
         /\ Len(svc.queue) \in Nat /\ Len(svc.queue) > 0
<1>1. svc.queue \in Seq(Nat)
  BY ServiceTypes
<1>2. QED
  BY <1>1, HeadTailProperties, EmptySeq

\* A worker that takes a job is well typed.
LEMMA TakeJobOK ==
  ASSUME TypeOK, NEW w \in Threads, TakeJob(w)
  PROVE  StepOK(w)
<1>1. /\ Becomes(w, Enter("job", Head(svc.queue))) /\ svc.queue # <<>>
      /\ svc' = [svc EXCEPT !.queue = Tail(svc.queue)]
      /\ UNCHANGED <<docRow, history, recRow, objs>>
      /\ UNCHANGED <<made, rounds, paused, calls, faults, crashes>>
  BY DEF TakeJob, store, counters
<1>2. Head(svc.queue) \in Nat /\ Tail(svc.queue) \in Seq(Nat)
  BY <1>1, QueueTypes
<1>3. svc' \in Service(Len(objs))
  BY <1>1, <1>2, ServiceChanges
<1>4. LET x == Enter("job", Head(svc.queue)) IN
      x \in Thread /\ Placed(x, Len(objs)) /\ Locks(w, x)
  BY <1>2, EnterOK
<1>5. CountersTyped'
  BY <1>1, QuietCounters
<1>6. QED
  BY <1>1, <1>3, <1>4, <1>5, QuietOK

\* A second get is well typed.
LEMMA AgainOK ==
  ASSUME TypeOK, NEW t \in Threads, Again(t)
  PROVE  StepOK(t)
<1>1. /\ Becomes(t, Enter(th[t].op, 0)) /\ svc' = svc
      /\ UNCHANGED <<docRow, history, recRow, objs>>
      /\ UNCHANGED <<made, rounds, paused, calls, faults, crashes>>
  BY DEF Again, store, counters
<1>2. th[t].op \in AllOps \union {"none", "job", "rescue"}
  BY ThreadTypes
<1>3. svc' \in Service(Len(objs))
  BY <1>1, ServiceTypes
<1>4. LET x == Enter(th[t].op, 0) IN
      x \in Thread /\ Placed(x, Len(objs)) /\ Locks(t, x)
  BY <1>2, EnterOK
<1>5. CountersTyped'
  BY <1>1, QuietCounters
<1>6. QED
  BY <1>1, <1>3, <1>4, <1>5, QuietOK

\* The map of revisions stays well typed.
LEMMA LearnOK ==
  ASSUME TypeOK, NEW t \in Threads, Learn(t)
  PROVE  StepOK(t)
<1> DEFINE x == [th[t] EXCEPT !.learn = 0]
<1>1. /\ Becomes(t, x) /\ svc' = [svc EXCEPT !.known = th[t].learn]
      /\ UNCHANGED <<docRow, history, recRow, objs>>
      /\ UNCHANGED <<made, rounds, paused, calls, faults, crashes>>
  BY DEF Learn, store, counters
<1>2. x \in Thread /\ x.pc = th[t].pc /\ x.obj = th[t].obj
  <2>1. th[t] \in Thread
    BY ThreadTypes
  <2>2. QED
    BY SMTT(20), <2>1, LearnTypes
<1>3. Placed(x, Len(objs)) /\ Locks(t, x)
  BY <1>2, ThreadTypes DEF Placed, Locks
<1>4. svc' \in Service(Len(objs))
  BY <1>1, ThreadTypes, ServiceChanges
<1>5. CountersTyped'
  BY <1>1, QuietCounters
<1> HIDE DEF x
<1>6. QED
  BY <1>1, <1>2, <1>3, <1>4, <1>5, QuietOK

\* Reading the record is well typed.
LEMMA ReadRecordOK ==
  ASSUME TypeOK, NEW t \in Threads, ReadRecord(t)
  PROVE  StepOK(t)
<1> DEFINE x == [Go(t, "loading") EXCEPT !.rec = recRow]
<1>1. /\ Becomes(t, x) /\ svc' = svc
      /\ UNCHANGED <<docRow, history, recRow, objs>>
      /\ UNCHANGED <<made, rounds, paused, calls, faults, crashes>>
  BY DEF ReadRecord, store, counters
<1>2. x \in Thread /\ x.pc = "loading"
  <2>1. Go(t, "loading") \in Thread /\ Go(t, "loading").pc = "loading" /\ recRow \in Record
    <3>1. "loading" \in Places
      BY DEF Places
    <3>2. QED
      BY <3>1, GoTypes, TableTypes
  <2>2. QED
    BY <2>1 DEF Thread
<1>3. Placed(x, Len(objs)) /\ Locks(t, x)
  BY <1>2 DEF Placed, Locks, Building, Holding
<1>4. svc' \in Service(Len(objs)) /\ CountersTyped'
  BY <1>1, ServiceTypes, QuietCounters
<1> HIDE DEF x
<1>5. QED
  BY <1>1, <1>2, <1>3, <1>4, QuietOK

\* What a load leaves of the thread.
LEMMA LoadsTypes ==
  ASSUME TypeOK, NEW t \in Threads, NEW doc \in Doc, NEW pc \in Places, Loads(t, doc, pc)
  PROVE  /\ made' \in Nat
         /\ \E x \in Thread : /\ Becomes(t, x) /\ x.pc = pc /\ x.obj = th[t].obj
                              /\ x.op = th[t].op /\ x.doc = doc /\ x.rec = th[t].rec
                              /\ x.job = th[t].job
<1> DEFINE x == [Go(t, pc) EXCEPT !.doc = doc, !.learn = docRow.rev]
<1>1. /\ Go(t, pc) \in Thread /\ Go(t, pc).pc = pc /\ Go(t, pc).obj = th[t].obj
      /\ Go(t, pc).op = th[t].op /\ Go(t, pc).rec = th[t].rec /\ Go(t, pc).job = th[t].job
  BY GoTypes
<1>2. docRow.rev \in Nat
  BY TableTypes
<1>3. /\ x \in Thread /\ x.pc = pc /\ x.obj = th[t].obj
      /\ x.op = th[t].op /\ x.doc = doc /\ x.rec = th[t].rec /\ x.job = th[t].job
  BY <1>1, <1>2 DEF Thread
<1>4. Becomes(t, x)
  BY DEF Loads
<1>5. made' \in Nat
  BY TableTypes DEF Loads
<1> HIDE DEF x
<1>6. QED
  BY <1>3, <1>4, <1>5

\* Loading and restoring the document is well typed.
LEMMA LoadDocOK ==
  ASSUME TypeOK, NEW t \in Threads, LoadDoc(t)
  PROVE  StepOK(t)
<1>1. /\ Loads(t, Restored(docRow.doc), "starting") /\ svc' = svc
      /\ UNCHANGED <<docRow, history, recRow, objs, rounds, paused, calls, faults, crashes>>
  BY DEF LoadDoc, store, counters
<1>2. Restored(docRow.doc) \in Doc
  BY TableTypes, DocTypes
<1>3. "starting" \in Places
  BY DEF Places
<1>4. made' \in Nat /\ \E x \in Thread : Becomes(t, x) /\ x.pc = "starting"
  BY <1>1, <1>2, <1>3, LoadsTypes
<1>5. PICK x \in Thread : Becomes(t, x) /\ x.pc = "starting"
  BY <1>4
<1>6. Placed(x, Len(objs)) /\ Locks(t, x)
  BY <1>5 DEF Placed, Locks, Building, Holding
<1>7. CountersTyped' /\ svc' \in Service(Len(objs))
  BY <1>1, <1>4, TableTypes, ServiceTypes DEF CountersTyped
<1>8. QED
  BY <1>1, <1>5, <1>6, <1>7, QuietOK

-----------------------------------------------------------------------------
(* The kinds of steps *)

\* The places in which a thread has a copy of the campaign record.
Loaded == {"loading", "starting", "built", "registering"}

Notable == Loaded \union {"resaving", "resumerec", "round"}

\* A step that leaves the tables and the objects alone, and neither starts nor
\* ends anything they depend on.
Quiet(t) ==
  /\ UNCHANGED <<docRow, history, recRow, objs, rounds, paused, faults>>
  /\ svc'.cache \in {0, svc.cache}
  /\ \E x \in Thread :
       /\ Becomes(t, x)
       /\ x = [th[t] EXCEPT !.learn = 0] \/ (x.pc \notin Notable /\ th[t].pc # "round")

\* A step that saves the record of a job.
SavesJob(t) ==
  /\ th[t].pc \notin Building \union {"idle", "round"}
  /\ UNCHANGED <<docRow, history, made, rounds, paused, calls, crashes>>
  /\ \E rec \in Record, next \in Thread, service \in Service(Len(objs)) :
       /\ SaveRecord(t, rec, next, service) /\ service.cache = svc.cache
       /\ rec.control = Mine(t).rec.control /\ rec.rev = Mine(t).rec.rev
       /\ next.pc \notin Notable

\* A step that saves a document of the thread's object, and does not resume it.
SavesStep(t) ==
  /\ UNCHANGED <<recRow, paused, calls, crashes>> /\ made' \in Nat
  /\ \E d \in Doc, next \in Thread, evict \in BOOLEAN :
       /\ Advance(t, d, evict, next)
       /\ \/ /\ th[t].pc = "halting" /\ Free(th[t].obj) /\ rounds' = rounds
             /\ d.state # "executing" /\ next.pc \notin Notable
             /\ Mine(t).doc.state \notin {"stopped", "executing"}
          \/ /\ th[t].pc = "round" /\ rounds' = rounds
             /\ d.state # "executing" /\ next.pc \notin Notable /\ evict = TRUE
          \/ /\ th[t].pc \in {"got", "stepping"} /\ Free(th[t].obj)
             /\ Mine(t).rec.control = "active" /\ Mine(t).doc.state \notin Stops /\ evict = TRUE
             /\ \/ d.state # "executing" /\ next.pc \notin Notable /\ rounds' = rounds
                \/ /\ d = [Mine(t).doc EXCEPT !.state = "executing"]
                   /\ next = Go(t, "round")

\* A step that changes only a thread and maps of the service is quiet.
LEMMA QuietSteps ==
  ASSUME TypeOK, NEW t \in Threads,
         Begin(t) \/ TakeJob(t) \/ Again(t) \/ Learn(t)
  PROVE  Quiet(t)
<1>1. UNCHANGED <<docRow, history, recRow, objs, rounds, paused, faults>>
  BY DEF Begin, TakeJob, Again, Learn, store, counters
<1>2. svc'.cache = svc.cache
  <2>1. CASE Begin(t) \/ Again(t)
    BY <2>1 DEF Begin, Again
  <2>2. CASE TakeJob(t)
    <3>1. Tail(svc.queue) \in Seq(Nat) /\ svc' = [svc EXCEPT !.queue = Tail(svc.queue)]
      BY <2>2, QueueTypes DEF TakeJob
    <3>2. QED
      BY <3>1, ServiceChanges
  <2>3. CASE Learn(t)
    <3>1. th[t].learn \in Nat /\ svc' = [svc EXCEPT !.known = th[t].learn]
      BY <2>3, ThreadTypes DEF Learn
    <3>2. QED
      BY <3>1, ServiceChanges
  <2>4. QED
    BY <2>1, <2>2, <2>3
<1>3. \/ /\ th[t].pc # "round"
         /\ \E op \in AllOps \union {"none", "job", "rescue"}, job \in Nat :
              Becomes(t, Enter(op, job))
      \/ Becomes(t, [th[t] EXCEPT !.learn = 0])
  <2>1. CASE Begin(t)
    <3>1. th[t].pc = "idle" /\ \E op \in Ops : Becomes(t, Enter(op, 0))
      BY <2>1, StartTypes DEF Begin
    <3>2. QED
      BY <3>1 DEF CampaignAssumption
  <2>2. CASE TakeJob(t)
    <3>1. th[t].pc = "idle" /\ Head(svc.queue) \in Nat /\ Becomes(t, Enter("job", Head(svc.queue)))
      BY <2>2, StartTypes, QueueTypes DEF TakeJob
    <3>2. QED
      BY <3>1
  <2>3. CASE Again(t)
    <3>1. th[t].pc = "again" /\ Becomes(t, Enter(th[t].op, 0))
      BY <2>3 DEF Again, At
    <3>2. QED
      BY <3>1, ThreadTypes
  <2>4. CASE Learn(t)
    BY <2>4 DEF Learn
  <2>5. QED
    BY <2>1, <2>2, <2>3, <2>4
<1>4. CASE /\ th[t].pc # "round"
           /\ \E op \in AllOps \union {"none", "job", "rescue"}, job \in Nat :
                Becomes(t, Enter(op, job))
  <2>1. PICK op \in AllOps \union {"none", "job", "rescue"}, job \in Nat : Becomes(t, Enter(op, job))
    BY <1>4
  <2>2. Enter(op, job) \in Thread /\ Enter(op, job).pc \notin Notable
    BY EnterTypes DEF Placed, Notable, Loaded, Starts
  <2>3. QED
    BY <1>1, <1>2, <1>4, <2>1, <2>2 DEF Quiet
<1>5. CASE Becomes(t, [th[t] EXCEPT !.learn = 0])
  <2>1. [th[t] EXCEPT !.learn = 0] \in Thread
    BY ThreadTypes, LearnTypes
  <2>2. QED
    BY <1>1, <1>2, <1>5, <2>1 DEF Quiet
<1>6. QED
  BY <1>3, <1>4, <1>5

\* A step of a thread to a place where it has nothing to do with the tables.
LEMMA QuietStep ==
  ASSUME TypeOK, NEW t \in Threads, NEW x \in Thread, Becomes(t, x),
         x.pc \notin Notable, th[t].pc # "round", Placed(x, Len(objs)), Locks(t, x),
         UNCHANGED <<docRow, history, recRow, objs>>,
         UNCHANGED <<made, rounds, paused, calls, faults, crashes>>,
         svc' \in Service(Len(objs)), svc'.cache \in {0, svc.cache}
  PROVE  StepOK(t) /\ Quiet(t)
<1>1. CountersTyped'
  BY QuietCounters
<1>2. StepOK(t)
  BY <1>1, QuietOK
<1>3. Quiet(t)
  BY DEF Quiet
<1>4. QED
  BY <1>2, <1>3

\* A refusal is quiet.
LEMMA RefusedQuiet ==
  ASSUME TypeOK, NEW t \in Threads, Refused(t), th[t].pc # "round"
  PROVE  StepOK(t) /\ Quiet(t)
<1>1. Becomes(t, Idle) /\ UNCHANGED <<docRow, history, recRow, objs, svc>>
      /\ UNCHANGED <<made, rounds, paused, calls, faults, crashes>>
  BY DEF Refused, store, counters
<1>2. Idle \in Thread /\ Idle.pc \notin Notable /\ Placed(Idle, Len(objs)) /\ Locks(t, Idle)
  BY StartTypes, StartOK DEF Starts, Notable, Loaded
<1>3. svc' \in Service(Len(objs))
  BY <1>1, ServiceTypes
<1>4. QED
  BY <1>1, <1>2, <1>3, QuietStep

\* A report is quiet.
LEMMA ReportOK ==
  ASSUME TypeOK, NEW t \in Threads, Report(t)
  PROVE  StepOK(t) /\ Quiet(t)
<1>1. Refused(t) /\ th[t].pc # "round"
  BY DEF Report, Refused, At
<1>2. QED
  BY <1>1, RefusedQuiet

\* Announcing a halt is quiet (_halt).
LEMMA SignalOK ==
  ASSUME TypeOK, NEW t \in Threads, Signal(t)
  PROVE  StepOK(t) /\ Quiet(t)
<1>1. th[t].pc = "got"
  BY DEF Signal, At
<1>2. CASE Refused(t)
  BY <1>1, <1>2, RefusedQuiet
<1>3. CASE /\ svc' = [svc EXCEPT !.halt = TRUE]
           /\ Becomes(t, Go(t, "halting"))
           /\ UNCHANGED <<store, recRow, objs, made, rounds, paused, faults, counters>>
  <2>1. "halting" \in Places \ (Notable \union Holding)
    BY DEF Places, Notable, Loaded, Holding
  <2>2. Go(t, "halting") \in Thread /\ Placed(Go(t, "halting"), Len(objs)) /\ Locks(t, Go(t, "halting"))
    BY <1>1, <2>1, GoOK DEF Building
  <2>3. Go(t, "halting").pc \notin Notable
    BY <2>1, GoTypes
  <2>4. svc' \in Service(Len(objs)) /\ svc'.cache = svc.cache
    BY <1>3, ServiceChanges
  <2>5. /\ UNCHANGED <<docRow, history, recRow, objs>>
        /\ UNCHANGED <<made, rounds, paused, calls, faults, crashes>>
    BY <1>3 DEF store, counters
  <2>6. QED
    BY <1>1, <1>3, <2>2, <2>3, <2>4, <2>5, QuietStep
<1>4. QED
  BY <1>2, <1>3 DEF Signal

\* Noting a submitted job is quiet (_jobs).
LEMMA SubmittedOK ==
  ASSUME TypeOK, NEW t \in Threads, Submitted(t)
  PROVE  StepOK(t) /\ Quiet(t)
<1>1. /\ th[t].pc = "submitting" /\ Becomes(t, Reports) /\ svc' = [svc EXCEPT !.jobs = TRUE]
      /\ UNCHANGED <<docRow, history, recRow, objs>>
      /\ UNCHANGED <<made, rounds, paused, calls, faults, crashes>>
  BY DEF Submitted, store, counters, At
<1>2. /\ Reports \in Thread /\ Reports.pc \notin Notable
      /\ Placed(Reports, Len(objs)) /\ Locks(t, Reports)
  BY StartTypes, StartOK DEF Starts, Notable, Loaded
<1>3. svc' \in Service(Len(objs)) /\ svc'.cache = svc.cache
  BY <1>1, ServiceChanges
<1>4. QED
  BY <1>1, <1>2, <1>3, QuietStep

\* The look for a halt before a step is quiet.
LEMMA LoopOK ==
  ASSUME TypeOK, NEW t \in Threads, Loop(t)
  PROVE  StepOK(t) /\ Quiet(t)
<1>1. /\ th[t].pc \in {"looping", "got"} /\ svc' = svc
      /\ UNCHANGED <<docRow, history, recRow, objs>>
      /\ UNCHANGED <<made, rounds, paused, calls, faults, crashes>>
      /\ \/ Becomes(t, Go(t, "stepping")) \/ Becomes(t, Reports)
         \/ Becomes(t, [Go(t, "closing") EXCEPT !.out = "halted"])
  BY DEF Loop, At, store, counters
<1>2. {"stepping", "closing"} \subseteq Places \ (Notable \union Holding)
  BY DEF Places, Notable, Loaded, Holding
<1>3. th[t].pc \notin Building \union {"idle"}
  BY <1>1 DEF Building
<1>4. /\ Reports \in Thread /\ Reports.pc \notin Notable
      /\ Placed(Reports, Len(objs)) /\ Locks(t, Reports)
  BY StartTypes, StartOK DEF Starts, Notable, Loaded
<1>5. LET x == Go(t, "stepping") IN
      x \in Thread /\ Placed(x, Len(objs)) /\ Locks(t, x) /\ x.pc \notin Notable
  BY <1>2, <1>3, GoOK, GoTypes
<1>6. LET x == [Go(t, "closing") EXCEPT !.out = "halted"] IN
      x \in Thread /\ Placed(x, Len(objs)) /\ Locks(t, x) /\ x.pc \notin Notable
  <2>1. "closing" \in Places \ (Notable \union Holding)
    BY <1>2
  <2>2. [Go(t, "closing") EXCEPT !.out = "halted"].pc = "closing"
    BY <2>1, GoTypes
  <2>3. LET x == [Go(t, "closing") EXCEPT !.out = "halted"] IN
        x \in Thread /\ Placed(x, Len(objs)) /\ Locks(t, x)
    BY <1>3, <2>1, GoOK
  <2>4. QED
    BY <2>1, <2>2, <2>3
<1>7. PICK x \in Thread : Becomes(t, x) /\ Placed(x, Len(objs)) /\ Locks(t, x) /\ x.pc \notin Notable
  BY <1>1, <1>4, <1>5, <1>6
<1>8. svc' \in Service(Len(objs)) /\ svc'.cache = svc.cache
  BY <1>1, ServiceTypes
<1>9. QED
  BY <1>1, <1>7, <1>8, QuietStep

\* Saving what was restored is well typed (Orchestrator.start).
LEMMA SaveStartOK ==
  ASSUME TypeOK, NEW t \in Threads, SaveStart(t)
  PROVE  StepOK(t)
<1>1. /\ th[t].pc = "starting" /\ SaveDoc(t, th[t].doc, FALSE, Go(t, "built"))
      /\ UNCHANGED <<recRow, objs, made, rounds, paused, calls, crashes>>
  BY DEF SaveStart, At, counters
<1>2. "built" \in Places \ Holding /\ "built" \in Building
  BY DEF Places, Holding, Building
<1>3. LET x == Go(t, "built") IN x \in Thread /\ Placed(x, Len(objs)) /\ Locks(t, x)
  BY <1>2, GoOK
<1>4. th[t].doc \in Doc /\ objs' \in Seq(Object) /\ Len(objs') = Len(objs)
  BY <1>1, ThreadTypes DEF TypeOK
<1>5. made' \in Nat /\ rounds' \in Nat /\ paused' \in BOOLEAN
  BY <1>1, TableTypes
<1>6. QED
  BY <1>1, <1>3, <1>4, <1>5, SaveDocOK

\* The outcomes of marking a job.
MarkJobEnds(t, x) ==
  \/ /\ ~LeftRunning(th[t].rec) /\ x = Go(t, "registering") /\ UNCHANGED <<recRow, svc, faults>>
  \/ /\ recRow.rev = th[t].rec.rev /\ recRow' = Newer(Interrupted(th[t].rec))
     /\ x = [Go(t, "registering") EXCEPT !.rec = Newer(Interrupted(th[t].rec))]
     /\ UNCHANGED <<svc, faults>>
  \/ /\ x = Idle /\ faults' \in {faults, faults + 1}
     /\ recRow' = recRow \/ ( /\ recRow.rev = th[t].rec.rev
                              /\ recRow' = Newer(Interrupted(th[t].rec)) )
     /\ svc'.cache = svc.cache /\ svc'.queue = svc.queue
     /\ (svc'.jobs <=> svc.jobs /\ th[t].op # "rescue")

\* _build keeps the record, marks its job as interrupted, or fails.
LEMMA MarkJobCases ==
  ASSUME TypeOK, NEW t \in Threads, MarkJob(t)
  PROVE  /\ StepOK(t) /\ th[t].pc = "built"
         /\ UNCHANGED <<docRow, history, objs, made, rounds, paused, calls, crashes>>
         /\ \E x \in Thread :
              /\ Becomes(t, x) /\ MarkJobEnds(t, x)
              /\ x.pc = "registering" => x.doc = th[t].doc /\ x.op = th[t].op
              /\ x.pc \in {"registering", "idle"}
<1> DEFINE rec == Interrupted(th[t].rec)
           x == Go(t, "registering")
           y == [Go(t, "registering") EXCEPT !.rec = Newer(rec)]
<1>1. th[t].pc = "built" /\ UNCHANGED <<docRow, history, objs, made, rounds, paused, calls, crashes>>
  BY DEF MarkJob, At, store, counters
<1>2. "registering" \in Places \ Holding /\ "registering" \in Building
  BY DEF Places, Holding, Building
<1>3. rec \in Record /\ rec.rev = th[t].rec.rev /\ Newer(rec) \in Record
  BY ThreadTypes, RecordTypes
<1>4. /\ x \in Thread /\ x.pc = "registering" /\ Placed(x, Len(objs)) /\ Locks(t, x)
      /\ x.doc = th[t].doc /\ x.op = th[t].op
  BY <1>2, GoOK, GoTypes
<1>5. /\ y \in Thread /\ y.pc = "registering" /\ Placed(y, Len(objs)) /\ Locks(t, y)
      /\ y.doc = th[t].doc /\ y.op = th[t].op
  <2>1. y = [x EXCEPT !.rec = Newer(rec)]
    OBVIOUS
  <2> HIDE DEF x, y, rec
  <2>2. y \in Thread /\ y.pc = "registering" /\ y.doc = th[t].doc /\ y.op = th[t].op
    BY <1>3, <1>4, <2>1 DEF Thread
  <2>3. QED
    BY <1>2, <2>2 DEF Placed, Locks
<1>6. /\ Failed(t) = Idle /\ Idle \in Thread /\ Idle.pc = "idle"
      /\ Placed(Idle, Len(objs)) /\ Locks(t, Idle)
  <2>1. ~Rescued(t)
    BY <1>1 DEF Rescued, Building
  <2>2. QED
    BY <2>1, StartTypes, StartOK DEF Failed, Starts
<1>7. ASSUME Raise(t, FALSE)
      PROVE  /\ Becomes(t, Idle) /\ svc' \in Service(Len(objs))
             /\ svc'.cache = svc.cache /\ svc'.queue = svc.queue
             /\ svc'.jobs <=> (svc.jobs /\ th[t].op # "rescue")
  <2>1. Becomes(t, Idle) /\ svc' = Dropped(t, FALSE) /\ ~Rescued(t)
    BY <1>1, <1>6, <1>7, FailedTypes DEF Raise, Rescued, Building
  <2>2. QED
    BY <2>1, DroppedTypes
<1>8. \/ /\ ~LeftRunning(th[t].rec) /\ Becomes(t, x) /\ UNCHANGED <<recRow, svc, faults>>
      \/ /\ recRow.rev = rec.rev /\ recRow' = Newer(rec) /\ Becomes(t, y)
         /\ UNCHANGED <<svc, faults>>
      \/ Raise(t, FALSE) /\ UNCHANGED <<recRow, faults>>
      \/ /\ faults' = faults + 1 /\ Raise(t, FALSE)
         /\ recRow' \in {recRow} \union (IF recRow.rev = rec.rev THEN {Newer(rec)} ELSE {})
  BY Zenon DEF MarkJob
<1>9. recRow \in Record /\ svc \in Service(Len(objs)) /\ faults \in Nat
  BY TableTypes, ServiceTypes
<1>10. PICK z \in Thread :
         /\ Becomes(t, z) /\ MarkJobEnds(t, z) /\ Placed(z, Len(objs)) /\ Locks(t, z)
         /\ z.pc = "registering" => z.doc = th[t].doc /\ z.op = th[t].op
         /\ z.pc \in {"registering", "idle"}
         /\ recRow' \in Record /\ svc' \in Service(Len(objs)) /\ faults' \in Nat
  <2>1. CASE ~LeftRunning(th[t].rec) /\ Becomes(t, x) /\ UNCHANGED <<recRow, svc, faults>>
    <3>1. MarkJobEnds(t, x)
      BY <2>1 DEF MarkJobEnds
    <3> HIDE DEF x
    <3>2. QED
      BY <1>4, <1>9, <2>1, <3>1
  <2>2. CASE /\ recRow.rev = rec.rev /\ recRow' = Newer(rec) /\ Becomes(t, y)
             /\ UNCHANGED <<svc, faults>>
    <3>1. MarkJobEnds(t, y)
      BY <1>3, <2>2 DEF MarkJobEnds
    <3> HIDE DEF y, rec
    <3>2. QED
      BY <1>3, <1>5, <1>9, <2>2, <3>1
  <2>3. CASE Raise(t, FALSE) /\ UNCHANGED <<recRow, faults>>
    <3>1. MarkJobEnds(t, Idle)
      BY <1>7, <2>3 DEF MarkJobEnds
    <3>2. QED
      BY <1>6, <1>7, <1>9, <2>3, <3>1
  <2>4. CASE /\ faults' = faults + 1 /\ Raise(t, FALSE)
             /\ recRow' \in {recRow} \union (IF recRow.rev = rec.rev THEN {Newer(rec)} ELSE {})
    <3>1. recRow' = recRow \/ (recRow.rev = th[t].rec.rev /\ recRow' = Newer(rec))
      BY <1>3, <2>4
    <3>2. MarkJobEnds(t, Idle)
      BY <1>7, <2>4, <3>1 DEF MarkJobEnds
    <3>3. recRow' \in Record /\ faults' \in Nat
      BY <1>3, <1>9, <2>4, <3>1
    <3> HIDE DEF rec
    <3>4. QED
      BY <1>6, <1>7, <2>4, <3>2, <3>3
  <2>5. QED
    BY <1>8, <2>1, <2>2, <2>3, <2>4
<1>11. StepOK(t)
  <2>1. CountersTyped'
    BY <1>1, <1>10, TableTypes DEF CountersTyped
  <2>2. docRow' \in [rev : Nat, doc : Doc] /\ history' \in Seq(Nat)
    BY <1>1 DEF TypeOK
  <2>3. objs' \in Seq(Object) /\ Len(objs') = Len(objs) /\ Len(objs) \in Nat
    BY <1>1, ObjectTypes DEF TypeOK
  <2>4. QED
    BY <1>10, <2>1, <2>2, <2>3 DEF StepOK
<1>12. QED
  BY <1>1, <1>10, <1>11

\* Registering an object: the first one is appended and used.
LEMMA RegisterCases ==
  ASSUME TypeOK, NEW t \in Threads, Register(t)
  PROVE  /\ StepOK(t) /\ th[t].pc = "registering"
         /\ UNCHANGED <<docRow, history, recRow, made, rounds, paused, calls, faults, crashes>>
         /\ svc'.queue = svc.queue /\ (svc'.jobs <=> svc.jobs)
         /\ \E x \in Thread : /\ Becomes(t, x) /\ x.pc = "got" /\ x.obj = svc'.cache
                              /\ x.op = th[t].op /\ x.job = th[t].job
         /\ \/ svc.cache # 0 /\ svc'.cache = svc.cache /\ objs' = objs
            \/ /\ svc.cache = 0 /\ svc'.cache = Len(objs) + 1 /\ Len(objs') = Len(objs) + 1
               /\ \A o \in 1 .. Len(objs) : objs'[o] = objs[o]
               /\ objs'[Len(objs) + 1].doc = th[t].doc
               /\ objs'[Len(objs) + 1].rec = th[t].rec
<1> DEFINE new == [doc |-> th[t].doc, rec |-> th[t].rec]
           o == IF svc.cache = 0 THEN Len(objs) + 1 ELSE svc.cache
           x == [Go(t, "got") EXCEPT !.obj = o, !.rec = NewRecord, !.doc = NewDoc]
<1>1. /\ th[t].pc = "registering" /\ svc' = [svc EXCEPT !.cache = o]
      /\ objs' = (IF svc.cache = 0 THEN Append(objs, new) ELSE objs)
      /\ Becomes(t, x)
      /\ UNCHANGED <<docRow, history, recRow, made, rounds, paused, calls, faults, crashes>>
  BY DEF Register, At, store, counters
<1>2. new \in Object /\ new.doc = th[t].doc /\ new.rec = th[t].rec
  BY ThreadTypes DEF Object
<1>3. Len(objs) \in Nat /\ svc.cache \in 0 .. Len(objs)
  BY ObjectTypes, ServiceTypes
<1>4. /\ Append(objs, new) \in Seq(Object) /\ Len(Append(objs, new)) = Len(objs) + 1
      /\ \A n \in 1 .. Len(objs) : Append(objs, new)[n] = objs[n]
      /\ Append(objs, new)[Len(objs) + 1] = new
  <2> HIDE DEF new
  <2>1. objs \in Seq(Object)
    BY DEF TypeOK
  <2>2. QED
    BY <1>2, <2>1, AppendProperties
<1>5. o \in Nat /\ o \in 1 .. Len(objs') /\ objs' \in Seq(Object) /\ Len(objs) <= Len(objs')
      /\ Len(objs') \in Nat
  <2> HIDE DEF new, x
  <2>1. CASE svc.cache = 0
    BY <1>1, <1>3, <1>4, <2>1
  <2>2. CASE svc.cache # 0
    BY <1>1, <1>3, <2>2 DEF TypeOK
  <2>3. QED
    BY <2>1, <2>2
<1>6. /\ x \in Thread /\ x.pc = "got" /\ x.obj = o /\ x.op = th[t].op /\ x.job = th[t].job
  <2>1. "got" \in Places
    BY DEF Places
  <2>2. /\ Go(t, "got") \in Thread /\ Go(t, "got").pc = "got"
        /\ Go(t, "got").op = th[t].op /\ Go(t, "got").job = th[t].job
    BY <2>1, GoTypes
  <2> HIDE DEF o
  <2>3. QED
    BY <1>5, <2>2, Constants DEF Thread
<1>7. svc' \in Service(Len(objs')) /\ svc'.cache = o /\ svc'.queue = svc.queue
      /\ (svc'.jobs <=> svc.jobs)
  <2>1. svc \in Service(Len(objs)) /\ o \in 0 .. Len(objs')
    BY <1>5, ServiceTypes
  <2> HIDE DEF o, new, x
  <2>2. QED
    BY <1>1, <2>1 DEF Service
<1>8. Placed(x, Len(objs')) /\ Locks(t, x)
  <2> HIDE DEF x, o
  <2>1. QED
    BY <1>5, <1>6 DEF Placed, Locks, Holding
<1>9. StepOK(t)
  <2>1. CountersTyped'
    BY <1>1, QuietCounters
  <2>2. docRow' \in [rev : Nat, doc : Doc] /\ history' \in Seq(Nat) /\ recRow' \in Record
    BY <1>1 DEF TypeOK
  <2> HIDE DEF x, o, new
  <2>3. QED
    BY <1>1, <1>5, <1>6, <1>7, <1>8, <2>1, <2>2 DEF StepOK
<1>10. \/ svc.cache # 0 /\ svc'.cache = svc.cache /\ objs' = objs
       \/ /\ svc.cache = 0 /\ svc'.cache = Len(objs) + 1 /\ Len(objs') = Len(objs) + 1
          /\ \A n \in 1 .. Len(objs) : objs'[n] = objs[n]
          /\ objs'[Len(objs) + 1].doc = th[t].doc
          /\ objs'[Len(objs) + 1].rec = th[t].rec
  <2>1. CASE svc.cache # 0
    BY <1>1, <1>7, <2>1
  <2>2. CASE svc.cache = 0
    <3>1. objs' = Append(objs, new) /\ o = Len(objs) + 1
      BY <1>1, <2>2
    <3> HIDE DEF new, o, x
    <3>2. QED
      BY <1>2, <1>4, <1>7, <2>2, <3>1
  <2>3. QED
    BY <2>1, <2>2
<1>11. QED
  <2> HIDE DEF x, o, new
  <2>1. QED
    BY <1>1, <1>6, <1>7, <1>9, <1>10

\* A halt of the document is quiet, or saves a step.
LEMMA HaltDocOK ==
  ASSUME TypeOK, NEW t \in Threads, HaltDoc(t)
  PROVE  StepOK(t) /\ (Quiet(t) \/ SavesStep(t))
<1> DEFINE doc == Mine(t).doc
           d == Decided(doc, HaltState(th[t].op))
           next == Go(t, "haltrec")
<1>1. /\ th[t].pc = "halting" /\ Free(th[t].obj)
      /\ UNCHANGED <<recRow, rounds, paused, calls, crashes>>
  BY DEF HaltDoc, At, counters
<1>2. th[t].pc \notin Building \union {"idle"} /\ "haltrec" \in Places \ Notable
  BY <1>1 DEF Building, Places, Notable, Loaded
<1>3. /\ next \in Thread /\ next.pc = "haltrec" /\ Placed(next, Len(objs)) /\ Locks(t, next)
  <2>1. next \in Thread /\ next.pc = "haltrec"
    BY <1>2, GoTypes
  <2>2. Placed(next, Len(objs)) /\ Locks(t, next)
    BY <1>1, <1>2, GoOK
  <2>3. QED
    BY <2>1, <2>2
<1>4. doc \in Doc /\ made \in Nat /\ rounds \in Nat /\ paused \in BOOLEAN
  BY <1>2, MineTypes, TableTypes
<1>5. CASE /\ Haltable(doc, th[t].op) /\ made' = made + 1 /\ Advance(t, d, FALSE, next)
  <2>1. HaltState(th[t].op) \in DocStates \ {"executing"}
    BY DEF HaltState, DocStates
  <2>2. d \in Doc /\ d.state # "executing"
    BY <1>4, <2>1, DecidedTypes
  <2>3. doc.state \notin {"stopped", "executing"}
    BY <1>5 DEF Haltable
  <2>4. made' \in Nat
    BY <1>4, <1>5
  <2> HIDE DEF d, next, doc
  <2>5. StepOK(t)
    BY <1>1, <1>2, <1>3, <1>4, <1>5, <2>2, <2>4, AdvanceOK
  <2>6. SavesStep(t)
    <3>1. next.pc \notin Notable
      BY <1>2, <1>3
    <3>2. Mine(t).doc.state \notin {"stopped", "executing"}
      BY <2>3 DEF doc
    <3>3. QED
      BY <1>1, <1>3, <1>5, <2>2, <2>4, <3>1, <3>2 DEF SavesStep
  <2>7. QED
    BY <2>5, <2>6
<1>6. CASE /\ IF doc.state = "executing"
              THEN Raise(t, FALSE)
              ELSE Becomes(t, next) /\ UNCHANGED svc
           /\ UNCHANGED <<store, objs, made, faults>>
  <2>1. UNCHANGED <<docRow, history, recRow, objs>> /\ UNCHANGED <<made, rounds, paused, calls, faults, crashes>>
    BY <1>1, <1>6 DEF store
  <2>2. CASE Raise(t, FALSE)
    <3>1. Becomes(t, Failed(t)) /\ svc' = Dropped(t, FALSE)
      BY <2>2, FailedTypes DEF Raise
    <3>2. svc' \in Service(Len(objs)) /\ svc'.cache \in {0, svc.cache}
      BY <3>1, DroppedTypes
    <3>3. /\ Failed(t) \in Thread /\ Failed(t).pc \notin Notable
          /\ Placed(Failed(t), Len(objs)) /\ Locks(t, Failed(t))
      BY FailedTypes, StartOK DEF Notable, Loaded, Starts
    <3>4. QED
      BY <1>1, <2>1, <3>1, <3>2, <3>3, QuietStep
  <2>3. CASE Becomes(t, next) /\ UNCHANGED svc
    <3>1. svc' \in Service(Len(objs)) /\ svc'.cache = svc.cache
      BY <2>3, ServiceTypes
    <3> HIDE DEF next
    <3>2. QED
      BY <1>1, <1>2, <1>3, <2>1, <2>3, <3>1, QuietStep
  <2>4. QED
    BY <1>6, <2>2, <2>3
<1>7. QED
  BY <1>5, <1>6 DEF HaltDoc

\* A halt of the record is well typed.
LEMMA HaltRecordOK ==
  ASSUME TypeOK, NEW t \in Threads, HaltRecord(t)
  PROVE  StepOK(t)
<1> DEFINE rec == [Mine(t).rec EXCEPT !.control = HaltState(th[t].op)]
           service == [svc EXCEPT !.halt = FALSE]
<1>1. /\ th[t].pc = "haltrec" /\ SaveRecord(t, rec, Reports, service)
      /\ UNCHANGED <<docRow, history, made, rounds, calls, crashes>>
      /\ paused' = (paused \/ (th[t].op = "pause" /\ th'[t] = Reports))
  BY DEF HaltRecord, At, counters, store
<1>2. th[t].pc \notin Building \union {"idle"}
  BY <1>1 DEF Building
<1>3. rec \in Record
  <2>1. Mine(t).rec \in Record
    BY <1>2, MineTypes
  <2>2. HaltState(th[t].op) \in {"active", "paused", "stopped"}
    BY DEF HaltState
  <2>3. QED
    BY <2>1, <2>2, RecordTypes
<1>4. service \in Service(Len(objs))
  BY ServiceChanges
<1>5. Reports \in Thread /\ Placed(Reports, Len(objs)) /\ Locks(t, Reports)
  BY StartTypes, StartOK DEF Starts
<1>6. made' \in Nat /\ rounds' \in Nat /\ paused' \in BOOLEAN
  BY <1>1, TableTypes
<1> HIDE DEF rec, service
<1>7. QED
  BY <1>1, <1>2, <1>3, <1>4, <1>5, <1>6, SaveRecordOK

\* A resume of the record is well typed.
LEMMA ResumeRecordOK ==
  ASSUME TypeOK, NEW t \in Threads, ResumeRecord(t)
  PROVE  StepOK(t)
<1> DEFINE rec == [Mine(t).rec EXCEPT !.control = "active"]
<1>1. /\ th[t].pc = "resumerec" /\ SaveRecord(t, rec, Reports, svc)
      /\ UNCHANGED <<docRow, history, made, rounds, paused, calls, crashes>>
  BY DEF ResumeRecord, At, counters, store
<1>2. th[t].pc \notin Building \union {"idle"}
  BY <1>1 DEF Building
<1>3. rec \in Record
  BY <1>2, MineTypes, RecordTypes
<1>4. svc \in Service(Len(objs))
  BY ServiceTypes
<1>5. Reports \in Thread /\ Placed(Reports, Len(objs)) /\ Locks(t, Reports)
  BY StartTypes, StartOK DEF Starts
<1>6. made' \in Nat /\ rounds' \in Nat /\ paused' \in BOOLEAN
  BY <1>1, TableTypes
<1> HIDE DEF rec
<1>7. QED
  BY <1>1, <1>2, <1>3, <1>4, <1>5, <1>6, SaveRecordOK

\* A resume is refused, or puts the stored document into the object.
ResumeLoads(t) ==
  /\ th[t].pc = "got" /\ Free(th[t].obj) /\ paused' = FALSE
  /\ Mine(t).rec.control # "stopped"
  /\ objs' = [objs EXCEPT ![th[t].obj].doc = Resumed(Restored(docRow.doc))]
  /\ UNCHANGED <<docRow, history, recRow, svc, rounds, calls, faults, crashes>>
  /\ \E x \in Thread : /\ Becomes(t, x) /\ x.pc = "resaving" /\ x.obj = th[t].obj
                       /\ x.op = th[t].op

\* A resume is refused, or loads the document.
LEMMA ResumeLoadOK ==
  ASSUME TypeOK, NEW t \in Threads, ResumeLoad(t)
  PROVE  StepOK(t) /\ (Quiet(t) \/ ResumeLoads(t))
<1> DEFINE d == Resumed(Restored(docRow.doc))
<1>1. th[t].pc = "got" /\ Free(th[t].obj)
  BY DEF ResumeLoad, At
<1>2. th[t].pc \notin Building \union {"idle"} /\ "resaving" \in Places
  BY <1>1 DEF Building, Places
<1>3. CASE Refused(t)
  BY <1>1, <1>3, RefusedQuiet
<1>4. CASE /\ Mine(t).rec.control # "stopped"
           /\ Loads(t, NewDoc, "resaving") /\ paused' = FALSE
           /\ objs' = [objs EXCEPT ![th[t].obj].doc = d]
           /\ UNCHANGED <<store, recRow, svc, rounds, faults, counters>>
  <2>1. made' \in Nat /\ \E x \in Thread :
          Becomes(t, x) /\ x.pc = "resaving" /\ x.obj = th[t].obj /\ x.op = th[t].op
    BY <1>2, <1>4, Constants, LoadsTypes
  <2>2. PICK x \in Thread : Becomes(t, x) /\ x.pc = "resaving" /\ x.obj = th[t].obj /\ x.op = th[t].op
    BY <2>1
  <2>3. d \in Doc
    BY TableTypes, DocTypes, ResumedTypes
  <2>4. objs' \in Seq(Object) /\ Len(objs') = Len(objs) /\ Len(objs) \in Nat
    BY <1>2, <1>4, <2>3, MineTypes, ObjectChanges, ObjectTypes
  <2>5. Placed(x, Len(objs')) /\ Locks(t, x)
    BY <1>1, <1>2, <2>2, <2>4, MineTypes DEF Placed, Locks
  <2>6. UNCHANGED <<docRow, history, recRow, svc, rounds, calls, faults, crashes>>
    BY <1>4 DEF store, counters
  <2>7. CountersTyped'
    BY <1>4, <2>1, <2>6, TableTypes DEF CountersTyped
  <2>8. svc' \in Service(Len(objs')) /\ docRow' \in [rev : Nat, doc : Doc]
        /\ history' \in Seq(Nat) /\ recRow' \in Record
    BY <2>4, <2>6, ServiceTypes DEF TypeOK
  <2>9. StepOK(t)
    BY <2>2, <2>4, <2>5, <2>7, <2>8 DEF StepOK
  <2>10. ResumeLoads(t)
    BY <1>1, <1>4, <2>2, <2>6 DEF ResumeLoads
  <2>11. QED
    BY <2>9, <2>10
<1>5. QED
  BY <1>3, <1>4 DEF ResumeLoad

\* Saving the resumed document is well typed.
LEMMA ResumeSaveOK ==
  ASSUME TypeOK, NEW t \in Threads, ResumeSave(t)
  PROVE  StepOK(t)
<1>1. /\ th[t].pc = "resaving" /\ SaveDoc(t, Mine(t).doc, TRUE, Go(t, "resumerec"))
      /\ UNCHANGED <<recRow, objs, made, rounds, paused, calls, crashes>>
  BY DEF ResumeSave, At, counters
<1>2. /\ "resumerec" \in Places /\ th[t].pc \notin Building \union {"idle"}
      /\ th[t].pc \in Holding
  BY <1>1 DEF Places, Holding, Building
<1>3. LET x == Go(t, "resumerec") IN x \in Thread /\ Placed(x, Len(objs)) /\ Locks(t, x)
  BY <1>2, GoOK
<1>4. Mine(t).doc \in Doc /\ objs' \in Seq(Object) /\ Len(objs') = Len(objs)
  BY <1>1, <1>2, MineTypes DEF TypeOK
<1>5. made' \in Nat /\ rounds' \in Nat /\ paused' \in BOOLEAN
  BY <1>1, TableTypes
<1>6. QED
  BY <1>1, <1>3, <1>4, <1>5, SaveDocOK

\* Where a step leaves a thread that may take the lock, or has it.
LEMMA AfterOK ==
  ASSUME TypeOK, NEW t \in Threads, th[t].pc \notin Building \union {"idle"},
         th[t].pc \in Holding \/ Free(th[t].obj),
         NEW progressed \in BOOLEAN, NEW next \in After(t, progressed)
  PROVE  /\ next \in Thread /\ next.pc \notin Notable
         /\ Placed(next, Len(objs)) /\ Locks(t, next)
<1>1. th[t].obj \in 1 .. Len(objs)
  BY MineTypes
<1>2. CASE next = Reports
  BY <1>2, StartTypes, StartOK DEF Starts, Notable, Loaded
<1>3. CASE next # Reports
  <2>1. next \in Thread /\ next.obj = th[t].obj /\ next.pc \in {"noting", "looping"}
    BY <1>3, AfterTypes
  <2>2. QED
    BY <1>1, <2>1 DEF Placed, Locks, Notable, Loaded
<1>4. QED
  BY <1>2, <1>3

\* A step under the lock is quiet, or saves a step.
LEMMA StepLockedOK ==
  ASSUME TypeOK, NEW t \in Threads, th[t].pc \in {"got", "stepping"}, Free(th[t].obj),
         Mine(t).rec.control = "active", StepLocked(t)
  PROVE  StepOK(t) /\ (Quiet(t) \/ SavesStep(t))
<1>1. th[t].pc \notin Building \union {"idle"} /\ th[t].pc # "round"
  BY DEF Building
<1>2. /\ recRow' = recRow /\ paused' = paused /\ calls' = calls /\ crashes' = crashes
      /\ rounds' = IF th'[t].pc = "round" THEN rounds + 1 ELSE rounds
  BY <1>1, StepCases
<1>3. rounds' \in Nat /\ paused' \in BOOLEAN /\ made + 1 \in Nat /\ made \in Nat
  BY <1>2, TableTypes
<1>4. ASSUME NEW x \in Thread, Becomes(t, x)
      PROVE  th'[t] = x
  BY <1>4 DEF Becomes, TypeOK
<1>5. CASE /\ UNCHANGED <<docRow, history, svc, objs, made, faults>>
           /\ \E next \in After(t, FALSE) : Becomes(t, next)
  <2>1. PICK next \in After(t, FALSE) : Becomes(t, next)
    BY <1>5
  <2>2. /\ next \in Thread /\ next.pc \notin Notable
        /\ Placed(next, Len(objs)) /\ Locks(t, next)
    BY <1>1, AfterOK
  <2>3. rounds' = rounds
    BY <1>2, <1>4, <2>1, <2>2 DEF Notable
  <2>4. svc' \in Service(Len(objs)) /\ svc'.cache = svc.cache
    BY <1>5, ServiceTypes
  <2>5. QED
    BY <1>1, <1>2, <1>5, <2>1, <2>2, <2>3, <2>4, QuietStep
<1>6. ASSUME NEW d \in Doc, NEW next \in Thread, made' \in {made, made + 1},
             Mine(t).doc.state \notin Stops, Advance(t, d, TRUE, next),
             \/ d.state # "executing" /\ next \in After(t, FALSE)
             \/ d = [Mine(t).doc EXCEPT !.state = "executing"] /\ next = Go(t, "round")
      PROVE  StepOK(t) /\ SavesStep(t)
  <2>1. Placed(next, Len(objs)) /\ Locks(t, next)
    <3>1. CASE next \in After(t, FALSE)
      BY <1>1, <3>1, AfterOK
    <3>2. CASE next = Go(t, "round")
      <4>1. "round" \in Places
        BY DEF Places
      <4>2. QED
        BY <1>1, <3>2, <4>1, GoOK
    <3>3. QED
      BY <1>6, <3>1, <3>2
  <2>2. made' \in Nat
    BY <1>3, <1>6
  <2>3. StepOK(t)
    BY <1>1, <1>2, <1>3, <1>6, <2>1, <2>2, AdvanceOK
  <2>4. CASE d.state # "executing" /\ next \in After(t, FALSE)
    <3>1. next.pc \notin Notable
      BY <1>1, <2>4, AfterOK
    <3>2. SaveDoc(t, d, TRUE, next)
      BY <1>6 DEF Advance
    <3>3. PICK x \in Thread : Becomes(t, x) /\ (x.pc = next.pc \/ x = Failed(t))
      BY <3>2, SaveDocMoves
    <3>4. x.pc # "round"
      BY <3>1, <3>3, FailedTypes DEF Notable, Starts
    <3>5. rounds' = rounds
      BY <1>2, <1>4, <3>3, <3>4
    <3>6. SavesStep(t)
      BY <1>2, <1>6, <2>2, <2>4, <3>1, <3>5 DEF SavesStep
    <3>7. QED
      BY <2>3, <3>6
  <2>5. CASE d = [Mine(t).doc EXCEPT !.state = "executing"] /\ next = Go(t, "round")
    <3>1. SavesStep(t)
      BY <1>2, <1>6, <2>2, <2>5 DEF SavesStep
    <3>2. QED
      BY <2>3, <3>1
  <2>6. QED
    BY <1>6, <2>4, <2>5
<1>7. QED
  BY <1>1, <1>5, <1>6, StepCases

\* The steps of a request, an analysis and a job.
LEMMA StepActionOK ==
  ASSUME TypeOK, NEW t \in Threads, Step(t) \/ AnalyzeStep(t) \/ JobStep(t)
  PROVE  StepOK(t) /\ (Quiet(t) \/ SavesStep(t))
<1>1. th[t].pc \in {"got", "stepping"} /\ Free(th[t].obj)
  BY DEF Step, AnalyzeStep, JobStep, At
<1>2. \/ Refused(t) \/ (Mine(t).rec.control = "active" /\ StepLocked(t))
      \/ /\ Becomes(t, [Go(t, "closing") EXCEPT !.out = "halted"])
         /\ UNCHANGED <<store, recRow, svc, objs, made, rounds, paused, faults, counters>>
  BY Zenon DEF Step, AnalyzeStep, JobStep, Runnable
<1>3. CASE Refused(t)
  BY <1>1, <1>3, RefusedQuiet
<1>4. CASE Mine(t).rec.control = "active" /\ StepLocked(t)
  BY <1>1, <1>4, StepLockedOK
<1>5. CASE /\ Becomes(t, [Go(t, "closing") EXCEPT !.out = "halted"])
           /\ UNCHANGED <<store, recRow, svc, objs, made, rounds, paused, faults, counters>>
  <2> DEFINE x == [Go(t, "closing") EXCEPT !.out = "halted"]
  <2>1. "closing" \in Places /\ "closing" \notin Notable \union Holding
    BY DEF Places, Notable, Loaded, Holding
  <2>2. th[t].pc \notin Building \union {"idle"}
    BY <1>1 DEF Building
  <2>3. x \in Thread /\ Placed(x, Len(objs)) /\ Locks(t, x)
    BY <2>1, <2>2, GoOK
  <2>4. x.pc \notin Notable
    BY <2>1, GoTypes
  <2>5. /\ UNCHANGED <<docRow, history, recRow, objs>>
        /\ UNCHANGED <<made, rounds, paused, calls, faults, crashes>> /\ svc' = svc
    BY <1>5 DEF store, counters
  <2>6. svc' \in Service(Len(objs)) /\ svc'.cache = svc.cache
    BY <2>5, ServiceTypes
  <2>7. Becomes(t, x)
    BY <1>5
  <2> HIDE DEF x
  <2>8. QED
    BY <1>1, <2>3, <2>4, <2>5, <2>6, <2>7, QuietStep
<1>6. QED
  BY <1>2, <1>3, <1>4, <1>5

\* The end of a round saves a step.
LEMMA RoundEndsOK ==
  ASSUME TypeOK, NEW t \in Threads, RoundEnds(t)
  PROVE  StepOK(t) /\ SavesStep(t)
<1>1. /\ th[t].pc = "round" /\ made' = made + 1
      /\ UNCHANGED <<recRow, rounds, paused, calls, crashes>>
  BY DEF RoundEnds, At, counters
<1>2. th[t].pc \notin Building \union {"idle"} /\ th[t].pc \in Holding
  BY <1>1 DEF Building, Holding
<1>3. PICK state \in {"ready", "done"} : \E next \in After(t, state = "ready") :
        Advance(t, Decided(Mine(t).doc, state), TRUE, next)
  BY DEF RoundEnds
<1>4. PICK next \in After(t, state = "ready") :
        Advance(t, Decided(Mine(t).doc, state), TRUE, next)
  BY <1>3
<1> DEFINE d == Decided(Mine(t).doc, state)
<1>5. d \in Doc /\ d.state # "executing"
  <2>1. Mine(t).doc \in Doc /\ made \in Nat /\ state \in DocStates /\ state # "executing"
    BY <1>2, MineTypes, TableTypes DEF DocStates
  <2>2. QED
    BY <2>1, DecidedTypes
<1>6. /\ next \in Thread /\ next.pc \notin Notable
      /\ Placed(next, Len(objs)) /\ Locks(t, next)
  <2>1. (state = "ready") \in BOOLEAN
    OBVIOUS
  <2>2. QED
    BY <1>2, <2>1, AfterOK
<1>7. made' \in Nat /\ rounds' \in Nat /\ paused' \in BOOLEAN
  BY <1>1, TableTypes
<1>8. Advance(t, d, TRUE, next)
  BY <1>4
<1> HIDE DEF d
<1>9. StepOK(t)
  BY <1>1, <1>2, <1>5, <1>6, <1>7, <1>8, AdvanceOK
<1>10. SavesStep(t)
  BY <1>1, <1>5, <1>6, <1>7, <1>8 DEF SavesStep
<1>11. QED
  BY <1>9, <1>10

\* Saving a record that keeps its control saves a job.
LEMMA SavesJobOK ==
  ASSUME TypeOK, NEW t \in Threads, th[t].pc \notin Building \union {"idle", "round"},
         NEW rec \in Record, NEW next \in Thread, NEW service \in Service(Len(objs)),
         SaveRecord(t, rec, next, service), service.cache = svc.cache,
         rec.control = Mine(t).rec.control, rec.rev = Mine(t).rec.rev,
         next.pc \notin Notable, Placed(next, Len(objs)), Locks(t, next),
         UNCHANGED <<docRow, history, made, rounds, paused, calls, crashes>>
  PROVE  StepOK(t) /\ SavesJob(t)
<1>1. made' \in Nat /\ rounds' \in Nat /\ paused' \in BOOLEAN
  BY TableTypes
<1>2. StepOK(t)
  BY <1>1, SaveRecordOK
<1>3. SavesJob(t)
  BY DEF SavesJob
<1>4. QED
  BY <1>2, <1>3

\* A worker that does nothing more for a job.
JobOverTypes == JobOver \in Service(Len(objs)) /\ JobOver.cache = svc.cache

\* A job that is over leaves _jobs.
LEMMA JobOverOK == TypeOK => JobOverTypes
  BY ServiceChanges DEF JobOver, JobOverTypes

\* A thread that becomes idle holds nothing.
LEMMA IdleOK ==
  ASSUME TypeOK, NEW t \in Threads
  PROVE  Idle \in Thread /\ Idle.pc \notin Notable /\ Placed(Idle, Len(objs)) /\ Locks(t, Idle)
  BY StartTypes, StartOK DEF Starts, Notable, Loaded

\* The places of a job.
LEMMA JobPlaces ==
  /\ {"submitting", "looping", "closing"} \subseteq Places
  /\ {"submitting", "looping", "closing"} \intersect Notable = {}
  /\ {"submitting", "looping", "closing"} \intersect (Building \union {"idle"}) = {}
  /\ {"looping", "closing"} \intersect Holding = {}
  BY DEF Places, Notable, Loaded, Building, Holding

\* Starting a job is refused, or saves it.
LEMMA StartJobOK ==
  ASSUME TypeOK, NEW t \in Threads, StartJob(t)
  PROVE  StepOK(t) /\ (Quiet(t) \/ SavesJob(t))
<1> DEFINE rec == WithJob(Mine(t).rec, calls, "queued")
           service == [svc EXCEPT !.queue = Append(svc.queue, calls)]
           next == Go(t, "submitting")
<1>1. th[t].pc = "got" /\ Free(th[t].obj)
  BY DEF StartJob, At
<1>2. th[t].pc \notin Building \union {"idle", "round"}
  BY <1>1 DEF Building
<1>3. CASE Refused(t)
  BY <1>1, <1>3, RefusedQuiet
<1>4. CASE SaveRecord(t, rec, next, service) /\ UNCHANGED <<store, made, rounds, paused, counters>>
  <2>1. rec \in Record /\ rec.control = Mine(t).rec.control /\ rec.rev = Mine(t).rec.rev
    <3>1. calls \in Nat
      BY TableTypes
    <3>2. QED
      BY <1>2, <3>1, MineJobTypes
  <2>2. service \in Service(Len(objs)) /\ service.cache = svc.cache
    <3>1. Append(svc.queue, calls) \in Seq(Nat)
      BY ServiceTypes, TableTypes, AppendProperties
    <3>2. QED
      BY <3>1, ServiceChanges
  <2>3. next \in Thread /\ next.pc \notin Notable /\ Placed(next, Len(objs)) /\ Locks(t, next)
    <3>1. next \in Thread /\ next.pc \notin Notable
      BY JobPlaces, GoPlace
    <3>2. Placed(next, Len(objs)) /\ Locks(t, next)
      BY <1>1, <1>2, JobPlaces, GoOK
    <3>3. QED
      BY <3>1, <3>2
  <2>4. UNCHANGED <<docRow, history, made, rounds, paused, calls, crashes>>
    BY <1>4 DEF store, counters
  <2>5. SaveRecord(t, rec, next, service)
    BY <1>4
  <2> HIDE DEF rec, service, next
  <2>6. QED
    BY <1>2, <2>1, <2>2, <2>3, <2>4, <2>5, SavesJobOK
<1>5. QED
  BY <1>3, <1>4, Zenon DEF StartJob

\* A job that begins to run saves it, or returns.
LEMMA JobRunsOK ==
  ASSUME TypeOK, NEW w \in Threads, JobRuns(w)
  PROVE  StepOK(w) /\ (Quiet(w) \/ SavesJob(w))
<1> DEFINE rec == WithJob(Mine(w).rec, Mine(w).rec.job.id, "running")
           next == Go(w, "looping")
<1>1. /\ th[w].pc = "got" /\ Free(th[w].obj)
      /\ UNCHANGED <<docRow, history, made, rounds, paused, calls, crashes>>
  BY DEF JobRuns, At, store, counters
<1>2. th[w].pc \notin Building \union {"idle", "round"}
  BY <1>1 DEF Building
<1>3. CASE Becomes(w, Idle) /\ svc' = JobOver /\ UNCHANGED <<recRow, objs, faults>>
  BY <1>1, <1>3, IdleOK, JobOverOK, QuietStep DEF JobOverTypes
<1>4. CASE SaveRecord(w, rec, next, svc)
  <2>1. rec \in Record /\ rec.control = Mine(w).rec.control /\ rec.rev = Mine(w).rec.rev
    <3>1. Mine(w).rec.job.id \in Nat
      BY <1>2, MineJobId
    <3>2. QED
      BY <1>2, <3>1, MineJobTypes
  <2>2. svc \in Service(Len(objs))
    BY ServiceTypes
  <2>3. next \in Thread /\ next.pc \notin Notable /\ Placed(next, Len(objs)) /\ Locks(w, next)
    <3>1. next \in Thread /\ next.pc \notin Notable
      BY JobPlaces, GoPlace
    <3>2. Placed(next, Len(objs)) /\ Locks(w, next)
      BY <1>1, <1>2, JobPlaces, GoOK
    <3>3. QED
      BY <3>1, <3>2
  <2>4. SaveRecord(w, rec, next, svc)
    BY <1>4
  <2> HIDE DEF rec, next
  <2>5. QED
    BY <1>1, <1>2, <2>1, <2>2, <2>3, <2>4, SavesJobOK
<1>5. QED
  BY <1>3, <1>4, Zenon DEF JobRuns

\* Noting the progress of a job saves it.
LEMMA JobNotesOK ==
  ASSUME TypeOK, NEW w \in Threads, JobNotes(w)
  PROVE  StepOK(w) /\ SavesJob(w)
<1>1. /\ th[w].pc = "noting"
      /\ UNCHANGED <<docRow, history, made, rounds, paused, calls, crashes>>
  BY DEF JobNotes, At, store, counters
<1>2. th[w].pc \notin Building \union {"idle", "round"} /\ th[w].pc \in Holding
  BY <1>1 DEF Building, Holding
<1>3. PICK pc \in {"closing", "looping"} : SaveRecord(w, Mine(w).rec, Go(w, pc), svc)
  BY DEF JobNotes
<1>4. Mine(w).rec \in Record /\ svc \in Service(Len(objs))
  BY <1>2, MineTypes, ServiceTypes
<1>5. Go(w, pc) \in Thread /\ Go(w, pc).pc \notin Notable
  BY JobPlaces, GoPlace
<1>6. Placed(Go(w, pc), Len(objs)) /\ Locks(w, Go(w, pc))
  BY <1>2, JobPlaces, GoOK
<1>7. QED
  BY <1>1, <1>2, <1>3, <1>4, <1>5, <1>6, SavesJobOK

\* Ending a job saves it.
LEMMA JobClosesOK ==
  ASSUME TypeOK, NEW w \in Threads, JobCloses(w)
  PROVE  StepOK(w) /\ SavesJob(w)
<1> DEFINE rec == WithJob(Mine(w).rec, Mine(w).rec.job.id, th[w].out)
<1>1. /\ th[w].pc = "closing" /\ SaveRecord(w, rec, Idle, JobOver)
      /\ UNCHANGED <<docRow, history, made, rounds, paused, calls, crashes>>
  BY DEF JobCloses, At, store, counters
<1>2. th[w].pc \notin Building \union {"idle", "round"}
  BY <1>1 DEF Building
<1>3. rec \in Record /\ rec.control = Mine(w).rec.control /\ rec.rev = Mine(w).rec.rev
  <2>1. Mine(w).rec.job.id \in Nat /\ th[w].out \in {"completed", "halted"}
    BY <1>2, MineJobId, ThreadTypes
  <2>2. QED
    BY <1>2, <2>1, MineJobTypes
<1> HIDE DEF rec
<1>4. QED
  BY <1>1, <1>2, <1>3, IdleOK, JobOverOK, SavesJobOK DEF JobOverTypes

\* Recording the failure of a job saves it.
LEMMA RescueJobOK ==
  ASSUME TypeOK, NEW w \in Threads, RescueJob(w)
  PROVE  StepOK(w) /\ SavesJob(w)
<1> DEFINE rec == WithJob(Mine(w).rec, Mine(w).rec.job.id, "failed")
<1>1. /\ th[w].pc = "got" /\ SaveRecord(w, rec, Idle, JobOver)
      /\ UNCHANGED <<docRow, history, made, rounds, paused, calls, crashes>>
  BY DEF RescueJob, At, store, counters
<1>2. th[w].pc \notin Building \union {"idle", "round"}
  BY <1>1 DEF Building
<1>3. rec \in Record /\ rec.control = Mine(w).rec.control /\ rec.rev = Mine(w).rec.rev
  <2>1. Mine(w).rec.job.id \in Nat
    BY <1>2, MineJobId
  <2>2. QED
    BY <1>2, <2>1, MineJobTypes
<1> HIDE DEF rec
<1>4. QED
  BY <1>1, <1>2, <1>3, IdleOK, JobOverOK, SavesJobOK DEF JobOverTypes

-----------------------------------------------------------------------------
(* The type invariant *)

\* Every step is of one of the kinds.
Kinds(t) ==
  \/ Quiet(t) \/ ReadRecord(t) \/ LoadDoc(t) \/ SaveStart(t) \/ MarkJob(t) \/ Register(t)
  \/ SavesStep(t) \/ SavesJob(t)
  \/ HaltRecord(t) \/ ResumeLoads(t) \/ ResumeSave(t) \/ ResumeRecord(t)

\* Every step is a crash, or of one of the kinds.
LEMMA NextKinds ==
  ASSUME TypeOK, Next
  PROVE  Crash \/ \E t \in Threads : StepOK(t) /\ Kinds(t)
<1>1. SUFFICES ASSUME NEW t \in Threads, Begin(t) \/ Runs(t)
               PROVE  StepOK(t) /\ Kinds(t)
  BY DEF Next
<1>2. CASE Begin(t) \/ TakeJob(t) \/ Again(t) \/ Learn(t)
  BY <1>2, BeginOK, TakeJobOK, AgainOK, LearnOK, QuietSteps DEF Kinds
<1>3. CASE ReadRecord(t) \/ LoadDoc(t) \/ SaveStart(t) \/ MarkJob(t) \/ Register(t)
  BY <1>3, ReadRecordOK, LoadDocOK, SaveStartOK, MarkJobCases, RegisterCases DEF Kinds
<1>4. CASE Report(t) \/ Signal(t) \/ Submitted(t) \/ Loop(t)
  BY <1>4, ReportOK, SignalOK, SubmittedOK, LoopOK DEF Kinds
<1>5. CASE HaltDoc(t) \/ HaltRecord(t)
  BY <1>5, HaltDocOK, HaltRecordOK DEF Kinds
<1>6. CASE ResumeLoad(t) \/ ResumeSave(t) \/ ResumeRecord(t)
  BY <1>6, ResumeLoadOK, ResumeSaveOK, ResumeRecordOK DEF Kinds
<1>7. CASE Step(t) \/ AnalyzeStep(t) \/ JobStep(t) \/ RoundEnds(t)
  BY <1>7, StepActionOK, RoundEndsOK DEF Kinds
<1>8. CASE StartJob(t) \/ JobRuns(t) \/ JobNotes(t) \/ JobCloses(t) \/ RescueJob(t)
  BY <1>8, StartJobOK, JobRunsOK, JobNotesOK, JobClosesOK, RescueJobOK DEF Kinds
<1>9. QED
  BY <1>1, <1>2, <1>3, <1>4, <1>5, <1>6, <1>7, <1>8 DEF Runs, Get, Request, RunsJob

\* The types and the locks when the process starts.
LEMMA InitTypes ==
  ASSUME Init
  PROVE  TypeOK /\ OneHolder
<1>1. PICK left \in Leftovers :
        /\ docRow = [rev |-> 1, doc |-> left.doc] /\ history = left.history
        /\ recRow = left.rec /\ paused = left.paused /\ made = Len(left.history)
  BY DEF Init
<1>2. left.doc \in Doc /\ left.rec \in Record /\ left.history \in Seq(Nat) /\ left.paused \in BOOLEAN
  <2>1. [NewDoc EXCEPT !.state = "executing"] \in Doc
    BY Constants DEF Doc, DocStates
  <2>2. [NewRecord EXCEPT !.control = "paused"] \in Record
    BY Constants DEF Record
  <2>3. [NewRecord EXCEPT !.job.status = "running"] \in Record
    BY DEF NewRecord, Record, Job, JobActive
  <2>4. <<>> \in Seq(Nat) /\ <<1>> \in Seq(Nat)
    OBVIOUS
  <2>5. CASE left = [doc |-> NewDoc, rec |-> NewRecord, history |-> <<>>, paused |-> FALSE]
    BY <2>4, <2>5, Constants
  <2>6. CASE left = [doc |-> [NewDoc EXCEPT !.state = "executing"],
                     rec |-> [NewRecord EXCEPT !.job.status = "running"],
                     history |-> <<>>, paused |-> FALSE]
    BY <2>1, <2>3, <2>4, <2>6
  <2>7. CASE left = [doc |-> NewDoc, rec |-> [NewRecord EXCEPT !.control = "paused"],
                     history |-> <<1>>, paused |-> TRUE]
    BY <2>2, <2>4, <2>7, Constants
  <2>8. QED
    BY <2>5, <2>6, <2>7 DEF Leftovers
<1>3. Len(history) \in Nat
  BY <1>1, <1>2, LenProperties
<1>4. svc \in Service(0) /\ objs \in Seq(Object) /\ Len(objs) = 0
  <2>1. NewService \in Service(0)
    BY DEF NewService, Service
  <2>2. QED
    BY <2>1, EmptySeq DEF Init
<1>5. \A t \in Threads : th[t] = Idle
  BY DEF Init
<1>6. th \in [Threads -> Thread]
  BY StartTypes DEF Init
<1>7. rounds \in Nat /\ calls \in Nat /\ faults \in Nat /\ crashes \in Nat
  BY DEF Init
<1>8. TypeOK
  <2>1. docRow \in [rev : Nat, doc : Doc] /\ history \in Seq(Nat) /\ recRow \in Record
        /\ paused \in BOOLEAN /\ made \in Nat
    BY <1>1, <1>2, <1>3
  <2>2. svc \in [cache : 0 .. Len(objs), known : Nat, halt : BOOLEAN, jobs : BOOLEAN, queue : Seq(Nat)]
    BY <1>4 DEF Service
  <2>3. \A t \in Threads : th[t].pc \notin Building \union {"idle"} => th[t].obj \in DOMAIN objs
    BY <1>5, StartTypes
  <2>4. QED
    BY <1>4, <1>6, <1>7, <2>1, <2>2, <2>3 DEF TypeOK
<1>9. OneHolder
  BY <1>5, StartTypes DEF OneHolder, Holding
<1>10. QED
  BY <1>8, <1>9

\* What a crash leaves.
LEMMA CrashFacts ==
  ASSUME TypeOK, Crash
  PROVE  /\ UNCHANGED <<docRow, history, recRow, made, rounds, paused, calls, faults>>
         /\ objs' = <<>> /\ Len(objs') = 0 /\ svc'.cache = 0 /\ svc'.queue = <<>> /\ ~svc'.jobs
         /\ \A t \in Threads : th'[t] = Idle
         /\ TypeOK' /\ OneHolder'
<1>1. /\ UNCHANGED <<docRow, history, recRow, made, rounds, paused, calls, faults>>
      /\ objs' = <<>> /\ svc' = NewService /\ th' = [t \in Threads |-> Idle]
      /\ crashes' = crashes + 1
  BY DEF Crash, store
<1>2. objs' \in Seq(Object) /\ Len(objs') = 0
  BY <1>1, EmptySeq
<1>3. svc' \in Service(0) /\ svc'.cache = 0 /\ svc'.queue = <<>> /\ ~svc'.jobs
  BY <1>1 DEF NewService, Service
<1>4. th' \in [Threads -> Thread] /\ \A t \in Threads : th'[t] = Idle
  BY <1>1, StartTypes
<1>5. TypeOK'
  <2>1. crashes' \in Nat
    BY <1>1, TableTypes
  <2>2. svc' \in [cache : 0 .. Len(objs'), known : Nat, halt : BOOLEAN, jobs : BOOLEAN, queue : Seq(Nat)]
    BY <1>2, <1>3 DEF Service
  <2>3. \A t \in Threads : th'[t].pc \notin Building \union {"idle"} => th'[t].obj \in DOMAIN objs'
    BY <1>4, StartTypes
  <2>4. QED
    BY <1>1, <1>2, <1>4, <2>1, <2>2, <2>3 DEF TypeOK
<1>6. OneHolder'
  BY <1>4, StartTypes DEF OneHolder, Holding
<1>7. QED
  BY <1>1, <1>2, <1>3, <1>4, <1>5, <1>6

\* Every step keeps the types and the locks.
LEMMA TypesStep ==
  ASSUME TypeOK, OneHolder, [Next]_vars
  PROVE  TypeOK' /\ OneHolder'
<1>1. CASE UNCHANGED vars
  BY <1>1 DEF vars, TypeOK, OneHolder
<1>2. CASE Next
  BY <1>2, NextKinds, StepTypes, CrashFacts
<1>3. QED
  BY <1>1, <1>2

\* The tables, the service's maps, the objects and the threads keep their types
\* (BountyCampaignService, CampaignRecordStore).
THEOREM TypeCorrect == Spec => []TypeOK
<1>1. Init => TypeOK /\ OneHolder
  BY InitTypes
<1>2. TypeOK /\ OneHolder /\ [Next]_vars => (TypeOK /\ OneHolder)'
  BY TypesStep
<1>3. QED
  BY <1>1, <1>2, PTL DEF Spec

-----------------------------------------------------------------------------
(* The research: documents, rounds and a stop *)

\* The places in which a thread has a copy of the orchestrator's document.
Documented == {"starting", "built", "registering"}

\* A document that is built is between two rounds: it was restored (_restore).
BuiltAreRestored ==
  \A t \in Threads : th[t].pc \in Documented => th[t].doc.state # "executing"

\* The engine runs inside a round of its object.
RoundsAreExecuted ==
  \A t \in Threads : th[t].pc = "round" => objs[th[t].obj].doc.state = "executing"

\* Until an object is registered, all copies agree with the stored document
\* about a stop.
StopIsKnown ==
  Len(objs) = 0 =>
    \A t \in Threads : th[t].pc \in Documented =>
      (th[t].doc.state = "stopped" <=> docRow.doc.state = "stopped")

Research == BuiltAreRestored /\ RoundsAreExecuted /\ StopIsKnown

\* The stored decisions are only ever extended, so that a document that
\* contradicts them contradicts them for good.
LEMMA DecisionsAreKept ==
  ASSUME TypeOK, NEW doc \in Doc, Storable(doc), WriteDoc(doc),
         NEW s \in Seq(Nat), ~Agree(s, history)
  PROVE  ~Agree(s, history')
<1>1. PICK n \in DOMAIN s \intersect DOMAIN history : s[n] # history[n]
  BY DEF Agree
<1>2. history \in Seq(Nat) /\ doc.decisions \in Seq(Nat)
  BY TableTypes DEF Doc
<1>3. CASE history' = history
  BY <1>3
<1>4. CASE history' = doc.decisions /\ Len(doc.decisions) > Len(history)
  <2>1. DOMAIN history = 1 .. Len(history) /\ Len(history) \in Nat
    BY <1>2, LenProperties
  <2>2. DOMAIN doc.decisions = 1 .. Len(doc.decisions) /\ Len(doc.decisions) \in Nat
    BY <1>2, LenProperties
  <2>3. n \in DOMAIN doc.decisions
    BY <1>1, <1>4, <2>1, <2>2
  <2>4. doc.decisions[n] = history[n]
    BY <1>1, <2>3 DEF Storable, Agree
  <2>5. QED
    BY <1>1, <1>4, <2>3, <2>4 DEF Agree
<1>5. QED
  BY <1>3, <1>4 DEF WriteDoc

\* Whatever saving a document comes to, contradictions stay.
LEMMA SavesKeepDecisions ==
  ASSUME TypeOK, NEW t \in Threads, NEW d \in Doc, NEW evict \in BOOLEAN, NEW next \in Thread,
         SaveDoc(t, d, evict, next), NEW s \in Seq(Nat), ~Agree(s, history)
  PROVE  ~Agree(s, history')
<1>1. UNCHANGED store \/ (Storable(d) /\ WriteDoc(d))
  BY Zenon DEF SaveDoc
<1>2. CASE UNCHANGED store
  BY <1>2 DEF store
<1>3. CASE Storable(d) /\ WriteDoc(d)
  BY <1>3, DecisionsAreKept
<1>4. QED
  BY <1>1, <1>2, <1>3

\* A step that changes no document.
DocsKept(t) ==
  /\ UNCHANGED <<docRow, history, rounds>> /\ svc'.cache \in {0, svc.cache}
  /\ Len(objs') = Len(objs) /\ \A o \in 1 .. Len(objs) : objs'[o].doc = objs[o].doc
  /\ faults' = 0 => faults = 0
  /\ \E x \in Thread :
       /\ Becomes(t, x)
       /\ x.pc \in Documented =>
            x.doc = Restored(docRow.doc) \/ (th[t].pc \in Documented /\ x.doc = th[t].doc)
       /\ x.pc = "round" <=> th[t].pc = "round"
       /\ x.pc = "round" => x.obj = th[t].obj

\* How the named sets of places lie to each other.
LEMMA NotablePlaces ==
  /\ Documented \subseteq Loaded /\ Loaded \subseteq Notable /\ "round" \in Notable
  /\ Starts \intersect Notable = {} /\ Loaded \subseteq Building
  /\ {"resaving", "resumerec"} \subseteq Notable
  /\ "round" \notin Documented /\ "round" \notin Building
  BY DEF Documented, Loaded, Notable, Starts, Building

\* Saving the record changes no document.
LEMMA RecordKeepsDocs ==
  ASSUME TypeOK, NEW t \in Threads, th[t].pc \notin Building \union {"idle", "round"},
         NEW rec \in Record, NEW next \in Thread, NEW service \in Service(Len(objs)),
         SaveRecord(t, rec, next, service), service.cache = svc.cache, next.pc \notin Notable,
         UNCHANGED <<docRow, history, rounds>>
  PROVE  DocsKept(t)
<1>1. PICK x \in Thread : /\ Becomes(t, x) /\ x \in {next, Failed(t)}
                          /\ SaveRecordEnds(t, rec, next, service, x)
  BY SaveRecordCases
<1>2. th[t].obj \in 1 .. Len(objs) /\ Newer(rec) \in Record
  BY MineTypes, RecordTypes
<1>3. PICK r \in Record : objs' = [objs EXCEPT ![th[t].obj].rec = r]
  BY <1>1, <1>2 DEF SaveRecordEnds
<1>4. Len(objs') = Len(objs) /\ \A o \in 1 .. Len(objs) : objs'[o].doc = objs[o].doc
  BY <1>2, <1>3, ObjectChanges
<1>5. x.pc \notin Notable
  BY <1>1, FailedTypes, NotablePlaces
<1>6. svc'.cache \in {0, svc.cache} /\ (faults' = 0 => faults = 0)
  BY <1>1, TableTypes DEF SaveRecordEnds
<1>7. QED
  BY <1>1, <1>4, <1>5, <1>6, NotablePlaces DEF DocsKept

\* A quiet step changes no document.
LEMMA QuietKeepsDocs ==
  ASSUME TypeOK, NEW t \in Threads, Quiet(t)
  PROVE  DocsKept(t)
<1>1. PICK x \in Thread :
        /\ Becomes(t, x)
        /\ x = [th[t] EXCEPT !.learn = 0] \/ (x.pc \notin Notable /\ th[t].pc # "round")
  BY DEF Quiet
<1>2. CASE x = [th[t] EXCEPT !.learn = 0]
  <2>1. x.pc = th[t].pc /\ x.obj = th[t].obj /\ x.doc = th[t].doc
    BY <1>2, ThreadTypes, LearnTypes
  <2>2. QED
    BY <1>1, <2>1 DEF DocsKept, Quiet
<1>3. CASE x.pc \notin Notable /\ th[t].pc # "round"
  BY <1>1, <1>3, NotablePlaces DEF DocsKept, Quiet
<1>4. QED
  BY <1>1, <1>2, <1>3

\* Reading, marking, and saving a record change no document.
LEMMA OthersKeepDocs ==
  ASSUME TypeOK, NEW t \in Threads,
         \/ ReadRecord(t) \/ LoadDoc(t) \/ MarkJob(t) \/ SavesJob(t)
         \/ HaltRecord(t) \/ ResumeRecord(t)
  PROVE  DocsKept(t)
<1>1. CASE ReadRecord(t)
  <2> DEFINE x == [Go(t, "loading") EXCEPT !.rec = recRow]
  <2>1. th[t].pc = "lookup" /\ Becomes(t, x)
        /\ UNCHANGED <<docRow, history, rounds, svc, objs, faults>>
    BY <1>1 DEF ReadRecord, At, store
  <2>2. x \in Thread /\ x.pc = "loading"
    <3>1. "loading" \in Places
      BY DEF Places
    <3>2. Go(t, "loading") \in Thread /\ Go(t, "loading").pc = "loading" /\ recRow \in Record
      BY <3>1, GoPlace, TableTypes
    <3>3. QED
      BY <3>2 DEF Thread
  <2> HIDE DEF x
  <2>3. QED
    BY <2>1, <2>2 DEF DocsKept, Documented
<1>2. CASE LoadDoc(t)
  <2>1. /\ th[t].pc = "loading" /\ Loads(t, Restored(docRow.doc), "starting")
        /\ UNCHANGED <<docRow, history, rounds, svc, objs, faults>>
    BY <1>2 DEF LoadDoc, At, store
  <2>2. Restored(docRow.doc) \in Doc /\ "starting" \in Places
    BY TableTypes, DocTypes DEF Places
  <2>3. \E x \in Thread : Becomes(t, x) /\ x.pc = "starting" /\ x.doc = Restored(docRow.doc)
    BY <2>1, <2>2, LoadsTypes
  <2>4. QED
    BY <2>1, <2>3 DEF DocsKept, Documented
<1>3. CASE MarkJob(t)
  <2>1. /\ th[t].pc = "built" /\ UNCHANGED <<docRow, history, rounds, objs>>
    BY <1>3, MarkJobCases
  <2>2. PICK x \in Thread :
          /\ Becomes(t, x) /\ MarkJobEnds(t, x)
          /\ x.pc = "registering" => x.doc = th[t].doc
          /\ x.pc \in {"registering", "idle"}
    BY <1>3, MarkJobCases
  <2>3. svc'.cache = svc.cache /\ (faults' = 0 => faults = 0)
    BY <2>2, TableTypes DEF MarkJobEnds
  <2>4. QED
    BY <2>1, <2>2, <2>3 DEF DocsKept, Documented
<1>4. CASE SavesJob(t)
  <2>1. PICK rec \in Record, next \in Thread, service \in Service(Len(objs)) :
          /\ SaveRecord(t, rec, next, service) /\ service.cache = svc.cache
          /\ next.pc \notin Notable
    BY <1>4 DEF SavesJob
  <2>2. th[t].pc \notin Building \union {"idle", "round"} /\ UNCHANGED <<docRow, history, rounds>>
    BY <1>4 DEF SavesJob
  <2>3. QED
    BY <2>1, <2>2, RecordKeepsDocs
<1>5. CASE HaltRecord(t)
  <2> DEFINE rec == [Mine(t).rec EXCEPT !.control = HaltState(th[t].op)]
             service == [svc EXCEPT !.halt = FALSE]
  <2>1. /\ th[t].pc = "haltrec" /\ SaveRecord(t, rec, Reports, service)
        /\ UNCHANGED <<docRow, history, rounds>>
    BY <1>5 DEF HaltRecord, At, store
  <2>2. th[t].pc \notin Building \union {"idle", "round"}
    BY <2>1 DEF Building
  <2>3. rec \in Record
    <3>1. Mine(t).rec \in Record /\ HaltState(th[t].op) \in {"active", "paused", "stopped"}
      BY <2>2, MineTypes DEF HaltState
    <3>2. QED
      BY <3>1, RecordTypes
  <2>4. service \in Service(Len(objs)) /\ service.cache = svc.cache
    BY ServiceChanges
  <2>5. Reports \in Thread /\ Reports.pc \notin Notable
    BY StartTypes DEF Notable, Loaded
  <2> HIDE DEF rec, service
  <2>6. QED
    BY <2>1, <2>2, <2>3, <2>4, <2>5, RecordKeepsDocs
<1>6. CASE ResumeRecord(t)
  <2> DEFINE rec == [Mine(t).rec EXCEPT !.control = "active"]
  <2>1. /\ th[t].pc = "resumerec" /\ SaveRecord(t, rec, Reports, svc)
        /\ UNCHANGED <<docRow, history, rounds>>
    BY <1>6 DEF ResumeRecord, At, store
  <2>2. th[t].pc \notin Building \union {"idle", "round"}
    BY <2>1 DEF Building
  <2>3. rec \in Record /\ svc \in Service(Len(objs))
    BY <2>2, MineTypes, RecordTypes, ServiceTypes
  <2>4. Reports \in Thread /\ Reports.pc \notin Notable
    BY StartTypes DEF Notable, Loaded
  <2> HIDE DEF rec
  <2>5. QED
    BY <2>1, <2>2, <2>3, <2>4, RecordKeepsDocs
<1>7. QED
  BY <1>1, <1>2, <1>3, <1>4, <1>5, <1>6

\* What a step makes of the threads.
LEMMA ThreadsAfter ==
  ASSUME TypeOK, NEW t \in Threads, NEW x, Becomes(t, x)
  PROVE  th'[t] = x /\ \A u \in Threads : u # t => th'[u] = th[u]
  BY DEF Becomes, TypeOK

\* A step that changes no document keeps what is known of the research.
LEMMA DocsKeptResearch ==
  ASSUME TypeOK, Research, RegisteredIsBetweenRounds, NEW t \in Threads, DocsKept(t)
  PROVE  /\ Research' /\ RegisteredIsBetweenRounds'
         /\ ResearchStopped => ResearchStopped' /\ rounds' = rounds
<1>1. PICK x \in Thread :
        /\ Becomes(t, x)
        /\ x.pc \in Documented =>
             x.doc = Restored(docRow.doc) \/ (th[t].pc \in Documented /\ x.doc = th[t].doc)
        /\ x.pc = "round" <=> th[t].pc = "round"
        /\ x.pc = "round" => x.obj = th[t].obj
  BY DEF DocsKept
<1>2. th'[t] = x /\ \A u \in Threads : u # t => th'[u] = th[u]
  BY <1>1, ThreadsAfter
<1>3. /\ UNCHANGED <<docRow, history, rounds>> /\ Len(objs') = Len(objs)
      /\ \A o \in 1 .. Len(objs) : objs'[o].doc = objs[o].doc
      /\ svc'.cache \in {0, svc.cache} /\ (faults' = 0 => faults = 0)
  BY DEF DocsKept
<1>4. /\ Restored(docRow.doc).state # "executing"
      /\ Restored(docRow.doc).state = "stopped" <=> docRow.doc.state = "stopped"
  BY TableTypes, DocTypes
<1>5. BuiltAreRestored'
  BY <1>1, <1>2, <1>4 DEF BuiltAreRestored, Research
<1>6. RoundsAreExecuted'
  <2> SUFFICES ASSUME NEW u \in Threads, th'[u].pc = "round"
               PROVE  objs'[th'[u].obj].doc.state = "executing"
    BY DEF RoundsAreExecuted
  <2>1. th[u].pc = "round" /\ th'[u].obj = th[u].obj
    BY <1>1, <1>2
  <2>2. th[u].obj \in 1 .. Len(objs)
    BY <2>1, MineTypes, NotablePlaces
  <2>3. QED
    BY <1>3, <2>1, <2>2 DEF RoundsAreExecuted, Research
<1>7. StopIsKnown'
  <2> SUFFICES ASSUME Len(objs) = 0, NEW u \in Threads, th'[u].pc \in Documented
               PROVE  th'[u].doc.state = "stopped" <=> docRow.doc.state = "stopped"
    BY <1>3 DEF StopIsKnown
  <2>1. CASE u # t
    BY <1>2, <2>1 DEF StopIsKnown, Research
  <2>2. CASE u = t
    BY <1>1, <1>2, <1>4, <2>2 DEF StopIsKnown, Research
  <2>3. QED
    BY <2>1, <2>2
<1>8. RegisteredIsBetweenRounds'
  <2> SUFFICES ASSUME faults' = 0, svc'.cache # 0, objs'[svc'.cache].doc.state = "executing",
                      Agree(objs'[svc'.cache].doc.decisions, history')
               PROVE  \E u \in Threads : th'[u].obj = svc'.cache /\ th'[u].pc = "round"
    BY DEF RegisteredIsBetweenRounds
  <2>1. svc'.cache = svc.cache /\ svc.cache \in 1 .. Len(objs)
    BY <1>3, ServiceTypes, ObjectTypes
  <2>2. objs'[svc.cache].doc = objs[svc.cache].doc
    BY <1>3, <2>1
  <2>3. PICK u \in Threads : th[u].obj = svc.cache /\ th[u].pc = "round"
    BY <1>3, <2>1, <2>2 DEF RegisteredIsBetweenRounds
  <2>4. th'[u].obj = svc.cache /\ th'[u].pc = "round"
    BY <1>1, <1>2, <2>3
  <2>5. QED
    BY <2>1, <2>4
<1>9. ResearchStopped => ResearchStopped' /\ rounds' = rounds
  <2>1. DOMAIN objs = 1 .. Len(objs)
    BY ObjectTypes
  <2>2. DOMAIN objs' = 1 .. Len(objs)
    BY <1>3, <1>1 DEF DocsKept
  <2>3. QED
    BY <1>3, <2>1, <2>2 DEF ResearchStopped
<1>10. QED
  BY <1>5, <1>6, <1>7, <1>8, <1>9 DEF Research

\* Saving a restored document keeps it.
LEMMA SaveStartResearch ==
  ASSUME TypeOK, Research, RegisteredIsBetweenRounds, NEW t \in Threads, SaveStart(t)
  PROVE  Research' /\ RegisteredIsBetweenRounds'
<1>1. /\ th[t].pc = "starting" /\ SaveDoc(t, th[t].doc, FALSE, Go(t, "built"))
      /\ UNCHANGED <<objs, rounds>>
  BY DEF SaveStart, At
<1>2. /\ Go(t, "built") \in Thread /\ Go(t, "built").pc = "built"
      /\ Go(t, "built").doc = th[t].doc /\ th[t].doc \in Doc
  <2>1. "built" \in Places
    BY DEF Places
  <2>2. Go(t, "built") \in Thread /\ Go(t, "built").pc = "built"
    BY <2>1, GoPlace
  <2>3. Go(t, "built").doc = th[t].doc
    BY <2>1, GoTypes
  <2>4. th[t].doc \in Doc
    BY ThreadTypes
  <2>5. QED
    BY <2>2, <2>3, <2>4
<1>3. PICK x \in Thread :
        /\ Becomes(t, x) /\ SaveDocEnds(t, th[t].doc, FALSE, Go(t, "built"), x)
        /\ (x.pc = "built" /\ x.doc = th[t].doc) \/ x = Failed(t)
  BY <1>1, <1>2, SaveDocCases
<1>4. th'[t] = x /\ \A u \in Threads : u # t => th'[u] = th[u]
  BY <1>3, ThreadsAfter
<1>5. /\ x.pc \in Documented => x.doc = th[t].doc
      /\ x.pc # "round" /\ th[t].pc # "round" /\ th[t].pc \in Documented
  BY <1>1, <1>3, FailedTypes, NotablePlaces DEF Documented
<1>6. docRow' = docRow \/ docRow'.doc = th[t].doc
  BY <1>2, <1>3, WriteTypes DEF SaveDocEnds, store
<1>7. svc'.cache \in {0, svc.cache} /\ (faults' = 0 => faults = 0)
  <2>1. faults \in Nat
    BY TableTypes
  <2>2. QED
    BY <1>3, <2>1 DEF SaveDocEnds
<1>8. BuiltAreRestored'
  BY <1>4, <1>5 DEF BuiltAreRestored, Research
<1>9. RoundsAreExecuted'
  BY <1>1, <1>4, <1>5 DEF RoundsAreExecuted, Research
<1>10. StopIsKnown'
  BY <1>1, <1>4, <1>5, <1>6 DEF StopIsKnown, Research
<1>11. RegisteredIsBetweenRounds'
  <2> SUFFICES ASSUME faults' = 0, svc'.cache # 0, objs[svc'.cache].doc.state = "executing",
                      Agree(objs[svc'.cache].doc.decisions, history')
               PROVE  \E u \in Threads : th'[u].obj = svc'.cache /\ th'[u].pc = "round"
    BY <1>1 DEF RegisteredIsBetweenRounds
  <2>1. svc'.cache = svc.cache /\ svc.cache \in 1 .. Len(objs)
    BY <1>7, ServiceTypes, ObjectTypes
  <2>2. objs[svc.cache].doc.decisions \in Seq(Nat)
    BY <2>1, ObjectTypes DEF Doc
  <2>3. Agree(objs[svc.cache].doc.decisions, history)
    BY <1>1, <1>2, <2>1, <2>2, SavesKeepDecisions
  <2>4. PICK u \in Threads : th[u].obj = svc.cache /\ th[u].pc = "round"
    BY <1>7, <2>1, <2>3 DEF RegisteredIsBetweenRounds
  <2>5. QED
    BY <1>4, <1>5, <2>1, <2>4
<1>12. QED
  BY <1>8, <1>9, <1>10, <1>11 DEF Research

\* So does registering an object that was built.
LEMMA RegisterResearch ==
  ASSUME TypeOK, Research, RegisteredIsBetweenRounds, NEW t \in Threads, Register(t)
  PROVE  /\ Research' /\ RegisteredIsBetweenRounds'
         /\ ResearchStopped /\ OneObject' => ResearchStopped' /\ rounds' = rounds
<1>1. /\ th[t].pc = "registering"
      /\ UNCHANGED <<docRow, history, rounds, faults>>
  BY RegisterCases
<1>2. PICK x \in Thread : Becomes(t, x) /\ x.pc = "got"
  BY RegisterCases
<1>3. th'[t] = x /\ \A u \in Threads : u # t => th'[u] = th[u]
  BY <1>2, ThreadsAfter
<1>4. \/ svc.cache # 0 /\ svc'.cache = svc.cache /\ objs' = objs
      \/ /\ svc.cache = 0 /\ svc'.cache = Len(objs) + 1 /\ Len(objs') = Len(objs) + 1
         /\ \A o \in 1 .. Len(objs) : objs'[o] = objs[o]
         /\ objs'[Len(objs) + 1].doc = th[t].doc
  BY RegisterCases
<1>5. Len(objs) \in Nat /\ DOMAIN objs = 1 .. Len(objs)
  BY ObjectTypes
<1>6. x.pc \notin Documented /\ x.pc # "round" /\ th[t].pc \in Documented /\ th[t].pc # "round"
  BY <1>1, <1>2 DEF Documented
<1>7. \A o \in 1 .. Len(objs) : objs'[o] = objs[o]
  BY <1>4
<1>8. BuiltAreRestored'
  BY <1>3, <1>6 DEF BuiltAreRestored, Research
<1>9. RoundsAreExecuted'
  <2> SUFFICES ASSUME NEW u \in Threads, th'[u].pc = "round"
               PROVE  objs'[th'[u].obj].doc.state = "executing"
    BY DEF RoundsAreExecuted
  <2>1. th[u].pc = "round" /\ th'[u] = th[u]
    BY <1>3, <1>6
  <2>2. th[u].obj \in 1 .. Len(objs)
    BY <2>1, MineTypes, NotablePlaces
  <2>3. QED
    BY <1>7, <2>1, <2>2 DEF RoundsAreExecuted, Research
<1>10. StopIsKnown'
  <2>1. CASE objs' = objs
    BY <1>1, <1>3, <1>6, <2>1 DEF StopIsKnown, Research
  <2>2. CASE Len(objs') = Len(objs) + 1
    <3>1. Len(objs') # 0
      BY <1>5, <2>2
    <3>2. QED
      BY <3>1 DEF StopIsKnown
  <2>3. QED
    BY <1>4, <2>1, <2>2
<1>11. RegisteredIsBetweenRounds'
  <2>1. CASE svc'.cache = svc.cache /\ objs' = objs
    <3>1. ASSUME NEW u \in Threads, th[u].pc = "round"
          PROVE  th'[u] = th[u]
      BY <1>3, <1>6, <3>1
    <3>2. QED
      BY <1>1, <2>1, <3>1 DEF RegisteredIsBetweenRounds
  <2>2. CASE svc'.cache = Len(objs) + 1 /\ objs'[Len(objs) + 1].doc = th[t].doc
    <3>1. th[t].doc.state # "executing"
      BY <1>6 DEF BuiltAreRestored, Research
    <3>2. QED
      BY <2>2, <3>1 DEF RegisteredIsBetweenRounds
  <2>3. QED
    BY <1>4, <2>1, <2>2
<1>12. ASSUME ResearchStopped, OneObject'
       PROVE  ResearchStopped'
  <2>1. CASE objs' = objs
    BY <1>1, <1>12, <2>1 DEF ResearchStopped
  <2>2. CASE /\ Len(objs') = Len(objs) + 1
             /\ objs'[Len(objs) + 1].doc = th[t].doc
    <3>1. Len(objs) = 0
      BY <1>5, <1>12, <2>2 DEF OneObject
    <3>2. th[t].doc.state = "stopped"
      BY <1>6, <1>12, <3>1 DEF StopIsKnown, Research, ResearchStopped
    <3>3. DOMAIN objs' = {1}
      <4>1. objs' \in Seq(Object)
        BY RegisterCases DEF StepOK
      <4>2. DOMAIN objs' = 1 .. 1
        BY <2>2, <3>1, <4>1, LenProperties
      <4>3. QED
        BY <4>2
    <3>4. objs'[1].doc.state = "stopped"
      BY <2>2, <3>1, <3>2
    <3>5. QED
      BY <1>1, <1>12, <3>3, <3>4 DEF ResearchStopped
  <2>3. QED
    BY <1>4, <2>1, <2>2
<1>13. QED
  BY <1>1, <1>8, <1>9, <1>10, <1>11, <1>12 DEF Research


\* Only the engine that runs for an object is inside one of its rounds.
LEMMA SavesStepAlone ==
  ASSUME TypeOK, OneHolder, NEW t \in Threads,
         th[t].pc \notin Building \union {"idle"}, th[t].pc = "round" \/ Free(th[t].obj),
         NEW u \in Threads, u # t, th[u].pc = "round"
  PROVE  th[u].obj # th[t].obj
<1>1. "round" \in Holding
  BY DEF Holding
<1>2. QED
  BY <1>1 DEF OneHolder, Free

\* A document that is saved, by a step or a halt.
LEMMA SavesStepCases ==
  ASSUME TypeOK, NEW t \in Threads, SavesStep(t)
  PROVE  /\ th[t].pc \in {"halting", "round", "got", "stepping"}
         /\ th[t].pc = "round" \/ Free(th[t].obj)
         /\ th[t].pc # "round" => Mine(t).doc.state # "stopped"
         /\ th[t].pc = "round" => rounds' = rounds
         /\ \E d \in Doc, x \in Thread :
              /\ Becomes(t, x) /\ x.pc \notin Notable \ {"round"}
              /\ objs' = [objs EXCEPT ![th[t].obj].doc = d]
              /\ x.pc = "round" => d.state = "executing" /\ x.obj = th[t].obj
              /\ svc'.cache \in {0, svc.cache} /\ (faults' = 0 => faults = 0)
              /\ UNCHANGED store \/ (Storable(d) /\ WriteDoc(d))
              /\ d.state = "executing" /\ faults' = 0 /\ svc'.cache # 0 /\ x.pc # "round" =>
                   ~Agree(d.decisions, history) /\ history' = history
<1>1. PICK d \in Doc, next \in Thread, evict \in BOOLEAN :
        /\ Advance(t, d, evict, next)
        /\ \/ /\ th[t].pc = "halting" /\ Free(th[t].obj) /\ rounds' = rounds
              /\ d.state # "executing" /\ next.pc \notin Notable
              /\ Mine(t).doc.state \notin {"stopped", "executing"}
           \/ /\ th[t].pc = "round" /\ rounds' = rounds
              /\ d.state # "executing" /\ next.pc \notin Notable /\ evict = TRUE
           \/ /\ th[t].pc \in {"got", "stepping"} /\ Free(th[t].obj)
              /\ Mine(t).rec.control = "active" /\ Mine(t).doc.state \notin Stops /\ evict = TRUE
              /\ \/ d.state # "executing" /\ next.pc \notin Notable /\ rounds' = rounds
                 \/ /\ d = [Mine(t).doc EXCEPT !.state = "executing"]
                    /\ next = Go(t, "round")
  BY DEF SavesStep
<1>2. /\ th[t].pc \in {"halting", "round", "got", "stepping"}
      /\ th[t].pc = "round" \/ Free(th[t].obj)
      /\ th[t].pc # "round" => Mine(t).doc.state # "stopped"
      /\ th[t].pc = "round" => rounds' = rounds
  BY <1>1 DEF Stops
<1>3. th[t].pc \notin Building \union {"idle"}
  BY <1>2 DEF Building
<1>4. \/ d.state # "executing" /\ next.pc \notin Notable
      \/ d.state = "executing" /\ next = Go(t, "round") /\ evict = TRUE
  <2>1. CASE d = [Mine(t).doc EXCEPT !.state = "executing"] /\ next = Go(t, "round") /\ evict = TRUE
    <3>1. Mine(t).doc \in Doc
      BY <1>3, MineTypes
    <3>2. d.state = "executing"
      BY <2>1, <3>1 DEF Doc
    <3>3. QED
      BY <2>1, <3>2
  <2>2. QED
    BY <1>1, <2>1
<1>5. next = Go(t, "round") => next.pc = "round" /\ next.obj = th[t].obj
  <2>1. "round" \in Places
    BY DEF Places
  <2>2. Go(t, "round").pc = "round"
    BY <2>1, GoPlace
  <2>3. Go(t, "round").obj = th[t].obj
    BY <2>1, GoTypes
  <2>4. QED
    BY <2>2, <2>3
<1>6. PICK x \in Thread :
        /\ Becomes(t, x) /\ SaveDocEnds(t, d, evict, next, x)
        /\ (x.pc = next.pc /\ x.obj = next.obj) \/ x = Failed(t)
  <2>1. SaveDoc(t, d, evict, next)
    BY <1>1 DEF Advance
  <2>2. QED
    BY <2>1, SaveDocCases
<1>7. x.pc = "round" \/ x.pc \notin Notable
  BY <1>4, <1>5, <1>6, FailedTypes, NotablePlaces
<1>8. x.pc = "round" => d.state = "executing" /\ x.obj = th[t].obj
  <2>1. "round" \in Notable /\ Failed(t).pc \notin Notable
    BY FailedTypes, NotablePlaces
  <2>2. QED
    BY <1>4, <1>5, <1>6, <2>1
<1>9. /\ svc'.cache \in {0, svc.cache} /\ (faults' = 0 => faults = 0)
      /\ UNCHANGED store \/ (Storable(d) /\ WriteDoc(d))
  <2>1. faults \in Nat
    BY TableTypes
  <2>2. QED
    BY <1>6, <2>1 DEF SaveDocEnds, store
<1>10. ASSUME d.state = "executing", faults' = 0, svc'.cache # 0, x.pc # "round"
       PROVE  ~Agree(d.decisions, history) /\ history' = history
  <2>1. next.pc = "round" /\ evict = TRUE
    BY <1>4, <1>5, <1>10
  <2>2. faults \in Nat /\ docRow.rev + 1 \in Nat
    BY TableTypes
  <2>3. [next EXCEPT !.learn = docRow.rev + 1].pc = "round"
    BY <2>1, <2>2, LearnTypes
  <2>4. x # [next EXCEPT !.learn = docRow.rev + 1] /\ faults' # faults + 1
    <3>1. faults' # faults + 1
      BY <1>10, <2>2
    <3>2. QED
      BY <1>10, <2>3, <3>1
  <2>5. /\ ~Storable(d) /\ UNCHANGED store
        /\ svc'.cache = IF (evict /\ svc.known # docRow.rev) \/ Rescued(t) THEN 0 ELSE svc.cache
    BY <1>6, <2>4, Zenon DEF SaveDocEnds
  <2>6. svc.known = docRow.rev
    BY <1>10, <2>1, <2>5
  <2>7. QED
    BY <2>5, <2>6 DEF Storable, store
<1>11. objs' = [objs EXCEPT ![th[t].obj].doc = d]
  BY <1>1 DEF Advance
<1>12. QED
  BY <1>2, <1>6, <1>7, <1>8, <1>9, <1>10, <1>11

\* A step that saves keeps it, and is none of a stopped campaign.
LEMMA SavesStepResearch ==
  ASSUME TypeOK, OneHolder, Research, RegisteredIsBetweenRounds,
         NEW t \in Threads, SavesStep(t)
  PROVE  Research' /\ RegisteredIsBetweenRounds' /\ ~ResearchStopped
<1>1. /\ th[t].pc \in {"halting", "round", "got", "stepping"}
      /\ th[t].pc = "round" \/ Free(th[t].obj)
      /\ th[t].pc # "round" => Mine(t).doc.state # "stopped"
  BY SavesStepCases
<1>2. PICK d \in Doc, x \in Thread :
        /\ Becomes(t, x) /\ x.pc \notin Notable \ {"round"}
        /\ objs' = [objs EXCEPT ![th[t].obj].doc = d]
        /\ x.pc = "round" => d.state = "executing" /\ x.obj = th[t].obj
        /\ svc'.cache \in {0, svc.cache} /\ (faults' = 0 => faults = 0)
        /\ UNCHANGED store \/ (Storable(d) /\ WriteDoc(d))
        /\ d.state = "executing" /\ faults' = 0 /\ svc'.cache # 0 /\ x.pc # "round" =>
             ~Agree(d.decisions, history) /\ history' = history
  BY SavesStepCases
<1>3. th[t].pc \notin Building \union {"idle"} /\ th[t].pc \notin Documented
  BY <1>1 DEF Building, Documented
<1>4. th[t].obj \in 1 .. Len(objs) /\ Len(objs) \in Nat /\ DOMAIN objs = 1 .. Len(objs)
  BY <1>3, MineTypes, ObjectTypes
<1>5. /\ Len(objs') = Len(objs) /\ objs'[th[t].obj].doc = d
      /\ \A o \in 1 .. Len(objs) : o # th[t].obj => objs'[o].doc = objs[o].doc
  BY <1>2, <1>4, ObjectChanges
<1>6. th'[t] = x /\ \A u \in Threads : u # t => th'[u] = th[u]
  BY <1>2, ThreadsAfter
<1>7. x.pc \notin Documented
  BY <1>2, NotablePlaces
<1>8. BuiltAreRestored'
  BY <1>6, <1>7 DEF BuiltAreRestored, Research
<1>9. StopIsKnown'
  <2>1. Len(objs') # 0
    BY <1>4, <1>5
  <2>2. QED
    BY <2>1 DEF StopIsKnown
<1>10. RoundsAreExecuted'
  <2> SUFFICES ASSUME NEW u \in Threads, th'[u].pc = "round"
               PROVE  objs'[th'[u].obj].doc.state = "executing"
    BY DEF RoundsAreExecuted
  <2>1. CASE u = t
    BY <1>2, <1>5, <1>6, <2>1
  <2>2. CASE u # t
    <3>1. th'[u] = th[u] /\ th[u].pc = "round"
      BY <1>6, <2>2
    <3>2. th[u].obj # th[t].obj
      BY <1>1, <1>3, <2>2, <3>1, SavesStepAlone
    <3>3. th[u].obj \in 1 .. Len(objs)
      BY <3>1, MineTypes, NotablePlaces
    <3>4. QED
      BY <1>5, <3>1, <3>2, <3>3 DEF RoundsAreExecuted, Research
  <2>3. QED
    BY <2>1, <2>2
<1>11. RegisteredIsBetweenRounds'
  <2> SUFFICES ASSUME faults' = 0, svc'.cache # 0, objs'[svc'.cache].doc.state = "executing",
                      Agree(objs'[svc'.cache].doc.decisions, history')
               PROVE  \E u \in Threads : th'[u].obj = svc'.cache /\ th'[u].pc = "round"
    BY DEF RegisteredIsBetweenRounds
  <2>1. svc'.cache = svc.cache /\ svc.cache \in 1 .. Len(objs)
    BY <1>2, <1>4, ServiceTypes
  <2>2. CASE svc.cache = th[t].obj
    <3>1. objs'[svc'.cache].doc = d
      BY <1>5, <2>1, <2>2
    <3>2. x.pc = "round"
      BY <1>2, <3>1
    <3>3. QED
      BY <1>2, <1>6, <2>1, <2>2, <3>2
  <2>3. CASE svc.cache # th[t].obj
    <3>1. objs'[svc.cache].doc = objs[svc.cache].doc
      BY <1>5, <2>1, <2>3
    <3>2. objs[svc.cache].doc.decisions \in Seq(Nat)
      BY <2>1, ObjectTypes DEF Doc
    <3>3. Agree(objs[svc.cache].doc.decisions, history)
      <4>1. CASE UNCHANGED store
        BY <2>1, <3>1, <4>1 DEF store
      <4>2. CASE Storable(d) /\ WriteDoc(d)
        BY <2>1, <3>1, <3>2, <4>2, DecisionsAreKept
      <4>3. QED
        BY <1>2, <4>1, <4>2
    <3>4. PICK u \in Threads : th[u].obj = svc.cache /\ th[u].pc = "round"
      BY <1>2, <2>1, <3>1, <3>3 DEF RegisteredIsBetweenRounds
    <3>5. QED
      BY <1>6, <2>1, <2>3, <3>4
  <2>4. QED
    BY <2>2, <2>3
<1>12. ~ResearchStopped
  <2>1. CASE th[t].pc = "round"
    BY <1>4, <2>1 DEF ResearchStopped, RoundsAreExecuted, Research
  <2>2. CASE th[t].pc # "round"
    BY <1>1, <1>4, <2>2 DEF ResearchStopped, Mine
  <2>3. QED
    BY <2>1, <2>2
<1>13. QED
  BY <1>8, <1>9, <1>10, <1>11, <1>12 DEF Research

\* resume puts the restored document into the object (_maybe_resume).
LEMMA ResumeLoadsResearch ==
  ASSUME TypeOK, OneHolder, Research, RegisteredIsBetweenRounds,
         NEW t \in Threads, ResumeLoads(t)
  PROVE  /\ Research' /\ RegisteredIsBetweenRounds'
         /\ ResearchStopped => ResearchStopped' /\ rounds' = rounds
<1> DEFINE d == Resumed(Restored(docRow.doc))
<1>1. /\ th[t].pc = "got" /\ Free(th[t].obj)
      /\ objs' = [objs EXCEPT ![th[t].obj].doc = d]
      /\ UNCHANGED <<docRow, history, svc, rounds, faults>>
  BY DEF ResumeLoads
<1>2. PICK x \in Thread : Becomes(t, x) /\ x.pc = "resaving"
  BY DEF ResumeLoads
<1>3. d \in Doc /\ d.state # "executing" /\ (docRow.doc.state = "stopped" => d.state = "stopped")
  BY TableTypes, DocTypes, ResumedTypes
<1> HIDE DEF d
<1>4. th[t].pc \notin Building \union {"idle"} /\ x.pc \notin Documented /\ x.pc # "round"
  BY <1>1, <1>2 DEF Building, Documented
<1>5. th[t].obj \in 1 .. Len(objs) /\ Len(objs) \in Nat /\ DOMAIN objs = 1 .. Len(objs)
  BY <1>4, MineTypes, ObjectTypes
<1>6. /\ Len(objs') = Len(objs) /\ DOMAIN objs' = 1 .. Len(objs) /\ objs'[th[t].obj].doc = d
      /\ \A o \in 1 .. Len(objs) : o # th[t].obj => objs'[o].doc = objs[o].doc
  BY <1>1, <1>3, <1>5, ObjectChanges
<1>7. th'[t] = x /\ \A u \in Threads : u # t => th'[u] = th[u]
  BY <1>2, ThreadsAfter
<1>8. BuiltAreRestored'
  BY <1>4, <1>7 DEF BuiltAreRestored, Research
<1>9. StopIsKnown'
  <2>1. Len(objs') # 0
    BY <1>5, <1>6
  <2>2. QED
    BY <2>1 DEF StopIsKnown
<1>10. RoundsAreExecuted'
  <2> SUFFICES ASSUME NEW u \in Threads, th'[u].pc = "round"
               PROVE  objs'[th'[u].obj].doc.state = "executing"
    BY DEF RoundsAreExecuted
  <2>1. u # t /\ th'[u] = th[u] /\ th[u].pc = "round"
    BY <1>4, <1>7
  <2>2. th[u].obj # th[t].obj
    BY <1>1, <1>4, <2>1, SavesStepAlone
  <2>3. th[u].obj \in 1 .. Len(objs)
    BY <2>1, MineTypes, NotablePlaces
  <2>4. QED
    BY <1>6, <2>1, <2>2, <2>3 DEF RoundsAreExecuted, Research
<1>11. RegisteredIsBetweenRounds'
  <2> SUFFICES ASSUME faults' = 0, svc'.cache # 0, objs'[svc'.cache].doc.state = "executing",
                      Agree(objs'[svc'.cache].doc.decisions, history')
               PROVE  \E u \in Threads : th'[u].obj = svc'.cache /\ th'[u].pc = "round"
    BY DEF RegisteredIsBetweenRounds
  <2>1. svc'.cache = svc.cache /\ svc.cache \in 1 .. Len(objs)
    BY <1>1, <1>5, ServiceTypes
  <2>2. svc.cache # th[t].obj
    BY <1>3, <1>6, <2>1
  <2>3. objs'[svc.cache].doc = objs[svc.cache].doc
    BY <1>6, <2>1, <2>2
  <2>4. PICK u \in Threads : th[u].obj = svc.cache /\ th[u].pc = "round"
    BY <1>1, <2>1, <2>3 DEF RegisteredIsBetweenRounds
  <2>5. QED
    BY <1>7, <2>1, <2>2, <2>4
<1>12. ASSUME ResearchStopped
       PROVE  ResearchStopped' /\ rounds' = rounds
  <2>1. \A o \in 1 .. Len(objs) : objs'[o].doc.state = "stopped"
    BY <1>3, <1>5, <1>6, <1>12 DEF ResearchStopped
  <2>2. QED
    BY <1>1, <1>6, <1>12, <2>1 DEF ResearchStopped
<1>13. QED
  BY <1>8, <1>9, <1>10, <1>11, <1>12 DEF Research

\* and saves it.
LEMMA ResumeSaveResearch ==
  ASSUME TypeOK, Research, RegisteredIsBetweenRounds, NEW t \in Threads, ResumeSave(t)
  PROVE  /\ Research' /\ RegisteredIsBetweenRounds'
         /\ ResearchStopped => ResearchStopped' /\ rounds' = rounds
<1> DEFINE next == Go(t, "resumerec")
<1>1. /\ th[t].pc = "resaving" /\ SaveDoc(t, Mine(t).doc, TRUE, next)
      /\ UNCHANGED <<objs, rounds>>
  BY DEF ResumeSave, At
<1>2. "resumerec" \in Places /\ th[t].pc \notin Building \union {"idle"}
  BY <1>1 DEF Places, Building
<1>3. next \in Thread /\ next.pc = "resumerec"
  BY <1>2, GoPlace
<1>4. Mine(t).doc \in Doc /\ th[t].obj \in 1 .. Len(objs)
  BY <1>2, MineTypes
<1>5. Len(objs) \in Nat /\ DOMAIN objs = 1 .. Len(objs) /\ Len(objs) # 0
  BY <1>4, ObjectTypes
<1> HIDE DEF next
<1>6. PICK x \in Thread :
        /\ Becomes(t, x) /\ SaveDocEnds(t, Mine(t).doc, TRUE, next, x)
        /\ x.pc = "resumerec" \/ x = Failed(t)
  BY <1>1, <1>3, <1>4, SaveDocCases
<1>7. th'[t] = x /\ \A u \in Threads : u # t => th'[u] = th[u]
  BY <1>6, ThreadsAfter
<1>8. x.pc \notin Documented /\ x.pc # "round"
  BY <1>6, FailedTypes, NotablePlaces DEF Documented
<1>9. docRow' = docRow \/ docRow'.doc = Mine(t).doc
  BY <1>4, <1>6, WriteTypes DEF SaveDocEnds, store
<1>10. svc'.cache \in {0, svc.cache} /\ (faults' = 0 => faults = 0)
  <2>1. faults \in Nat
    BY TableTypes
  <2>2. QED
    BY <1>6, <2>1 DEF SaveDocEnds
<1>11. BuiltAreRestored'
  BY <1>7, <1>8 DEF BuiltAreRestored, Research
<1>12. RoundsAreExecuted'
  BY <1>1, <1>7, <1>8 DEF RoundsAreExecuted, Research
<1>13. StopIsKnown'
  BY <1>1, <1>5 DEF StopIsKnown
<1>14. RegisteredIsBetweenRounds'
  <2> SUFFICES ASSUME faults' = 0, svc'.cache # 0, objs[svc'.cache].doc.state = "executing",
                      Agree(objs[svc'.cache].doc.decisions, history')
               PROVE  \E u \in Threads : th'[u].obj = svc'.cache /\ th'[u].pc = "round"
    BY <1>1 DEF RegisteredIsBetweenRounds
  <2>1. svc'.cache = svc.cache /\ svc.cache \in 1 .. Len(objs)
    BY <1>10, ServiceTypes, ObjectTypes
  <2>2. objs[svc.cache].doc.decisions \in Seq(Nat)
    BY <2>1, ObjectTypes DEF Doc
  <2>3. Agree(objs[svc.cache].doc.decisions, history)
    BY <1>1, <1>3, <1>4, <2>1, <2>2, SavesKeepDecisions
  <2>4. PICK u \in Threads : th[u].obj = svc.cache /\ th[u].pc = "round"
    BY <1>10, <2>1, <2>3 DEF RegisteredIsBetweenRounds
  <2>5. QED
    BY <1>1, <1>7, <2>1, <2>4
<1>15. ASSUME ResearchStopped
       PROVE  ResearchStopped' /\ rounds' = rounds
  <2>1. Mine(t).doc.state = "stopped"
    BY <1>4, <1>5, <1>15 DEF ResearchStopped, Mine
  <2>2. docRow'.doc.state = "stopped"
    BY <1>9, <1>15, <2>1 DEF ResearchStopped
  <2>3. QED
    BY <1>1, <1>15, <2>2 DEF ResearchStopped
<1>16. QED
  BY <1>11, <1>12, <1>13, <1>14, <1>15 DEF Research

\* What is known of the research when the process starts.
LEMMA InitResearch == Init => Research /\ RegisteredIsBetweenRounds
<1> SUFFICES ASSUME Init PROVE Research /\ RegisteredIsBetweenRounds
  OBVIOUS
<1>1. \A t \in Threads : th[t].pc = "idle"
  BY StartTypes DEF Init
<1>2. svc.cache = 0
  BY DEF Init, NewService
<1>3. QED
  BY <1>1, <1>2 DEF Research, BuiltAreRestored, RoundsAreExecuted, StopIsKnown, Documented,
                    RegisteredIsBetweenRounds

\* Every step keeps what is known of the research, and a stop.
LEMMA ResearchStep ==
  ASSUME TypeOK, OneHolder, Research, RegisteredIsBetweenRounds, [Next]_vars
  PROVE  /\ Research' /\ RegisteredIsBetweenRounds'
         /\ ResearchStopped /\ OneObject' /\ (\A t \in Threads : th[t].pc # "starting")
              => ResearchStopped' /\ rounds' = rounds
<1>1. CASE UNCHANGED vars
  BY <1>1 DEF vars, Research, BuiltAreRestored, RoundsAreExecuted, StopIsKnown, Documented,
              RegisteredIsBetweenRounds, ResearchStopped, Agree
<1>2. CASE Crash
  <2>1. /\ UNCHANGED <<docRow, rounds>> /\ objs' = <<>> /\ svc'.cache = 0
        /\ \A t \in Threads : th'[t] = Idle
    BY <1>2, CrashFacts
  <2>2. \A t \in Threads : th'[t].pc = "idle"
    BY <2>1, StartTypes
  <2>3. Research' /\ RegisteredIsBetweenRounds'
    BY <2>1, <2>2 DEF Research, BuiltAreRestored, RoundsAreExecuted, StopIsKnown, Documented,
                      RegisteredIsBetweenRounds
  <2>4. ResearchStopped => ResearchStopped'
    BY <2>1 DEF ResearchStopped
  <2>5. QED
    BY <2>1, <2>3, <2>4
<1>3. ASSUME NEW t \in Threads, Kinds(t)
      PROVE  /\ Research' /\ RegisteredIsBetweenRounds'
             /\ ResearchStopped /\ OneObject' /\ th[t].pc # "starting"
                  => ResearchStopped' /\ rounds' = rounds
  <2>1. CASE \/ Quiet(t) \/ ReadRecord(t) \/ LoadDoc(t) \/ MarkJob(t) \/ SavesJob(t)
             \/ HaltRecord(t) \/ ResumeRecord(t)
    BY <2>1, QuietKeepsDocs, OthersKeepDocs, DocsKeptResearch
  <2>2. CASE SaveStart(t)
    BY <2>2, SaveStartResearch DEF SaveStart, At
  <2>3. CASE Register(t)
    BY <2>3, RegisterResearch
  <2>4. CASE SavesStep(t)
    BY <2>4, SavesStepResearch
  <2>5. CASE ResumeLoads(t)
    BY <2>5, ResumeLoadsResearch
  <2>6. CASE ResumeSave(t)
    BY <2>6, ResumeSaveResearch
  <2>7. QED
    BY <1>3, <2>1, <2>2, <2>3, <2>4, <2>5, <2>6 DEF Kinds
<1>4. QED
  BY <1>1, <1>2, <1>3, NextKinds

\* Unless the database has failed, or the stored decisions contradict its own, the
\* registered orchestrator is between two rounds when no engine runs for it, in
\* every process however often it restarts (_step_locked, get).
THEOREM BetweenRounds == Spec => []RegisteredIsBetweenRounds
<1>1. Init => TypeOK /\ OneHolder /\ Research /\ RegisteredIsBetweenRounds
  BY InitTypes, InitResearch
<1>2. TypeOK /\ OneHolder /\ Research /\ RegisteredIsBetweenRounds /\ [Next]_vars =>
        (TypeOK /\ OneHolder /\ Research /\ RegisteredIsBetweenRounds)'
  BY TypesStep, ResearchStep
<1>3. QED
  BY <1>1, <1>2, PTL DEF Spec

\* A stop that is stored, and that every registered object knows of, is the end of
\* the research (Orchestrator.halt, _maybe_resume, _restore).
THEOREM StopStays == Spec => StopIsFinal
<1>1. Init => TypeOK /\ OneHolder /\ Research /\ RegisteredIsBetweenRounds
  BY InitTypes, InitResearch
<1>2. TypeOK /\ OneHolder /\ Research /\ RegisteredIsBetweenRounds /\ [Next]_vars =>
        (TypeOK /\ OneHolder /\ Research /\ RegisteredIsBetweenRounds)'
  BY TypesStep, ResearchStep
<1>3. TypeOK /\ OneHolder /\ Research /\ RegisteredIsBetweenRounds /\ [Next]_vars =>
        [ResearchStopped /\ OneObject' /\ (\A t \in Threads : th[t].pc # "starting")
           => ResearchStopped' /\ rounds' = rounds]_vars
  BY ResearchStep
<1>4. QED
  BY <1>1, <1>2, <1>3, PTL DEF Spec, StopIsFinal
-----------------------------------------------------------------------------
(* The campaign record: a pause that an operator was told of *)

\* Nobody has a later revision of the record than the table.
RevsKnown ==
  /\ \A o \in 1 .. Len(objs) : objs[o].rec.rev <= recRow.rev
  /\ \A t \in Threads : th[t].pc \in Loaded => th[t].rec.rev <= recRow.rev

Resuming == {"resaving", "resumerec"}

\* A pause is in the table, in every object that can still be saved, in the only
\* object there is, and in the copies that may become one.
PauseStored ==
  paused =>
    /\ recRow.control # "active"
    /\ \A o \in 1 .. Len(objs) : objs[o].rec.rev = recRow.rev \/ OneObject =>
         /\ objs[o].rec.control # "active"
         /\ \A t \in Threads : th[t].obj = o => th[t].pc \notin Resuming
    /\ \A t \in Threads :
         th[t].pc \in Loaded /\ (th[t].rec.rev = recRow.rev \/ Len(objs) = 0) =>
           th[t].rec.control # "active"

\* A step that changes no record.
RecsKept(t) ==
  /\ recRow' = recRow /\ (paused' => paused)
  /\ Len(objs') = Len(objs) /\ \A o \in 1 .. Len(objs) : objs'[o].rec = objs[o].rec
  /\ \E x \in Thread :
       /\ Becomes(t, x)
       /\ x.pc \in Loaded => x.rec = recRow \/ (th[t].pc \in Loaded /\ x.rec = th[t].rec)
       /\ x.pc \in Resuming =>
            ~paused' \/ (th[t].pc \in Resuming /\ x.obj = th[t].obj)

\* A step that changes no record keeps what is known of a pause.
LEMMA RecsKeptPause ==
  ASSUME TypeOK, RevsKnown, PauseStored, NEW t \in Threads, RecsKept(t)
  PROVE  RevsKnown' /\ PauseStored'
<1>1. PICK x \in Thread :
        /\ Becomes(t, x)
        /\ x.pc \in Loaded => x.rec = recRow \/ (th[t].pc \in Loaded /\ x.rec = th[t].rec)
        /\ x.pc \in Resuming =>
             ~paused' \/ (th[t].pc \in Resuming /\ x.obj = th[t].obj)
  BY DEF RecsKept
<1>2. th'[t] = x /\ \A u \in Threads : u # t => th'[u] = th[u]
  BY <1>1, ThreadsAfter
<1>3. /\ recRow' = recRow /\ (paused' => paused)
      /\ Len(objs') = Len(objs) /\ \A o \in 1 .. Len(objs) : objs'[o].rec = objs[o].rec
  BY DEF RecsKept
<1>4. recRow.rev \in Nat
  BY TableTypes, RecordTypes
<1>5. RevsKnown'
  <2>1. \A u \in Threads : th'[u].pc \in Loaded => th'[u].rec.rev <= recRow.rev
    BY <1>1, <1>2, <1>4 DEF RevsKnown
  <2>2. QED
    BY <1>3, <2>1 DEF RevsKnown
<1>6. ASSUME paused'
      PROVE  /\ recRow'.control # "active"
             /\ \A o \in 1 .. Len(objs') : objs'[o].rec.rev = recRow'.rev \/ OneObject' =>
                  /\ objs'[o].rec.control # "active"
                  /\ \A u \in Threads : th'[u].obj = o => th'[u].pc \notin Resuming
             /\ \A u \in Threads :
                  th'[u].pc \in Loaded /\ (th'[u].rec.rev = recRow'.rev \/ Len(objs') = 0) =>
                    th'[u].rec.control # "active"
  <2>1. recRow'.control # "active"
    BY <1>3, <1>6 DEF PauseStored
  <2>2. ASSUME NEW o \in 1 .. Len(objs), objs[o].rec.rev = recRow.rev \/ OneObject
        PROVE  /\ objs[o].rec.control # "active"
               /\ \A u \in Threads : th'[u].obj = o => th'[u].pc \notin Resuming
    BY <1>1, <1>2, <1>3, <1>6, <2>2 DEF PauseStored
  <2>3. ASSUME NEW u \in Threads, th'[u].pc \in Loaded,
               th'[u].rec.rev = recRow.rev \/ Len(objs) = 0
        PROVE  th'[u].rec.control # "active"
    <3>1. CASE u # t
      BY <1>2, <1>3, <1>6, <2>3, <3>1 DEF PauseStored
    <3>2. CASE u = t
      BY <1>1, <1>2, <1>3, <1>6, <2>1, <2>3, <3>2 DEF PauseStored
    <3>3. QED
      BY <3>1, <3>2
  <2>4. OneObject' <=> OneObject
    BY <1>3 DEF OneObject
  <2>5. QED
    BY <1>3, <2>1, <2>2, <2>3, <2>4
<1>7. QED
  BY <1>5, <1>6 DEF PauseStored

\* The places in which a record is copied, or resumed.
LEMMA RecPlaces ==
  /\ Resuming \subseteq Notable /\ Resuming \intersect Loaded = {} /\ Loaded \subseteq Notable
  /\ {"loading", "starting", "built", "registering"} \subseteq Loaded
  /\ "resaving" \in Resuming /\ "resumerec" \in Resuming
  /\ Starts \intersect (Loaded \union Resuming) = {}
  /\ {"got", "round"} \intersect (Loaded \union Resuming) = {}
  /\ Resuming \intersect (Building \union {"idle"}) = {} /\ Resuming \subseteq Holding
  BY DEF Loaded, Resuming, Notable, Starts, Building, Holding

\* The steps that change no record.
LEMMA QuietRecs ==
  ASSUME TypeOK, NEW t \in Threads, Quiet(t)
  PROVE  RecsKept(t)
<1>1. PICK x \in Thread :
        /\ Becomes(t, x)
        /\ x = [th[t] EXCEPT !.learn = 0] \/ (x.pc \notin Notable /\ th[t].pc # "round")
  BY DEF Quiet
<1>2. UNCHANGED <<recRow, objs, paused>>
  BY DEF Quiet
<1>3. CASE x = [th[t] EXCEPT !.learn = 0]
  <2>1. x.pc = th[t].pc /\ x.obj = th[t].obj /\ x.rec = th[t].rec
    BY <1>3, ThreadTypes, LearnTypes
  <2>2. QED
    BY <1>1, <1>2, <2>1 DEF RecsKept
<1>4. CASE x.pc \notin Notable
  BY <1>1, <1>2, <1>4, RecPlaces DEF RecsKept
<1>5. QED
  BY <1>1, <1>3, <1>4

\* Loading changes no record.
LEMMA ReadRecs ==
  ASSUME TypeOK, NEW t \in Threads, ReadRecord(t) \/ LoadDoc(t)
  PROVE  RecsKept(t)
<1>1. UNCHANGED <<recRow, objs, paused>>
  BY DEF ReadRecord, LoadDoc
<1>2. CASE ReadRecord(t)
  <2> DEFINE x == [Go(t, "loading") EXCEPT !.rec = recRow]
  <2>1. Becomes(t, x)
    BY <1>2 DEF ReadRecord
  <2>2. x \in Thread /\ x.pc = "loading" /\ x.rec = recRow
    <3>1. "loading" \in Places
      BY DEF Places
    <3>2. Go(t, "loading") \in Thread /\ Go(t, "loading").pc = "loading" /\ recRow \in Record
      BY <3>1, GoPlace, TableTypes
    <3>3. QED
      BY <3>2 DEF Thread
  <2> HIDE DEF x
  <2>3. QED
    BY <1>1, <2>1, <2>2, RecPlaces DEF RecsKept
<1>3. CASE LoadDoc(t)
  <2>1. th[t].pc = "loading" /\ Loads(t, Restored(docRow.doc), "starting")
    BY <1>3 DEF LoadDoc, At
  <2>2. Restored(docRow.doc) \in Doc /\ "starting" \in Places
    BY TableTypes, DocTypes DEF Places
  <2>3. \E x \in Thread : Becomes(t, x) /\ x.pc = "starting" /\ x.rec = th[t].rec
    BY <2>1, <2>2, LoadsTypes
  <2>4. QED
    BY <1>1, <2>1, <2>3, RecPlaces DEF RecsKept
<1>4. QED
  BY <1>2, <1>3

\* After a save of a document the thread has the record it had, or has failed.
LEMMA SaveDocCarries ==
  ASSUME TypeOK, NEW t \in Threads, NEW d \in Doc, NEW evict \in BOOLEAN, NEW next \in Thread,
         SaveDoc(t, d, evict, next)
  PROVE  \E x \in Thread :
           Becomes(t, x) /\ ((x.pc = next.pc /\ x.rec = next.rec) \/ x = Failed(t))
  BY SaveDocCases

\* Saving a document that was restored changes no record.
LEMMA SavesDocRecs ==
  ASSUME TypeOK, NEW t \in Threads, SaveStart(t) \/ ResumeSave(t)
  PROVE  RecsKept(t)
<1>1. UNCHANGED <<recRow, objs, paused>>
  BY DEF SaveStart, ResumeSave
<1>2. CASE SaveStart(t)
  <2> DEFINE next == Go(t, "built")
  <2>1. th[t].pc = "starting" /\ SaveDoc(t, th[t].doc, FALSE, next)
    BY <1>2 DEF SaveStart, At
  <2>2. "built" \in Places
    BY DEF Places
  <2>3. next \in Thread /\ next.pc = "built"
    BY <2>2, GoPlace
  <2>4. next.rec = th[t].rec
    BY <2>2, GoTypes
  <2>5. th[t].doc \in Doc
    BY ThreadTypes
  <2> HIDE DEF next
  <2>6. PICK x \in Thread :
          Becomes(t, x) /\ ((x.pc = next.pc /\ x.rec = next.rec) \/ x = Failed(t))
    BY <2>1, <2>3, <2>5, SaveDocCarries
  <2>7. QED
    BY <1>1, <2>1, <2>3, <2>4, <2>6, FailedTypes, RecPlaces DEF RecsKept
<1>3. CASE ResumeSave(t)
  <2> DEFINE next == Go(t, "resumerec")
  <2>1. th[t].pc = "resaving" /\ SaveDoc(t, Mine(t).doc, TRUE, next)
    BY <1>3 DEF ResumeSave, At
  <2>2. "resumerec" \in Places
    BY DEF Places
  <2>3. next \in Thread /\ next.pc = "resumerec"
    BY <2>2, GoPlace
  <2>4. next.obj = th[t].obj
    BY <2>2, GoTypes
  <2>5. Mine(t).doc \in Doc
    BY <2>1, MineTypes, RecPlaces
  <2> HIDE DEF next
  <2>6. PICK x \in Thread :
          Becomes(t, x) /\ ((x.pc = next.pc /\ x.obj = next.obj) \/ x = Failed(t))
    BY <2>1, <2>3, <2>5, SaveDocMoves
  <2>7. QED
    BY <1>1, <2>1, <2>3, <2>4, <2>6, FailedTypes, RecPlaces DEF RecsKept
<1>4. QED
  BY <1>2, <1>3

\* Saving a step changes no record.
LEMMA SavesStepRecs ==
  ASSUME TypeOK, NEW t \in Threads, SavesStep(t)
  PROVE  RecsKept(t)
<1>1. th[t].pc \in {"halting", "round", "got", "stepping"} /\ UNCHANGED <<recRow, paused>>
  BY SavesStepCases DEF SavesStep
<1>2. PICK d \in Doc, x \in Thread :
        /\ Becomes(t, x) /\ x.pc \notin Notable \ {"round"}
        /\ objs' = [objs EXCEPT ![th[t].obj].doc = d]
  BY SavesStepCases
<1>3. th[t].obj \in 1 .. Len(objs)
  BY <1>1, MineTypes DEF Building
<1>4. Len(objs') = Len(objs) /\ \A o \in 1 .. Len(objs) : objs'[o].rec = objs[o].rec
  BY <1>2, <1>3, ObjectChanges
<1>5. x.pc \notin Loaded \union Resuming
  BY <1>2, RecPlaces
<1>6. QED
  BY <1>1, <1>2, <1>4, <1>5 DEF RecsKept

\* A resume begins with the document, and ends the pause.
LEMMA ResumeLoadsRecs ==
  ASSUME TypeOK, NEW t \in Threads, ResumeLoads(t)
  PROVE  RecsKept(t)
<1> DEFINE d == Resumed(Restored(docRow.doc))
<1>1. /\ th[t].pc = "got" /\ objs' = [objs EXCEPT ![th[t].obj].doc = d]
      /\ paused' = FALSE /\ recRow' = recRow
  BY DEF ResumeLoads
<1>2. PICK x \in Thread : Becomes(t, x) /\ x.pc = "resaving"
  BY DEF ResumeLoads
<1>3. d \in Doc
  BY TableTypes, DocTypes, ResumedTypes
<1> HIDE DEF d
<1>4. th[t].obj \in 1 .. Len(objs)
  BY <1>1, MineTypes DEF Building
<1>5. Len(objs') = Len(objs) /\ \A o \in 1 .. Len(objs) : objs'[o].rec = objs[o].rec
  BY <1>1, <1>3, <1>4, ObjectChanges
<1>6. x.pc \notin Loaded
  BY <1>2, RecPlaces
<1>7. QED
  BY <1>1, <1>2, <1>5, <1>6 DEF RecsKept

\* Saving a record that is not active, or of a campaign that was not paused.
LEMMA SaveRecordPause ==
  ASSUME TypeOK, RevsKnown, PauseStored, NEW t \in Threads,
         NEW o \in 1 .. Len(objs), NEW r \in Record, objs' = [objs EXCEPT ![o].rec = r],
         NEW x \in Thread, Becomes(t, x), x.pc \notin Notable,
         r.rev <= recRow'.rev,
         recRow' = recRow \/ recRow'.rev = recRow.rev + 1,
         paused' =>
           /\ recRow'.control # "active" /\ (paused \/ recRow'.rev = recRow.rev + 1)
           /\ r.rev = recRow'.rev \/ OneObject =>
                /\ r.control # "active"
                /\ \A u \in Threads : u # t /\ th[u].obj = o => th[u].pc \notin Resuming
  PROVE  RevsKnown' /\ PauseStored'
<1>1. th'[t] = x /\ \A u \in Threads : u # t => th'[u] = th[u]
  BY ThreadsAfter
<1>2. x.pc \notin Loaded \union Resuming
  BY RecPlaces
<1>3. /\ Len(objs') = Len(objs) /\ objs'[o].rec = r
      /\ \A n \in 1 .. Len(objs) : n # o => objs'[n].rec = objs[n].rec
  BY ObjectChanges
<1>4. recRow.rev \in Nat /\ recRow'.rev >= recRow.rev /\ Len(objs) \in Nat
  <2>1. recRow.rev \in Nat
    BY TableTypes, RecordTypes
  <2>2. Len(objs) \in Nat
    BY ObjectTypes
  <2>3. CASE recRow' = recRow
    BY <2>1, <2>2, <2>3
  <2>4. CASE recRow'.rev = recRow.rev + 1
    BY <2>1, <2>2, <2>4
  <2>5. QED
    BY <2>3, <2>4
<1>5. recRow'.rev \in Nat
  BY <1>4
<1>6. \A n \in 1 .. Len(objs) : objs[n].rec.rev \in Nat /\ objs[n].rec.rev <= recRow.rev
  BY ObjectTypes, RecordTypes DEF RevsKnown
<1>7. \A u \in Threads : th[u].rec.rev \in Nat /\
        (th[u].pc \in Loaded => th[u].rec.rev <= recRow.rev)
  BY ThreadTypes, RecordTypes DEF RevsKnown
<1>8. RevsKnown'
  <2>1. \A n \in 1 .. Len(objs) : objs'[n].rec.rev <= recRow'.rev
    BY <1>3, <1>4, <1>5, <1>6
  <2>2. \A u \in Threads : th'[u].pc \in Loaded => th'[u].rec.rev <= recRow'.rev
    BY <1>1, <1>2, <1>4, <1>5, <1>7
  <2>3. QED
    BY <1>3, <2>1, <2>2 DEF RevsKnown
<1>9. ASSUME paused'
      PROVE  /\ recRow'.control # "active"
             /\ \A n \in 1 .. Len(objs') : objs'[n].rec.rev = recRow'.rev \/ OneObject' =>
                  /\ objs'[n].rec.control # "active"
                  /\ \A u \in Threads : th'[u].obj = n => th'[u].pc \notin Resuming
             /\ \A u \in Threads :
                  th'[u].pc \in Loaded /\ (th'[u].rec.rev = recRow'.rev \/ Len(objs') = 0) =>
                    th'[u].rec.control # "active"
  <2>1. recRow'.control # "active" /\ (paused \/ recRow'.rev = recRow.rev + 1)
    BY <1>9
  <2>2. OneObject' <=> OneObject
    BY <1>3 DEF OneObject
  <2>3. ASSUME NEW n \in 1 .. Len(objs), objs'[n].rec.rev = recRow'.rev \/ OneObject
        PROVE  /\ objs'[n].rec.control # "active"
               /\ \A u \in Threads : th'[u].obj = n => th'[u].pc \notin Resuming
    <3>1. CASE n = o
      BY <1>1, <1>2, <1>3, <1>9, <2>3, <3>1
    <3>2. CASE n # o
      <4>1. objs'[n].rec = objs[n].rec
        BY <1>3, <3>2
      <4>2. ~OneObject
        BY <1>4, <3>2 DEF OneObject
      <4>3. recRow'.rev # recRow.rev + 1
        BY <1>4, <1>6, <2>3, <4>1, <4>2
      <4>4. paused /\ recRow' = recRow
        BY <2>1, <4>3
      <4>5. QED
        BY <1>1, <1>2, <2>3, <4>1, <4>2, <4>4 DEF PauseStored
    <3>3. QED
      BY <3>1, <3>2
  <2>4. ASSUME NEW u \in Threads, th'[u].pc \in Loaded, th'[u].rec.rev = recRow'.rev
        PROVE  th'[u].rec.control # "active"
    <3>1. u # t /\ th'[u] = th[u]
      BY <1>1, <1>2, <2>4
    <3>2. recRow'.rev # recRow.rev + 1
      BY <1>4, <1>7, <2>4, <3>1
    <3>3. paused /\ recRow' = recRow
      BY <2>1, <3>2
    <3>4. QED
      BY <2>4, <3>1, <3>3 DEF PauseStored
  <2>5. Len(objs') # 0
    BY <1>3, <1>4
  <2>6. QED
    BY <1>3, <2>1, <2>2, <2>3, <2>4, <2>5
<1>10. QED
  BY <1>8, <1>9 DEF PauseStored

\* The outcomes of SaveRecord, as far as the records go.
RecordEnds(t, rec, next, r, x) ==
  /\ objs' = [objs EXCEPT ![th[t].obj].rec = r]
  /\ Becomes(t, x) /\ x.pc \notin Notable
  /\ r.control = rec.control
  /\ \/ /\ recRow.rev = rec.rev /\ recRow' = Newer(rec) /\ r = Newer(rec) /\ x = next
     \/ recRow' = recRow /\ r.rev = rec.rev /\ x = Failed(t)
     \/ /\ recRow.rev = rec.rev /\ recRow' = Newer(rec) /\ r.rev = rec.rev
        /\ x = Failed(t)

\* What a save of a record leaves in the table and in the object.
LEMMA SaveRecordRecs ==
  ASSUME TypeOK, NEW t \in Threads, th[t].pc \notin Building \union {"idle"},
         NEW rec \in Record, NEW next \in Thread, NEW service \in Service(Len(objs)),
         SaveRecord(t, rec, next, service), next.pc \notin Notable
  PROVE  \E r \in Record, x \in Thread : RecordEnds(t, rec, next, r, x)
<1>1. PICK x \in Thread : /\ Becomes(t, x) /\ x \in {next, Failed(t)}
                          /\ SaveRecordEnds(t, rec, next, service, x)
  BY SaveRecordCases
<1>2. x.pc \notin Notable
  BY <1>1, FailedTypes, NotablePlaces
<1>3. Newer(rec) \in Record /\ Newer(rec).control = rec.control
  BY RecordTypes
<1>4. CASE /\ recRow.rev = rec.rev /\ recRow' = Newer(rec)
           /\ objs' = [objs EXCEPT ![th[t].obj].rec = Newer(rec)] /\ x = next
  <2>1. RecordEnds(t, rec, next, Newer(rec), x)
    BY <1>1, <1>2, <1>3, <1>4 DEF RecordEnds
  <2>2. QED
    BY <1>3, <2>1
<1>5. CASE /\ recRow' = recRow \/ (recRow.rev = rec.rev /\ recRow' = Newer(rec))
           /\ objs' = [objs EXCEPT ![th[t].obj].rec = rec] /\ x = Failed(t)
  <2>1. RecordEnds(t, rec, next, rec, x)
    BY <1>1, <1>2, <1>5 DEF RecordEnds
  <2>2. QED
    BY <2>1
<1>6. QED
  BY <1>1, <1>4, <1>5 DEF SaveRecordEnds

\* A record under another control.
LEMMA ControlTypes ==
  ASSUME NEW rec \in Record, NEW control \in {"active", "paused", "stopped"}
  PROVE  /\ [rec EXCEPT !.control = control] \in Record
         /\ [rec EXCEPT !.control = control].control = control
         /\ [rec EXCEPT !.control = control].rev = rec.rev
  BY DEF Record

\* Saving a record keeps what is known of a pause.
LEMMA SavesJobPause ==
  ASSUME TypeOK, OneHolder, RevsKnown, PauseStored, NEW t \in Threads,
         SavesJob(t) \/ HaltRecord(t) \/ ResumeRecord(t)
  PROVE  RevsKnown' /\ PauseStored' /\ rounds' = rounds
<1> DEFINE o == th[t].obj
<1>1. PICK rec \in Record, next \in Thread, service \in Service(Len(objs)) :
        /\ SaveRecord(t, rec, next, service) /\ next.pc \notin Notable
        /\ rec.rev = Mine(t).rec.rev /\ th[t].pc \notin Building \union {"idle"}
        /\ \/ rec.control = Mine(t).rec.control /\ paused' = paused
           \/ /\ th[t].pc = "haltrec" /\ rec.control # "active"
              /\ next = Reports /\ (paused' => paused \/ th'[t] = Reports)
           \/ th[t].pc = "resumerec" /\ paused' = paused
  <2>1. CASE SavesJob(t)
    BY <2>1 DEF SavesJob
  <2>2. CASE HaltRecord(t)
    <3>1. /\ th[t].pc = "haltrec" /\ (paused' => paused \/ th'[t] = Reports)
          /\ SaveRecord(t, [Mine(t).rec EXCEPT !.control = HaltState(th[t].op)], Reports,
                        [svc EXCEPT !.halt = FALSE])
      BY <2>2 DEF HaltRecord, At
    <3>2. th[t].pc \notin Building \union {"idle"} /\ HaltState(th[t].op) \in {"paused", "stopped"}
      BY <3>1 DEF Building, HaltState
    <3>3. PICK r \in Record : r = Mine(t).rec
      BY <3>2, MineTypes
    <3>4. /\ [r EXCEPT !.control = HaltState(th[t].op)] \in Record
          /\ [r EXCEPT !.control = HaltState(th[t].op)].control = HaltState(th[t].op)
          /\ [r EXCEPT !.control = HaltState(th[t].op)].rev = r.rev
      BY <3>2, ControlTypes
    <3>5. [svc EXCEPT !.halt = FALSE] \in Service(Len(objs))
      BY ServiceChanges
    <3>6. Reports \in Thread /\ Reports.pc \notin Notable
      BY StartTypes DEF Notable, Loaded
    <3>7. QED
      BY <3>1, <3>2, <3>3, <3>4, <3>5, <3>6
  <2>3. CASE ResumeRecord(t)
    <3>1. /\ th[t].pc = "resumerec" /\ paused' = paused
          /\ SaveRecord(t, [Mine(t).rec EXCEPT !.control = "active"], Reports, svc)
      BY <2>3 DEF ResumeRecord, At
    <3>2. th[t].pc \notin Building \union {"idle"}
      BY <3>1, RecPlaces
    <3>3. PICK r \in Record : r = Mine(t).rec
      BY <3>2, MineTypes
    <3>4. /\ [r EXCEPT !.control = "active"] \in Record
          /\ [r EXCEPT !.control = "active"].rev = r.rev
      BY RecordTypes
    <3>5. svc \in Service(Len(objs))
      BY ServiceTypes
    <3>6. Reports \in Thread /\ Reports.pc \notin Notable
      BY StartTypes DEF Notable, Loaded
    <3>7. QED
      BY <3>1, <3>2, <3>3, <3>4, <3>5, <3>6
  <2>4. QED
    BY <2>1, <2>2, <2>3
<1>2. rounds' = rounds
  BY DEF SavesJob, HaltRecord, ResumeRecord
<1>3. PICK r \in Record, x \in Thread : RecordEnds(t, rec, next, r, x)
  BY <1>1, SaveRecordRecs
<1>4. /\ objs' = [objs EXCEPT ![o].rec = r]
       /\ Becomes(t, x) /\ x.pc \notin Notable /\ r.control = rec.control
       /\ \/ /\ recRow.rev = rec.rev /\ recRow' = Newer(rec) /\ r = Newer(rec) /\ x = next
          \/ recRow' = recRow /\ r.rev = rec.rev /\ x = Failed(t)
          \/ /\ recRow.rev = rec.rev /\ recRow' = Newer(rec) /\ r.rev = rec.rev
             /\ x = Failed(t)
  BY <1>3 DEF RecordEnds
<1>5. o \in 1 .. Len(objs)
  BY <1>1, MineTypes
<1>6. /\ recRow.rev \in Nat /\ rec.rev \in Nat /\ rec.rev <= recRow.rev
      /\ Newer(rec).rev = rec.rev + 1 /\ Newer(rec).control = rec.control
  <2>1. recRow.rev \in Nat
    BY TableTypes, RecordTypes
  <2>2. rec.rev <= recRow.rev
    BY <1>1, <1>5 DEF RevsKnown, Mine
  <2>3. rec.rev \in Nat /\ Newer(rec).rev = rec.rev + 1 /\ Newer(rec).control = rec.control
    BY RecordTypes
  <2>4. QED
    BY <2>1, <2>2, <2>3
<1>7. recRow' = recRow \/ recRow'.rev = recRow.rev + 1
  BY <1>4, <1>6
<1>8. r.rev <= recRow'.rev
  <2>1. CASE r = Newer(rec) /\ recRow' = Newer(rec)
    BY <1>6, <2>1
  <2>2. CASE r.rev = rec.rev /\ (recRow' = recRow \/ recRow'.rev = rec.rev + 1)
    BY <1>6, <2>2
  <2>3. QED
    BY <1>4, <1>6, <2>1, <2>2
\* An object that is paused, and can still be saved or is the only one.
<1>9. ASSUME paused, Mine(t).rec.rev = recRow.rev \/ OneObject
      PROVE  /\ Mine(t).rec.control # "active" /\ th[t].pc # "resumerec"
             /\ \A u \in Threads : th[u].obj = o => th[u].pc \notin Resuming
  BY <1>5, <1>9 DEF PauseStored, Mine, Resuming
<1>10. ASSUME paused'
      PROVE  /\ recRow'.control # "active" /\ (paused \/ recRow'.rev = recRow.rev + 1)
             /\ r.rev = recRow'.rev \/ OneObject =>
                  /\ r.control # "active"
                  /\ \A u \in Threads : u # t /\ th[u].obj = o => th[u].pc \notin Resuming
  <2>1. CASE th[t].pc = "haltrec" /\ rec.control # "active" /\ (paused \/ x = Reports)
    <3>1. \A u \in Threads : u # t /\ th[u].obj = o => th[u].pc \notin Resuming
      BY <2>1, RecPlaces DEF OneHolder, Holding
    <3>2. Failed(t) # Reports
      BY FailedTypes, StartTypes
    <3>3. paused \/ (recRow' = Newer(rec) /\ recRow.rev = rec.rev)
      BY <1>4, <2>1, <3>2, Zenon
    <3>4. recRow'.control # "active"
      BY <1>4, <1>6, <2>1, <3>3 DEF PauseStored
    <3>5. QED
      BY <1>4, <1>6, <2>1, <3>1, <3>3, <3>4
  <2>2. CASE paused /\ (th[t].pc = "resumerec" \/ rec.control = Mine(t).rec.control)
    <3>1. CASE recRow' = Newer(rec) /\ recRow.rev = rec.rev
      <4>1. th[t].pc # "resumerec" /\ rec.control # "active"
        BY <1>1, <1>9, <2>2, <3>1
      <4>2. QED
        BY <1>1, <1>4, <1>6, <1>9, <2>2, <3>1, <4>1
    <3>2. CASE recRow' = recRow /\ r.rev = rec.rev
      <4>1. recRow'.control # "active"
        BY <2>2, <3>2 DEF PauseStored
      <4>2. QED
        BY <1>1, <1>4, <1>9, <2>2, <3>2, <4>1
    <3>3. QED
      BY <1>4, <3>1, <3>2
  <2>3. th'[t] = x
    BY <1>4, ThreadsAfter
  <2>4. QED
    BY <1>1, <1>10, <2>1, <2>2, <2>3
<1> HIDE DEF o
<1>11. QED
  BY <1>2, <1>4, <1>5, <1>7, <1>8, <1>10, SaveRecordPause

\* So does marking a job as interrupted.
LEMMA MarkJobPause ==
  ASSUME TypeOK, RevsKnown, PauseStored, NEW t \in Threads, MarkJob(t)
  PROVE  RevsKnown' /\ PauseStored' /\ rounds' = rounds
<1> DEFINE rec == Interrupted(th[t].rec)
<1>1. th[t].pc = "built" /\ UNCHANGED <<objs, paused, rounds>>
  BY MarkJobCases DEF MarkJob
<1>2. PICK x \in Thread :
        Becomes(t, x) /\ MarkJobEnds(t, x) /\ x.pc \in {"registering", "idle"}
  BY MarkJobCases
<1>3. th'[t] = x /\ \A u \in Threads : u # t => th'[u] = th[u]
  BY <1>2, ThreadsAfter
<1>4. /\ Newer(rec) \in Record /\ Newer(rec).rev = th[t].rec.rev + 1
      /\ Newer(rec).control = th[t].rec.control
  <2>1. th[t].rec \in Record
    BY ThreadTypes
  <2>2. rec \in Record /\ rec.rev = th[t].rec.rev /\ rec.control = th[t].rec.control
    BY <2>1, RecordTypes
  <2> HIDE DEF rec
  <2>3. Newer(rec) \in Record /\ Newer(rec).rev = rec.rev + 1 /\ Newer(rec).control = rec.control
    BY <2>2, RecordTypes
  <2>4. QED
    BY <2>2, <2>3
<1>5. \/ recRow' = recRow /\ x.pc = "registering" /\ x.rec = th[t].rec
      \/ /\ recRow.rev = th[t].rec.rev /\ recRow' = Newer(rec)
         /\ x.pc = "registering" => x.rec = Newer(rec)
      \/ recRow' = recRow /\ x.pc = "idle"
  <2>1. "registering" \in Places
    BY DEF Places
  <2>2. /\ Go(t, "registering") \in Thread /\ Go(t, "registering").pc = "registering"
    BY <2>1, GoPlace
  <2>3. Go(t, "registering").rec = th[t].rec
    BY <2>1, GoTypes
  <2>4. [Go(t, "registering") EXCEPT !.rec = Newer(rec)].rec = Newer(rec)
    BY <2>2 DEF Thread
  <2>5. Idle.pc = "idle"
    BY StartTypes
  <2> HIDE DEF rec
  <2>6. QED
    BY <1>2, <2>2, <2>3, <2>4, <2>5 DEF MarkJobEnds, rec
<1>6. x.pc \in {"registering", "idle"}
  BY <1>2
<1> HIDE DEF rec
<1>7. recRow.rev \in Nat /\ th[t].pc \in Loaded
  <2>1. recRow.rev \in Nat
    BY TableTypes, RecordTypes
  <2>2. QED
    BY <1>1, <2>1, RecPlaces
<1>8. CASE recRow' = recRow /\ (x.pc = "registering" => x.rec = th[t].rec)
  <2>1. x.pc \notin Resuming /\ (x.pc \in Loaded => x.pc = "registering")
    BY <1>6 DEF Loaded, Resuming
  <2>2. RecsKept(t)
    BY <1>1, <1>2, <1>7, <1>8, <2>1 DEF RecsKept
  <2>3. QED
    BY <1>1, <2>2, RecsKeptPause
<1>9. CASE /\ recRow.rev = th[t].rec.rev /\ recRow' = Newer(rec)
           /\ x.pc = "registering" => x.rec = Newer(rec)
  <2>1. recRow'.rev = recRow.rev + 1 /\ recRow'.control = th[t].rec.control
    BY <1>4, <1>9
  <2>2. x.pc \notin Resuming /\ (x.pc \in Loaded => x.pc = "registering")
    BY <1>6 DEF Loaded, Resuming
  <2>3. \A n \in 1 .. Len(objs) : objs[n].rec.rev \in Nat /\ objs[n].rec.rev <= recRow.rev
    BY ObjectTypes, RecordTypes DEF RevsKnown
  <2>4. \A u \in Threads : th[u].rec.rev \in Nat /\
          (th[u].pc \in Loaded => th[u].rec.rev <= recRow.rev)
    BY ThreadTypes, RecordTypes DEF RevsKnown
  <2>5. \A u \in Threads : th'[u].pc \in Loaded =>
          (u = t /\ th'[u].rec = recRow') \/ (u # t /\ th'[u] = th[u])
    BY <1>3, <1>9, <2>2
  <2>6. RevsKnown'
    <3>1. \A n \in 1 .. Len(objs) : objs[n].rec.rev <= recRow'.rev
      BY <1>7, <2>1, <2>3
    <3>2. ASSUME NEW u \in Threads, th'[u].pc \in Loaded
          PROVE  th'[u].rec.rev <= recRow'.rev
      <4>1. CASE th'[u].rec = recRow'
        BY <1>7, <2>1, <4>1
      <4>2. CASE th'[u] = th[u]
        BY <1>7, <2>1, <2>4, <3>2, <4>2
      <4>3. QED
        BY <2>5, <3>2, <4>1, <4>2
    <3>3. QED
      BY <1>1, <3>1, <3>2 DEF RevsKnown
  <2>7. ASSUME paused
        PROVE  /\ recRow'.control # "active"
               /\ \A o \in 1 .. Len(objs) : objs[o].rec.rev = recRow'.rev \/ OneObject =>
                    /\ objs[o].rec.control # "active"
                    /\ \A u \in Threads : th'[u].obj = o => th'[u].pc \notin Resuming
               /\ \A u \in Threads :
                    th'[u].pc \in Loaded /\ (th'[u].rec.rev = recRow'.rev \/ Len(objs) = 0) =>
                      th'[u].rec.control # "active"
    <3>1. recRow'.control # "active"
      BY <1>7, <1>9, <2>1, <2>7 DEF PauseStored
    <3>2. ASSUME NEW o \in 1 .. Len(objs), objs[o].rec.rev = recRow'.rev \/ OneObject
          PROVE  /\ objs[o].rec.control # "active"
                 /\ \A u \in Threads : th'[u].obj = o => th'[u].pc \notin Resuming
      <4>1. OneObject
        BY <1>7, <2>1, <2>3, <3>2
      <4>2. QED
        BY <1>3, <2>2, <2>7, <4>1 DEF PauseStored
    <3>3. ASSUME NEW u \in Threads, th'[u].pc \in Loaded,
                 th'[u].rec.rev = recRow'.rev \/ Len(objs) = 0
          PROVE  th'[u].rec.control # "active"
      <4>1. CASE th'[u].rec = recRow'
        BY <3>1, <4>1
      <4>2. CASE u # t /\ th'[u] = th[u]
        <5>1. th[u].pc \in Loaded /\ Len(objs) = 0
          BY <1>7, <2>1, <2>4, <3>3, <4>2
        <5>2. QED
          BY <2>7, <4>2, <5>1 DEF PauseStored
      <4>3. QED
        BY <2>5, <3>3, <4>1, <4>2
    <3>4. QED
      BY <3>1, <3>2, <3>3
  <2>8. OneObject' <=> OneObject
    BY <1>1 DEF OneObject
  <2>9. QED
    BY <1>1, <2>6, <2>7, <2>8 DEF PauseStored
<1>10. QED
  BY <1>5, <1>8, <1>9

\* So does registering an object: its copy of the record was kept.
LEMMA RegisterPause ==
  ASSUME TypeOK, RevsKnown, PauseStored, NEW t \in Threads, Register(t)
  PROVE  RevsKnown' /\ PauseStored' /\ rounds' = rounds
<1>1. th[t].pc = "registering" /\ UNCHANGED <<recRow, paused, rounds>>
  BY RegisterCases
<1>2. PICK x \in Thread : Becomes(t, x) /\ x.pc = "got"
  BY RegisterCases
<1>3. \/ objs' = objs
      \/ /\ Len(objs') = Len(objs) + 1
         /\ \A o \in 1 .. Len(objs) : objs'[o] = objs[o]
         /\ objs'[Len(objs) + 1].rec = th[t].rec
  BY RegisterCases
<1>4. x.pc \notin Loaded \union Resuming /\ th[t].pc \in Loaded
  BY <1>1, <1>2, RecPlaces
<1>5. th'[t] = x /\ \A u \in Threads : u # t => th'[u] = th[u]
  BY <1>2, ThreadsAfter
<1>6. CASE objs' = objs
  <2>1. RecsKept(t)
    BY <1>1, <1>2, <1>4, <1>6 DEF RecsKept
  <2>2. QED
    BY <1>1, <2>1, RecsKeptPause
<1>7. CASE /\ Len(objs') = Len(objs) + 1
           /\ \A o \in 1 .. Len(objs) : objs'[o] = objs[o]
           /\ objs'[Len(objs) + 1].rec = th[t].rec
  <2>1. Len(objs) \in Nat
    BY ObjectTypes
  <2>2. \A o \in 1 .. Len(objs') :
          (o \in 1 .. Len(objs) /\ objs'[o] = objs[o])
          \/ (o = Len(objs) + 1 /\ objs'[o].rec = th[t].rec)
    BY <1>7, <2>1
  <2>3. th[t].rec.rev <= recRow.rev
    BY <1>4 DEF RevsKnown
  <2>4. \A u \in Threads : th'[u].pc \in Loaded \union Resuming => u # t /\ th'[u] = th[u]
    BY <1>4, <1>5
  <2>5. RevsKnown'
    BY <1>1, <2>2, <2>3, <2>4 DEF RevsKnown
  <2>6. OneObject' => Len(objs) = 0
    BY <1>7, <2>1 DEF OneObject
  <2>7. ASSUME paused
        PROVE  /\ recRow.control # "active"
               /\ \A o \in 1 .. Len(objs') : objs'[o].rec.rev = recRow.rev \/ OneObject' =>
                    /\ objs'[o].rec.control # "active"
                    /\ \A u \in Threads : th'[u].obj = o => th'[u].pc \notin Resuming
               /\ \A u \in Threads :
                    th'[u].pc \in Loaded /\ (th'[u].rec.rev = recRow.rev \/ Len(objs') = 0) =>
                      th'[u].rec.control # "active"
    <3>1. ASSUME NEW o \in 1 .. Len(objs'), objs'[o].rec.rev = recRow.rev \/ OneObject'
          PROVE  /\ objs'[o].rec.control # "active"
                 /\ \A u \in Threads : th'[u].obj = o => th'[u].pc \notin Resuming
      <4>1. CASE o \in 1 .. Len(objs) /\ objs'[o] = objs[o]
        <5>1. objs[o].rec.rev = recRow.rev
          BY <2>1, <2>6, <3>1, <4>1
        <5>2. QED
          BY <2>4, <2>7, <4>1, <5>1 DEF PauseStored
      <4>2. CASE o = Len(objs) + 1 /\ objs'[o].rec = th[t].rec
        <5>1. objs'[o].rec.control # "active"
          BY <1>4, <2>6, <2>7, <3>1, <4>2 DEF PauseStored
        <5>2. ASSUME NEW u \in Threads, th'[u].pc \in Resuming
              PROVE  th'[u].obj # o
          <6>1. th[u].pc \in Resuming /\ th'[u] = th[u]
            BY <2>4, <5>2
          <6>2. th[u].obj \in 1 .. Len(objs)
            BY <6>1, MineTypes, RecPlaces
          <6>3. QED
            BY <2>1, <4>2, <6>1, <6>2
        <5>3. QED
          BY <5>1, <5>2
      <4>3. QED
        BY <2>2, <4>1, <4>2
    <3>2. Len(objs') # 0
      BY <1>7, <2>1
    <3>3. QED
      BY <2>4, <2>7, <3>1, <3>2 DEF PauseStored
  <2>8. QED
    BY <1>1, <2>5, <2>7 DEF PauseStored
<1>8. QED
  BY <1>3, <1>6, <1>7

\* What is known of a pause when the process starts.
LEMMA InitPause == Init => RevsKnown /\ PauseStored
<1> SUFFICES ASSUME Init PROVE RevsKnown /\ PauseStored
  OBVIOUS
<1>1. \A t \in Threads : th[t].pc \notin Loaded
  <2>1. \A t \in Threads : th[t].pc = "idle"
    BY StartTypes DEF Init
  <2>2. QED
    BY <2>1 DEF Loaded
<1>2. Len(objs) = 0
  BY EmptySeq DEF Init
<1>3. PICK left \in Leftovers : recRow = left.rec /\ paused = left.paused
  BY DEF Init
<1>4. left.paused => left.rec.control # "active"
  BY <1>3 DEF Leftovers, NewRecord
<1>5. QED
  BY <1>1, <1>2, <1>3, <1>4 DEF RevsKnown, PauseStored

\* Every step keeps it, and no round starts in a pause.
LEMMA PauseStep ==
  ASSUME TypeOK, OneHolder, RevsKnown, PauseStored, [Next]_vars
  PROVE  /\ RevsKnown' /\ PauseStored'
         /\ rounds' # rounds /\ OneObject => ~paused
<1>1. CASE UNCHANGED vars
  BY <1>1 DEF vars, RevsKnown, PauseStored, OneObject
<1>2. CASE Crash
  <2>1. /\ UNCHANGED <<recRow, paused, rounds>> /\ Len(objs') = 0
        /\ \A t \in Threads : th'[t].pc = "idle"
    BY <1>2, CrashFacts, StartTypes
  <2>2. \A t \in Threads : th'[t].pc \notin Loaded
    BY <2>1 DEF Loaded
  <2>3. QED
    BY <2>1, <2>2 DEF RevsKnown, PauseStored
<1>3. ASSUME NEW t \in Threads, Kinds(t)
      PROVE  /\ RevsKnown' /\ PauseStored'
             /\ rounds' # rounds /\ OneObject => ~paused
  <2>1. CASE Quiet(t) \/ ReadRecord(t) \/ LoadDoc(t) \/ SaveStart(t) \/ ResumeLoads(t) \/ ResumeSave(t)
    <3>1. rounds' = rounds
      BY <2>1 DEF Quiet, ReadRecord, LoadDoc, SaveStart, ResumeLoads, ResumeSave
    <3>2. RecsKept(t)
      BY <2>1, QuietRecs, ReadRecs, SavesDocRecs, ResumeLoadsRecs
    <3>3. QED
      BY <3>1, <3>2, RecsKeptPause
  <2>2. CASE MarkJob(t)
    BY <2>2, MarkJobPause
  <2>3. CASE Register(t)
    BY <2>3, RegisterPause
  <2>4. CASE SavesStep(t)
    <3>1. RevsKnown' /\ PauseStored'
      BY <2>4, SavesStepRecs, RecsKeptPause
    <3>2. /\ th[t].pc \in {"halting", "round", "got", "stepping"}
          /\ rounds' # rounds => Mine(t).rec.control = "active"
      BY <2>4 DEF SavesStep
    <3>3. th[t].obj \in 1 .. Len(objs)
      BY <3>2, MineTypes DEF Building
    <3>4. QED
      BY <3>1, <3>2, <3>3 DEF PauseStored, Mine
  <2>5. CASE SavesJob(t) \/ HaltRecord(t) \/ ResumeRecord(t)
    BY <2>5, SavesJobPause
  <2>6. QED
    BY <1>3, <2>1, <2>2, <2>3, <2>4, <2>5 DEF Kinds
<1>4. QED
  BY <1>1, <1>2, <1>3, NextKinds

\* While an operator's pause holds, no round starts, unless a thread still works on
\* an object that was evicted: whatever fails, and however often the process
\* restarts (_check_runnable, _halt_campaign, _save_record).
THEOREM PauseIsKept == Spec => PauseIsRespected
<1>1. Init => TypeOK /\ OneHolder /\ RevsKnown /\ PauseStored
  BY InitTypes, InitPause
<1>2. TypeOK /\ OneHolder /\ RevsKnown /\ PauseStored /\ [Next]_vars =>
        (TypeOK /\ OneHolder /\ RevsKnown /\ PauseStored)'
  BY TypesStep, PauseStep
<1>3. TypeOK /\ OneHolder /\ RevsKnown /\ PauseStored /\ [Next]_vars =>
        [rounds' # rounds /\ OneObject => ~paused]_vars
  BY PauseStep
<1>4. QED
  BY <1>1, <1>2, <1>3, PTL DEF Spec, PauseIsRespected
-----------------------------------------------------------------------------
(* The job of a campaign *)

\* Who is in the places of a job, and who reports.
OpPlaced(x) ==
  /\ x.pc \in {"noting", "closing"} => x.op = "job"
  /\ x.pc = "looping" => x.op \in {"job", "analyze"}
  /\ x.pc = "again" => x.op \in {"report", "rescue"}

OpsPlaced == \A t \in Threads : OpPlaced(th[t])

\* Before an object is registered there are no jobs, and a copy that may be
\* registered has none.
NoJobs ==
  /\ Len(svc.queue) = 0 /\ ~svc.jobs
  /\ \A t \in Threads :
       /\ th[t].op \notin {"job", "rescue"}
       /\ th[t].pc = "registering" => th[t].rec.job.status \notin JobActive

\* The job of the only object is queued, or has one worker, or has ended.
JobIsAlone ==
  LET job == objs[1].rec.job IN
  /\ Len(svc.queue) <= 1
  /\ Len(svc.queue) # 0 => Head(svc.queue) = job.id /\ job.status \in JobActive
  /\ \A t \in Threads : th[t].op = "job" =>
       th[t].job = job.id /\ job.status \in JobActive /\ Len(svc.queue) = 0
  /\ \A t, u \in Threads : th[t].op = "job" /\ th[u].op = "job" => t = u
  /\ \A t \in Threads : th[t].op # "rescue"
  /\ job.status \in JobActive => svc.jobs \/ \E t \in Threads : th[t].pc = "submitting"

JobKept ==
  /\ OpsPlaced
  /\ Len(objs) = 0 => NoJobs
  /\ Len(objs) = 1 /\ svc.cache = 1 /\ faults = 0 => JobIsAlone

\* A thread goes on as x for the job it has, if it has one.
SameJob(t, x) ==
  /\ x.op \in {"job", "rescue"} => x.op = th[t].op
  /\ x.op = "job" => x.job = th[t].job
  /\ x.pc = "registering" =>
       \/ th[t].pc = "registering" /\ x.rec = th[t].rec
       \/ x.rec.job.status \notin JobActive
       \/ svc.jobs
  /\ th[t].pc = "submitting" => x.pc = "submitting" \/ svc'.jobs

\* The thread goes on as x, and the jobs are as they were.
JobsSame(t, x) ==
  /\ SameJob(t, x) /\ (faults' = 0 => faults = 0)
  /\ svc'.queue = svc.queue
  /\ svc'.jobs => svc.jobs \/ th[t].pc = "submitting"
  /\ svc.jobs /\ th[t].op # "rescue" => svc'.jobs
  /\ \A o \in 1 .. Len(objs) : objs'[o].rec.job = objs[o].rec.job

\* The object is lost, or the database has failed.
Lost == Len(objs) # 0 /\ (svc'.cache = 0 \/ faults' # 0)

\* A step that keeps the jobs, unless it loses the object.
JobsKept(t) ==
  /\ Len(objs') = Len(objs) /\ svc'.cache \in {0, svc.cache}
  /\ \E x \in Thread : Becomes(t, x) /\ OpPlaced(x) /\ (Lost \/ JobsSame(t, x))

\* No request is a job.
LEMMA JobOps ==
  /\ "job" \notin AllOps \union {"none"} /\ "rescue" \notin AllOps \union {"none"}
  /\ JobActive = {"queued", "running"}
  BY DEF AllOps, JobActive

\* Threads that are between two requests are where they may be.
LEMMA StartPlaced ==
  /\ OpPlaced(Idle) /\ OpPlaced(Reports)
  /\ \A t : OpPlaced(Failed(t))
  BY StartTypes DEF OpPlaced, Failed

\* A thread that goes to another place keeps its job.
LEMMA GoJob ==
  ASSUME TypeOK, NEW t \in Threads, NEW pc \in Places
  PROVE  /\ Go(t, pc).op = th[t].op /\ Go(t, pc).job = th[t].job
         /\ pc \notin {"noting", "closing", "looping", "again"} => OpPlaced(Go(t, pc))
<1>1. Go(t, pc).pc = pc /\ Go(t, pc).op = th[t].op /\ Go(t, pc).job = th[t].job
  BY GoTypes
<1>2. QED
  BY <1>1 DEF OpPlaced

\* A step that changes only the thread.
LEMMA ThreadOnlyJobs ==
  ASSUME TypeOK, NEW t \in Threads, NEW x \in Thread, Becomes(t, x), OpPlaced(x),
         x.op \in {"job", "rescue"} => x.op = th[t].op,
         x.op = "job" => x.job = th[t].job,
         x.pc # "registering" \/ (th[t].pc = "registering" /\ x.rec = th[t].rec),
         th[t].pc # "submitting" \/ x.pc = "submitting",
         svc'.cache = svc.cache, svc'.queue = svc.queue, svc'.jobs <=> svc.jobs,
         faults' = faults,
         Len(objs') = Len(objs), \A o \in 1 .. Len(objs) : objs'[o].rec = objs[o].rec
  PROVE  JobsKept(t)
<1>1. SameJob(t, x)
  BY DEF SameJob
<1>2. JobsSame(t, x)
  BY <1>1 DEF JobsSame
<1>3. QED
  BY <1>2 DEF JobsKept

\* Ending a request changes no job.
LEMMA RefusedJobs ==
  ASSUME TypeOK, NEW t \in Threads, Refused(t), th[t].pc # "submitting"
  PROVE  JobsKept(t)
<1>1. Becomes(t, Idle) /\ UNCHANGED <<svc, objs, faults>>
  BY DEF Refused
<1>2. Idle \in Thread /\ Idle.pc = "idle" /\ Idle.op = "none" /\ OpPlaced(Idle)
  BY StartTypes, StartPlaced
<1>3. QED
  BY <1>1, <1>2, ThreadOnlyJobs

\* Saving a document changes no job; a job that fails outside get is lost.
LEMMA SaveDocJobs ==
  ASSUME TypeOK, NEW t \in Threads, NEW d \in Doc, NEW evict \in BOOLEAN, NEW next \in Thread,
         SaveDoc(t, d, evict, next), OpPlaced(next), th[t].pc \notin {"idle", "submitting"},
         next.op = "report" \/ (next.op = th[t].op /\ next.job = th[t].job),
         next.pc # "registering",
         Len(objs') = Len(objs), \A o \in 1 .. Len(objs) : objs'[o].rec = objs[o].rec
  PROVE  JobsKept(t)
<1>1. PICK x \in Thread : Becomes(t, x) /\ SaveDocEnds(t, d, evict, next, x)
  BY SaveDocCases
<1>2. faults \in Nat /\ docRow.rev + 1 \in Nat
  BY TableTypes
<1>3. CASE Storable(d) /\ faults' = faults /\ svc' = svc /\ x.pc = next.pc /\ x.op = next.op
           /\ x.job = next.job
  <2>1. OpPlaced(x)
    BY <1>3 DEF OpPlaced
  <2>2. QED
    BY <1>1, <1>3, <2>1, ThreadOnlyJobs
<1>4. CASE /\ x = Failed(t) /\ faults' \in {faults, faults + 1}
           /\ svc'.cache \in {0, svc.cache} /\ (Rescued(t) => svc'.cache = 0)
           /\ svc'.queue = svc.queue /\ (svc'.jobs <=> svc.jobs /\ th[t].op # "rescue")
  <2>1. OpPlaced(x)
    BY <1>4, StartPlaced
  <2>2. CASE Rescued(t)
    <3>1. th[t].pc \notin Building \union {"idle"}
      BY <2>2 DEF Rescued
    <3>2. Len(objs) # 0
      BY <3>1, MineTypes, ObjectTypes
    <3>3. QED
      BY <1>1, <1>4, <2>1, <2>2, <3>2 DEF JobsKept, Lost
  <2>3. CASE ~Rescued(t)
    <3>1. x = Idle
      BY <1>4, <2>3 DEF Failed
    <3>2. x.op = "none" /\ x.pc = "idle"
      BY <3>1, StartTypes
    <3>3. SameJob(t, x)
      BY <3>2 DEF SameJob
    <3>4. faults' = 0 => faults = 0
      BY <1>2, <1>4
    <3>5. JobsSame(t, x)
      BY <1>4, <3>3, <3>4 DEF JobsSame
    <3>6. QED
      BY <1>1, <1>4, <2>1, <3>5 DEF JobsKept
  <2>4. QED
    BY <2>2, <2>3
<1>5. CASE Storable(d) /\ faults' = faults /\ svc' = svc
           /\ x = [next EXCEPT !.learn = docRow.rev + 1]
  <2>1. x.pc = next.pc /\ x.op = next.op /\ x.job = next.job
    BY <1>2, <1>5, LearnTypes
  <2>2. QED
    BY <1>3, <1>5, <2>1
<1>6. QED
  BY <1>1, <1>4, <1>5 DEF SaveDocEnds

\* Saving a record that keeps the job, or failing to save one.
LEMMA SaveRecordJobs ==
  ASSUME TypeOK, NEW t \in Threads, th[t].pc \notin Building \union {"idle", "submitting"},
         NEW rec \in Record, NEW next \in Thread, NEW service \in Service(Len(objs)),
         SaveRecord(t, rec, next, service)
  PROVE  JobsKept(t) \/ ( /\ recRow.rev = rec.rev /\ recRow' = Newer(rec) /\ faults' = faults
                          /\ objs' = [objs EXCEPT ![th[t].obj].rec = Newer(rec)]
                          /\ Becomes(t, next) /\ svc' = service )
<1>1. PICK x \in Thread : /\ Becomes(t, x) /\ x \in {next, Failed(t)}
                          /\ SaveRecordEnds(t, rec, next, service, x)
  BY SaveRecordCases
<1>2. Len(objs') = Len(objs)
  BY SaveRecordCases
<1>3. Len(objs) # 0
  BY MineTypes, ObjectTypes
<1>4. faults \in Nat
  BY TableTypes
<1>5. CASE /\ x = Failed(t) /\ (svc'.cache = 0 \/ (svc'.cache \in {0, svc.cache} /\ faults' = faults + 1))
  <2>1. OpPlaced(x)
    BY <1>5, StartPlaced
  <2>2. Lost
    BY <1>3, <1>4, <1>5 DEF Lost
  <2>3. QED
    BY <1>1, <1>2, <1>5, <2>1, <2>2 DEF JobsKept
<1>6. CASE /\ recRow.rev = rec.rev /\ recRow' = Newer(rec) /\ faults' = faults
           /\ objs' = [objs EXCEPT ![th[t].obj].rec = Newer(rec)]
           /\ x = next /\ svc' = service
  BY <1>1, <1>6
<1>7. QED
  BY <1>1, <1>5, <1>6 DEF SaveRecordEnds

\* A record that keeps its job.
LEMMA SameJobRecord ==
  ASSUME TypeOK, NEW t \in Threads, th[t].pc \notin Building \union {"idle", "submitting"},
         NEW rec \in Record, NEW next \in Thread, NEW service \in Service(Len(objs)),
         SaveRecord(t, rec, next, service), OpPlaced(next), next.pc # "registering",
         next.op = "report" \/ (next.op = th[t].op /\ next.job = th[t].job),
         rec.job = Mine(t).rec.job, service.cache = svc.cache, service.queue = svc.queue,
         service.jobs <=> svc.jobs
  PROVE  JobsKept(t)
<1>1. CASE /\ faults' = faults /\ objs' = [objs EXCEPT ![th[t].obj].rec = Newer(rec)]
           /\ Becomes(t, next) /\ svc' = service
  <2>1. th[t].obj \in 1 .. Len(objs)
    BY MineTypes
  <2>2. Newer(rec) \in Record /\ Newer(rec).job = rec.job
    BY RecordTypes
  <2>3. /\ Len(objs') = Len(objs)
        /\ \A o \in 1 .. Len(objs) :
             objs'[o].rec = IF o = th[t].obj THEN Newer(rec) ELSE objs[o].rec
    BY <1>1, <2>1, <2>2, ObjectChanges
  <2>4. \A o \in 1 .. Len(objs) : objs'[o].rec.job = objs[o].rec.job
    BY <2>2, <2>3 DEF Mine
  <2>5. SameJob(t, next)
    BY DEF SameJob
  <2>6. JobsSame(t, next)
    BY <1>1, <2>4, <2>5 DEF JobsSame
  <2>7. QED
    BY <1>1, <2>3, <2>6 DEF JobsKept
<1>2. QED
  BY <1>1, SaveRecordJobs

\* An error that reaches the caller of a registered campaign.
LEMMA RaiseJobs ==
  ASSUME TypeOK, NEW t \in Threads, th[t].pc \notin Building \union {"idle", "submitting"},
         NEW evict \in BOOLEAN, Raise(t, evict), UNCHANGED <<objs, faults>>
  PROVE  JobsKept(t)
<1>1. Becomes(t, Failed(t)) /\ Failed(t) \in Thread /\ OpPlaced(Failed(t))
  BY FailedTypes, StartPlaced DEF Raise
<1>2. /\ svc'.cache = IF evict \/ Rescued(t) THEN 0 ELSE svc.cache
      /\ svc'.queue = svc.queue /\ (svc'.jobs <=> (svc.jobs /\ th[t].op # "rescue"))
  BY DroppedTypes DEF Raise
<1>3. Len(objs) # 0
  BY MineTypes, ObjectTypes
<1>4. CASE Rescued(t)
  BY <1>1, <1>2, <1>3, <1>4 DEF JobsKept, Lost
<1>5. CASE ~Rescued(t)
  <2>1. Failed(t) = Idle
    BY <1>5 DEF Failed
  <2>2. Failed(t).op = "none" /\ Failed(t).pc = "idle"
    BY <2>1, StartTypes
  <2>3. SameJob(t, Failed(t))
    BY <2>2 DEF SameJob
  <2>4. JobsSame(t, Failed(t))
    BY <1>2, <2>3 DEF JobsSame
  <2>5. svc'.cache \in {0, svc.cache}
    BY <1>2
  <2>6. QED
    BY <1>1, <2>4, <2>5 DEF JobsKept
<1>6. QED
  BY <1>4, <1>5

\* get leaves a thread looking the campaign up, or with its object.
LEMMA EnterPlaces ==
  ASSUME TypeOK, NEW op \in AllOps \union {"none", "job", "rescue"}, NEW job \in Nat
  PROVE  /\ Enter(op, job) \in Thread /\ OpPlaced(Enter(op, job))
         /\ Enter(op, job).pc \notin {"registering", "submitting"}
         /\ Enter(op, job).op \in {"none", op}
         /\ Enter(op, job).op = "job" => Enter(op, job).job = job
<1>1. /\ Placed(Enter(op, job), Len(objs)) /\ Enter(op, job).pc \in Starts \union {"got"}
      /\ Enter(op, job) = Idle \/ (Enter(op, job).op = op /\ Enter(op, job).job = job)
  BY EnterTypes
<1>2. Enter(op, job).pc # "again"
  <2>1. svc.cache \in Nat
    BY ServiceTypes
  <2>2. [Idle EXCEPT !.op = op, !.job = job, !.pc = "lookup"].pc = "lookup"
    BY StartTypes DEF Thread
  <2>3. [Idle EXCEPT !.op = op, !.job = job, !.obj = svc.cache, !.pc = "got"].pc = "got"
    BY StartTypes DEF Thread
  <2>4. QED
    BY <2>2, <2>3, StartTypes DEF Enter
<1>3. QED
  BY <1>1, <1>2, StartTypes DEF OpPlaced, Starts, Placed

\* get, and the ends of requests.
LEMMA BeginJobs ==
  ASSUME TypeOK, OpsPlaced, NEW t \in Threads, Begin(t) \/ Again(t)
  PROVE  JobsKept(t)
<1>1. UNCHANGED <<svc, objs, faults>>
  BY DEF Begin, Again
<1>2. CASE Begin(t)
  <2>1. PICK op \in Ops : Becomes(t, Enter(op, 0))
    BY <1>2 DEF Begin
  <2>2. op \in AllOps
    BY CampaignAssumption
  <2>3. th[t].pc = "idle"
    BY <1>2, StartTypes DEF Begin
  <2>4. /\ Enter(op, 0) \in Thread /\ OpPlaced(Enter(op, 0))
        /\ Enter(op, 0).pc # "registering" /\ Enter(op, 0).op \in {"none", op}
    BY <2>2, EnterPlaces
  <2>5. QED
    BY <1>1, <2>1, <2>2, <2>3, <2>4, JobOps, ThreadOnlyJobs
<1>3. CASE Again(t)
  <2>1. th[t].pc = "again" /\ Becomes(t, Enter(th[t].op, 0))
    BY <1>3 DEF Again, At
  <2>2. th[t].op \in {"report", "rescue"}
    BY <2>1 DEF OpsPlaced, OpPlaced
  <2>3. th[t].op \in AllOps \union {"none", "job", "rescue"}
    BY ThreadTypes
  <2>4. /\ Enter(th[t].op, 0) \in Thread /\ OpPlaced(Enter(th[t].op, 0))
        /\ Enter(th[t].op, 0).pc # "registering" /\ Enter(th[t].op, 0).op \in {"none", th[t].op}
    BY <2>3, EnterPlaces
  <2>5. QED
    BY <1>1, <2>1, <2>2, <2>4, ThreadOnlyJobs
<1>4. QED
  BY <1>2, <1>3

\* The map of revisions has no job.
LEMMA LearnJobs ==
  ASSUME TypeOK, OpsPlaced, NEW t \in Threads, Learn(t)
  PROVE  JobsKept(t)
<1> DEFINE x == [th[t] EXCEPT !.learn = 0]
<1>1. /\ svc' = [svc EXCEPT !.known = th[t].learn] /\ Becomes(t, x) /\ UNCHANGED <<objs, faults>>
  BY DEF Learn
<1>2. /\ x \in Thread /\ x.pc = th[t].pc /\ x.op = th[t].op /\ x.rec = th[t].rec
      /\ x.job = th[t].job
  <2>1. th[t] \in Thread
    BY ThreadTypes
  <2>2. QED
    BY SMTT(20), <2>1, LearnTypes
<1>3. svc'.cache = svc.cache /\ svc'.queue = svc.queue /\ (svc'.jobs <=> svc.jobs)
  <2>1. th[t].learn \in Nat
    BY ThreadTypes
  <2>2. QED
    BY <1>1, <2>1, ServiceChanges
<1> HIDE DEF x
<1>4. OpPlaced(x)
  BY <1>2 DEF OpsPlaced, OpPlaced
<1>5. QED
  BY <1>1, <1>2, <1>3, <1>4, ThreadOnlyJobs

\* Loading changes no job, and a report none.
LEMMA LoadJobs ==
  ASSUME TypeOK, NEW t \in Threads, ReadRecord(t) \/ LoadDoc(t) \/ SaveStart(t) \/ Report(t)
  PROVE  JobsKept(t)
<1>1. CASE ReadRecord(t)
  <2> DEFINE x == [Go(t, "loading") EXCEPT !.rec = recRow]
  <2>1. th[t].pc = "lookup" /\ Becomes(t, x) /\ UNCHANGED <<svc, objs, faults>>
    BY <1>1 DEF ReadRecord, At
  <2>2. "loading" \in Places
    BY DEF Places
  <2>3. /\ Go(t, "loading") \in Thread /\ Go(t, "loading").pc = "loading" /\ recRow \in Record
    BY <2>2, GoPlace, TableTypes
  <2>4. Go(t, "loading").op = th[t].op /\ Go(t, "loading").job = th[t].job
    BY <2>2, GoJob
  <2>5. x \in Thread /\ x.pc = "loading" /\ x.op = th[t].op /\ x.job = th[t].job
    BY <2>3, <2>4 DEF Thread
  <2> HIDE DEF x
  <2>6. OpPlaced(x)
    BY <2>5 DEF OpPlaced
  <2>7. QED
    BY <2>1, <2>5, <2>6, ThreadOnlyJobs
<1>2. CASE LoadDoc(t)
  <2>1. /\ th[t].pc = "loading" /\ Loads(t, Restored(docRow.doc), "starting")
        /\ UNCHANGED <<svc, objs, faults>>
    BY <1>2 DEF LoadDoc, At
  <2>2. Restored(docRow.doc) \in Doc /\ "starting" \in Places
    BY TableTypes, DocTypes DEF Places
  <2>3. PICK x \in Thread : /\ Becomes(t, x) /\ x.pc = "starting" /\ x.op = th[t].op
                            /\ x.job = th[t].job
    BY <2>1, <2>2, LoadsTypes
  <2>4. OpPlaced(x)
    BY <2>3 DEF OpPlaced
  <2>5. QED
    BY <2>1, <2>3, <2>4, ThreadOnlyJobs
<1>3. CASE SaveStart(t)
  <2> DEFINE next == Go(t, "built")
  <2>1. /\ th[t].pc = "starting" /\ SaveDoc(t, th[t].doc, FALSE, next) /\ UNCHANGED objs
    BY <1>3 DEF SaveStart, At
  <2>2. "built" \in Places
    BY DEF Places
  <2>3. next \in Thread /\ next.pc = "built"
    BY <2>2, GoPlace
  <2>4. next.op = th[t].op /\ next.job = th[t].job /\ OpPlaced(next)
    BY <2>2, GoJob
  <2>5. th[t].doc \in Doc
    BY ThreadTypes
  <2> HIDE DEF next
  <2>6. QED
    BY <2>1, <2>3, <2>4, <2>5, SaveDocJobs
<1>4. CASE Report(t)
  <2>1. Refused(t) /\ th[t].pc = "got"
    BY <1>4 DEF Report, Refused, At
  <2>2. QED
    BY <2>1, RefusedJobs
<1>5. QED
  BY <1>1, <1>2, <1>3, <1>4

\* A job that an earlier process left is marked when no worker can have it.
LEMMA MarkJobJobs ==
  ASSUME TypeOK, NEW t \in Threads, MarkJob(t)
  PROVE  JobsKept(t)
<1> DEFINE rec == Interrupted(th[t].rec)
           y == [Go(t, "registering") EXCEPT !.rec = Newer(rec)]
<1>1. th[t].pc = "built" /\ objs' = objs
  BY MarkJobCases
<1>2. PICK x \in Thread : Becomes(t, x) /\ MarkJobEnds(t, x)
  BY MarkJobCases
<1>3. th[t].rec \in Record /\ faults \in Nat
  BY ThreadTypes, TableTypes
<1>4. "registering" \in Places
  BY DEF Places
<1>5. /\ Go(t, "registering") \in Thread /\ Go(t, "registering").pc = "registering"
  BY <1>4, GoPlace
<1>6. Go(t, "registering").rec = th[t].rec
  BY <1>4, GoTypes
<1>7. /\ Go(t, "registering").op = th[t].op /\ Go(t, "registering").job = th[t].job
      /\ OpPlaced(Go(t, "registering"))
  BY <1>4, GoJob
<1>8. CASE /\ ~LeftRunning(th[t].rec) /\ x = Go(t, "registering")
           /\ UNCHANGED <<recRow, svc, faults>>
  <2>1. x.rec.job.status \notin JobActive \/ svc.jobs
    BY <1>6, <1>8 DEF LeftRunning
  <2>2. SameJob(t, x)
    BY <1>1, <1>7, <1>8, <2>1 DEF SameJob
  <2>3. JobsSame(t, x)
    BY <1>1, <1>8, <2>2 DEF JobsSame
  <2>4. QED
    BY <1>1, <1>2, <1>7, <1>8, <2>3 DEF JobsKept
<1>9. CASE x = y /\ UNCHANGED <<svc, faults>>
  <2>1. rec \in Record /\ rec.job.status = "interrupted"
    BY <1>3, RecordTypes
  <2>2. Newer(rec) \in Record /\ Newer(rec).job = rec.job
    <3> HIDE DEF rec
    <3>1. QED
      BY <2>1, RecordTypes
  <2> HIDE DEF rec
  <2>3. y \in Thread /\ y.pc = "registering" /\ y.op = th[t].op /\ y.job = th[t].job /\ y.rec = Newer(rec)
    BY <1>5, <1>7, <2>2 DEF Thread
  <2> HIDE DEF y
  <2>4. y.rec.job.status \notin JobActive
    BY <2>1, <2>2, <2>3 DEF JobActive
  <2>5. SameJob(t, x)
    BY <1>1, <1>9, <2>3, <2>4 DEF SameJob
  <2>6. JobsSame(t, x)
    BY <1>1, <1>9, <2>5 DEF JobsSame
  <2>7. OpPlaced(x)
    BY <1>9, <2>3 DEF OpPlaced
  <2>8. QED
    BY <1>1, <1>2, <1>9, <2>6, <2>7 DEF JobsKept
<1>10. CASE /\ x = Idle /\ faults' \in {faults, faults + 1}
            /\ svc'.cache = svc.cache /\ svc'.queue = svc.queue
            /\ (svc'.jobs <=> svc.jobs /\ th[t].op # "rescue")
  <2>1. x.op = "none" /\ x.pc = "idle" /\ OpPlaced(x)
    BY <1>10, StartTypes, StartPlaced
  <2>2. SameJob(t, x)
    BY <1>1, <2>1 DEF SameJob
  <2>3. faults' = 0 => faults = 0
    BY <1>3, <1>10
  <2>4. JobsSame(t, x)
    BY <1>1, <1>10, <2>2, <2>3 DEF JobsSame
  <2>5. QED
    BY <1>1, <1>2, <1>10, <2>1, <2>4 DEF JobsKept
<1> HIDE DEF y, rec
<1>11. QED
  BY <1>2, <1>8, <1>9, <1>10 DEF MarkJobEnds, y, rec

\* A thread that goes to another place.
LEMMA GoJobs ==
  ASSUME TypeOK, NEW t \in Threads, NEW pc \in Places, Becomes(t, Go(t, pc)),
         pc \notin {"registering", "noting", "closing", "looping", "again"},
         th[t].pc # "submitting", UNCHANGED <<objs, faults>>,
         svc'.cache = svc.cache, svc'.queue = svc.queue, svc'.jobs <=> svc.jobs
  PROVE  JobsKept(t)
<1>1. Go(t, pc) \in Thread /\ Go(t, pc).pc = pc
  BY GoPlace
<1>2. Go(t, pc).op = th[t].op /\ Go(t, pc).job = th[t].job /\ OpPlaced(Go(t, pc))
  BY GoJob
<1>3. QED
  BY <1>1, <1>2, ThreadOnlyJobs

\* Announcing a halt changes no job.
LEMMA SignalJobs ==
  ASSUME TypeOK, NEW t \in Threads, Signal(t)
  PROVE  JobsKept(t)
<1>1. th[t].pc = "got"
  BY DEF Signal, At
<1>2. CASE Refused(t)
  BY <1>1, <1>2, RefusedJobs
<1>3. CASE /\ svc' = [svc EXCEPT !.halt = TRUE] /\ Becomes(t, Go(t, "halting"))
           /\ UNCHANGED <<objs, faults>>
  <2>1. "halting" \in Places
    BY DEF Places
  <2>2. svc'.cache = svc.cache /\ svc'.queue = svc.queue /\ (svc'.jobs <=> svc.jobs)
    BY <1>3, ServiceChanges
  <2>3. QED
    BY <1>1, <1>3, <2>1, <2>2, GoJobs
<1>4. QED
  BY <1>2, <1>3 DEF Signal

\* Changing and saving the object's document.
LEMMA AdvanceJobs ==
  ASSUME TypeOK, NEW t \in Threads, th[t].pc \notin Building \union {"idle", "submitting"},
         NEW d \in Doc, NEW evict \in BOOLEAN, NEW next \in Thread, Advance(t, d, evict, next),
         OpPlaced(next), next.pc # "registering",
         next.op = "report" \/ (next.op = th[t].op /\ next.job = th[t].job)
  PROVE  JobsKept(t)
<1>1. SaveDoc(t, d, evict, next) /\ objs' = [objs EXCEPT ![th[t].obj].doc = d]
  BY DEF Advance
<1>2. th[t].obj \in 1 .. Len(objs)
  BY MineTypes
<1>3. Len(objs') = Len(objs) /\ \A o \in 1 .. Len(objs) : objs'[o].rec = objs[o].rec
  BY <1>1, <1>2, ObjectChanges
<1>4. QED
  BY <1>1, <1>3, SaveDocJobs

\* A halt of the document changes none,
LEMMA HaltDocJobs ==
  ASSUME TypeOK, NEW t \in Threads, HaltDoc(t)
  PROVE  JobsKept(t)
<1> DEFINE d == Decided(Mine(t).doc, HaltState(th[t].op))
<1>1. th[t].pc = "halting"
  BY DEF HaltDoc, At
<1>2. th[t].pc \notin Building \union {"idle", "submitting"}
  BY <1>1 DEF Building
<1>3. "haltrec" \in Places
  BY DEF Places
<1>4. CASE Advance(t, d, FALSE, Go(t, "haltrec"))
  <2>1. d \in Doc
    <3>1. Mine(t).doc \in Doc /\ made \in Nat /\ HaltState(th[t].op) \in DocStates
      BY <1>2, MineTypes, TableTypes DEF HaltState, DocStates
    <3>2. QED
      BY <3>1, DecidedTypes
  <2> HIDE DEF d
  <2>2. Go(t, "haltrec") \in Thread /\ Go(t, "haltrec").pc = "haltrec"
    BY <1>3, GoPlace
  <2>3. /\ Go(t, "haltrec").op = th[t].op /\ Go(t, "haltrec").job = th[t].job
        /\ OpPlaced(Go(t, "haltrec"))
    BY <1>3, GoJob
  <2>4. QED
    BY <1>2, <1>4, <2>1, <2>2, <2>3, AdvanceJobs
<1>5. CASE Raise(t, FALSE) /\ UNCHANGED <<objs, faults>>
  BY <1>2, <1>5, RaiseJobs
<1>6. CASE Becomes(t, Go(t, "haltrec")) /\ UNCHANGED <<svc, objs, faults>>
  BY <1>2, <1>3, <1>6, GoJobs
<1>7. QED
  BY <1>4, <1>5, <1>6 DEF HaltDoc

\* a halt or a resume of the record none,
LEMMA HaltRecordJobs ==
  ASSUME TypeOK, NEW t \in Threads, HaltRecord(t) \/ ResumeRecord(t)
  PROVE  JobsKept(t)
<1>1. PICK control \in {"active", "paused", "stopped"}, service \in {svc, [svc EXCEPT !.halt = FALSE]} :
        /\ th[t].pc \in {"haltrec", "resumerec"}
        /\ SaveRecord(t, [Mine(t).rec EXCEPT !.control = control], Reports, service)
  BY DEF HaltRecord, ResumeRecord, At, HaltState
<1>2. th[t].pc \notin Building \union {"idle", "submitting"}
  BY <1>1 DEF Building
<1>3. PICK r \in Record : r = Mine(t).rec
  BY <1>2, MineTypes
<1>4. [r EXCEPT !.control = control] \in Record /\ [r EXCEPT !.control = control].job = r.job
  BY DEF Record
<1>5. /\ service \in Service(Len(objs)) /\ service.cache = svc.cache
      /\ service.queue = svc.queue /\ (service.jobs <=> svc.jobs)
  BY <1>1, ServiceTypes, ServiceChanges
<1>6. Reports \in Thread /\ Reports.op = "report" /\ Reports.pc = "again" /\ OpPlaced(Reports)
  BY StartTypes, StartPlaced
<1>7. QED
  BY <1>1, <1>2, <1>3, <1>4, <1>5, <1>6, SameJobRecord

\* and the rest of a resume none.
LEMMA ResumeJobs ==
  ASSUME TypeOK, NEW t \in Threads, ResumeLoad(t) \/ ResumeSave(t)
  PROVE  JobsKept(t)
<1>1. CASE ResumeLoad(t)
  <2> DEFINE d == Resumed(Restored(docRow.doc))
  <2>1. th[t].pc = "got"
    BY <1>1 DEF ResumeLoad, At
  <2>2. CASE Refused(t)
    BY <2>1, <2>2, RefusedJobs
  <2>3. CASE /\ Loads(t, NewDoc, "resaving") /\ UNCHANGED <<svc, faults>>
             /\ objs' = [objs EXCEPT ![th[t].obj].doc = d]
    <3>1. "resaving" \in Places /\ NewDoc \in Doc /\ th[t].pc \notin Building \union {"idle"}
      BY <2>1, Constants DEF Places, Building
    <3>2. PICK x \in Thread : /\ Becomes(t, x) /\ x.pc = "resaving" /\ x.op = th[t].op
                              /\ x.job = th[t].job
      BY <2>3, <3>1, LoadsTypes
    <3>3. d \in Doc /\ th[t].obj \in 1 .. Len(objs)
      BY <3>1, TableTypes, DocTypes, ResumedTypes, MineTypes
    <3> HIDE DEF d
    <3>4. Len(objs') = Len(objs) /\ \A o \in 1 .. Len(objs) : objs'[o].rec = objs[o].rec
      BY <2>3, <3>3, ObjectChanges
    <3>5. OpPlaced(x)
      BY <3>2 DEF OpPlaced
    <3>6. QED
      BY <2>1, <2>3, <3>2, <3>4, <3>5, ThreadOnlyJobs
  <2>4. QED
    BY <1>1, <2>2, <2>3 DEF ResumeLoad
<1>2. CASE ResumeSave(t)
  <2> DEFINE next == Go(t, "resumerec")
  <2>1. th[t].pc = "resaving" /\ SaveDoc(t, Mine(t).doc, TRUE, next) /\ UNCHANGED objs
    BY <1>2 DEF ResumeSave, At
  <2>2. "resumerec" \in Places
    BY DEF Places
  <2>3. next \in Thread /\ next.pc = "resumerec"
    BY <2>2, GoPlace
  <2>4. next.op = th[t].op /\ next.job = th[t].job /\ OpPlaced(next)
    BY <2>2, GoJob
  <2>5. Mine(t).doc \in Doc
    BY <2>1, MineTypes, RecPlaces
  <2> HIDE DEF next
  <2>6. QED
    BY <2>1, <2>3, <2>4, <2>5, SaveDocJobs
<1>3. QED
  BY <1>1, <1>2

\* Where a step leaves its thread.
LEMMA AfterJobs ==
  ASSUME TypeOK, NEW t \in Threads, NEW progressed \in BOOLEAN, NEW next \in After(t, progressed)
  PROVE  /\ next \in Thread /\ OpPlaced(next) /\ next.pc # "registering"
         /\ next.op = "report" \/ (next.op = th[t].op /\ next.job = th[t].job)
<1>1. next \in Thread /\ next.pc \in {"noting", "looping", "again"}
  BY AfterTypes
<1>2. "noting" \in Places /\ "looping" \in Places
  BY DEF Places
<1>3. CASE next = Reports
  BY <1>1, <1>3, StartTypes, StartPlaced
<1>4. CASE th[t].op = "job" /\ next = Go(t, "noting")
  <2>1. Go(t, "noting").op = "job" /\ Go(t, "noting").job = th[t].job
    BY <1>2, <1>4, GoJob
  <2>2. Go(t, "noting").pc = "noting"
    BY <1>2, GoPlace
  <2>3. QED
    BY <1>1, <1>4, <2>1, <2>2 DEF OpPlaced
<1>5. CASE th[t].op = "analyze" /\ next = Go(t, "looping")
  <2>1. Go(t, "looping").op = "analyze" /\ Go(t, "looping").job = th[t].job
    BY <1>2, <1>5, GoJob
  <2>2. Go(t, "looping").pc = "looping"
    BY <1>2, GoPlace
  <2>3. QED
    BY <1>1, <1>5, <2>1, <2>2 DEF OpPlaced
<1>6. next = Reports \/ (th[t].op = "job" /\ next = Go(t, "noting"))
      \/ (th[t].op = "analyze" /\ next = Go(t, "looping"))
  <2>1. CASE th[t].op = "job"
    BY <2>1 DEF After
  <2>2. CASE th[t].op = "analyze"
    BY <2>2 DEF After
  <2>3. CASE th[t].op \notin {"job", "analyze"}
    BY <2>3 DEF After
  <2>4. QED
    BY <2>1, <2>2, <2>3
<1>7. QED
  BY <1>3, <1>4, <1>5, <1>6

\* A step changes no job.
LEMMA StepLockedJobs ==
  ASSUME TypeOK, NEW t \in Threads, th[t].pc \notin Building \union {"idle", "submitting"},
         StepLocked(t)
  PROVE  JobsKept(t)
<1>1. CASE UNCHANGED <<svc, objs, faults>> /\ \E next \in After(t, FALSE) : Becomes(t, next)
  <2>1. PICK next \in After(t, FALSE) : Becomes(t, next)
    BY <1>1
  <2>2. /\ next \in Thread /\ OpPlaced(next) /\ next.pc # "registering"
        /\ next.op = "report" \/ (next.op = th[t].op /\ next.job = th[t].job)
    BY AfterJobs
  <2>3. QED
    BY <1>1, <2>1, <2>2, ThreadOnlyJobs
<1>2. ASSUME NEW d \in Doc, NEW next \in Thread, Advance(t, d, TRUE, next),
             next \in After(t, FALSE) \/ next = Go(t, "round")
      PROVE  JobsKept(t)
  <2>1. "round" \in Places
    BY DEF Places
  <2>2. CASE next \in After(t, FALSE)
    <3>1. /\ OpPlaced(next) /\ next.pc # "registering"
          /\ next.op = "report" \/ (next.op = th[t].op /\ next.job = th[t].job)
      BY <2>2, AfterJobs
    <3>2. QED
      BY <1>2, <3>1, AdvanceJobs
  <2>3. CASE next = Go(t, "round")
    <3>1. next.pc = "round"
      BY <2>1, <2>3, GoPlace
    <3>2. next.op = th[t].op /\ next.job = th[t].job /\ OpPlaced(next)
      BY <2>1, <2>3, GoJob
    <3>3. QED
      BY <1>2, <3>1, <3>2, AdvanceJobs
  <2>4. QED
    BY <1>2, <2>2, <2>3
<1>3. th[t].pc \notin Building \union {"idle"}
  OBVIOUS
<1>4. QED
  BY <1>1, <1>2, <1>3, StepCases

\* The end of a round changes no job.
LEMMA RoundEndsJobs ==
  ASSUME TypeOK, NEW t \in Threads, RoundEnds(t)
  PROVE  JobsKept(t)
<1>1. PICK state \in {"ready", "done"} : \E next \in After(t, state = "ready") :
        Advance(t, Decided(Mine(t).doc, state), TRUE, next)
  BY DEF RoundEnds
<1>2. PICK next \in After(t, state = "ready") : Advance(t, Decided(Mine(t).doc, state), TRUE, next)
  BY <1>1
<1>3. th[t].pc \notin Building \union {"idle", "submitting"}
  BY DEF RoundEnds, At, Building
<1>4. Mine(t).doc \in Doc /\ made \in Nat /\ state \in DocStates
  BY <1>3, MineTypes, TableTypes DEF DocStates
<1>5. Decided(Mine(t).doc, state) \in Doc
  BY <1>4, DecidedTypes
<1>6. /\ next \in Thread /\ OpPlaced(next) /\ next.pc # "registering"
      /\ next.op = "report" \/ (next.op = th[t].op /\ next.job = th[t].job)
  BY AfterJobs
<1>7. QED
  BY <1>2, <1>3, <1>5, <1>6, AdvanceJobs

\* A job or an analysis that ends its loop.
LEMMA ClosingTypes ==
  ASSUME TypeOK, NEW t \in Threads
  PROVE  LET x == [Go(t, "closing") EXCEPT !.out = "halted"] IN
         x \in Thread /\ x.pc = "closing" /\ x.op = th[t].op /\ x.job = th[t].job
<1>1. "closing" \in Places
  BY DEF Places
<1>2. QED
  BY <1>1, GoTypes

\* The execute request, and the steps of an analysis and a job.
LEMMA StepJobs ==
  ASSUME TypeOK, NEW t \in Threads, Step(t) \/ AnalyzeStep(t) \/ JobStep(t)
  PROVE  JobsKept(t)
<1>1. th[t].pc \in {"got", "stepping"}
  BY DEF Step, AnalyzeStep, JobStep, At
<1>2. th[t].pc \notin Building \union {"idle", "submitting"}
  BY <1>1 DEF Building
<1>3. CASE Refused(t)
  BY <1>2, <1>3, RefusedJobs
<1>4. CASE StepLocked(t)
  BY <1>2, <1>4, StepLockedJobs
<1>5. CASE /\ th[t].op = "job" /\ UNCHANGED <<svc, objs, faults>>
           /\ Becomes(t, [Go(t, "closing") EXCEPT !.out = "halted"])
  <2> DEFINE x == [Go(t, "closing") EXCEPT !.out = "halted"]
  <2>1. x \in Thread /\ x.pc = "closing" /\ x.op = th[t].op /\ x.job = th[t].job
    BY ClosingTypes
  <2>2. Becomes(t, x)
    BY <1>5
  <2> HIDE DEF x
  <2>3. OpPlaced(x)
    BY <1>5, <2>1 DEF OpPlaced
  <2>4. QED
    BY <1>2, <1>5, <2>1, <2>2, <2>3, ThreadOnlyJobs
<1>6. QED
  BY <1>3, <1>4, <1>5 DEF Step, AnalyzeStep, JobStep

\* The look for a halt changes no job.
LEMMA LoopJobs ==
  ASSUME TypeOK, OpsPlaced, NEW t \in Threads, Loop(t)
  PROVE  JobsKept(t)
<1>1. /\ th[t].pc = "looping" \/ (th[t].pc = "got" /\ th[t].op = "analyze")
      /\ UNCHANGED <<svc, objs, faults>>
  BY DEF Loop, At
<1>2. th[t].op \in {"job", "analyze"} /\ th[t].pc # "submitting"
  BY <1>1 DEF OpsPlaced, OpPlaced
<1>3. CASE Becomes(t, Go(t, "stepping"))
  <2>1. "stepping" \in Places
    BY DEF Places
  <2>2. QED
    BY <1>1, <1>2, <1>3, <2>1, GoJobs
<1>4. CASE Becomes(t, Reports)
  <2>1. Reports \in Thread /\ Reports.op = "report" /\ Reports.pc = "again" /\ OpPlaced(Reports)
    BY StartTypes, StartPlaced
  <2>2. QED
    BY <1>1, <1>2, <1>4, <2>1, ThreadOnlyJobs
<1>5. CASE th[t].op # "analyze" /\ Becomes(t, [Go(t, "closing") EXCEPT !.out = "halted"])
  <2> DEFINE x == [Go(t, "closing") EXCEPT !.out = "halted"]
  <2>1. x \in Thread /\ x.pc = "closing" /\ x.op = th[t].op /\ x.job = th[t].job
    BY ClosingTypes
  <2>2. Becomes(t, x)
    BY <1>5
  <2> HIDE DEF x
  <2>3. OpPlaced(x)
    BY <1>2, <1>5, <2>1 DEF OpPlaced
  <2>4. QED
    BY <1>1, <1>2, <2>1, <2>2, <2>3, ThreadOnlyJobs
<1>6. QED
  BY <1>3, <1>4, <1>5 DEF Loop

\* The executor has returned: the job is in _jobs.
LEMMA SubmittedJobs ==
  ASSUME TypeOK, NEW t \in Threads, Submitted(t)
  PROVE  JobsKept(t)
<1>1. /\ th[t].pc = "submitting" /\ svc' = [svc EXCEPT !.jobs = TRUE] /\ Becomes(t, Reports)
      /\ UNCHANGED <<objs, faults>>
  BY DEF Submitted, At
<1>2. svc'.cache = svc.cache /\ svc'.queue = svc.queue /\ svc'.jobs
  BY <1>1, ServiceTypes DEF Service
<1>3. Reports \in Thread /\ Reports.op = "report" /\ Reports.pc = "again" /\ OpPlaced(Reports)
  BY StartTypes, StartPlaced
<1>4. SameJob(t, Reports)
  BY <1>2, <1>3 DEF SameJob
<1>5. JobsSame(t, Reports)
  BY <1>1, <1>2, <1>4 DEF JobsSame
<1>6. QED
  BY <1>1, <1>2, <1>3, <1>5 DEF JobsKept

\* Noting progress keeps the job as it is.
LEMMA JobNotesJobs ==
  ASSUME TypeOK, OpsPlaced, NEW w \in Threads, JobNotes(w)
  PROVE  JobsKept(w)
<1>1. PICK pc \in {"closing", "looping"} :
        th[w].pc = "noting" /\ SaveRecord(w, Mine(w).rec, Go(w, pc), svc)
  BY DEF JobNotes, At
<1>2. pc \in Places /\ th[w].pc \notin Building \union {"idle", "submitting"}
  BY <1>1 DEF Places, Building
<1>3. th[w].op = "job"
  BY <1>1 DEF OpsPlaced, OpPlaced
<1>4. PICK r \in Record : r = Mine(w).rec
  BY <1>2, MineTypes
<1>5. Go(w, pc) \in Thread /\ Go(w, pc).pc = pc
  BY <1>2, GoPlace
<1>6. Go(w, pc).op = th[w].op /\ Go(w, pc).job = th[w].job
  BY <1>2, GoJob
<1>7. OpPlaced(Go(w, pc))
  BY <1>3, <1>5, <1>6 DEF OpPlaced
<1>8. svc \in Service(Len(objs))
  BY ServiceTypes
<1>9. QED
  BY <1>1, <1>2, <1>4, <1>5, <1>6, <1>7, <1>8, SameJobRecord

\* Steps of threads that keep the jobs keep what is known of them.
LEMMA OpsPlacedStep ==
  ASSUME OpsPlaced, TypeOK, NEW t \in Threads, NEW x \in Thread, Becomes(t, x), OpPlaced(x)
  PROVE  OpsPlaced'
<1>1. th'[t] = x /\ \A u \in Threads : u # t => th'[u] = th[u]
  BY ThreadsAfter
<1>2. \A u \in Threads : OpPlaced(th'[u])
  BY <1>1 DEF OpsPlaced
<1>3. QED
  BY <1>2 DEF OpsPlaced, OpPlaced

\* A step that keeps the jobs keeps what is known of them.
LEMMA JobsKeptStep ==
  ASSUME TypeOK, JobKept, NEW t \in Threads, JobsKept(t)
  PROVE  JobKept'
<1>1. PICK x \in Thread : Becomes(t, x) /\ OpPlaced(x) /\ (Lost \/ JobsSame(t, x))
  BY DEF JobsKept
<1>2. Len(objs') = Len(objs) /\ svc'.cache \in {0, svc.cache}
  BY DEF JobsKept
<1>3. th'[t] = x /\ \A u \in Threads : u # t => th'[u] = th[u]
  BY <1>1, ThreadsAfter
<1>4. OpsPlaced'
  BY <1>1, OpsPlacedStep DEF JobKept
<1>5. ASSUME Len(objs') = 0
      PROVE  NoJobs'
  <2>1. Len(objs) = 0 /\ NoJobs
    BY <1>2, <1>5 DEF JobKept
  <2>2. JobsSame(t, x)
    BY <1>1, <2>1 DEF Lost
  <2>3. th[t].pc # "submitting"
    <3>1. "submitting" \notin Building \union {"idle"}
      BY DEF Building
    <3>2. QED
      BY <2>1, <3>1, MineTypes, ObjectTypes
  <2>4. Len(svc'.queue) = 0 /\ ~svc'.jobs
    BY <2>1, <2>2, <2>3 DEF NoJobs, JobsSame
  <2>5. /\ x.op \notin {"job", "rescue"}
        /\ x.pc = "registering" => x.rec.job.status \notin JobActive
    <3>1. /\ th[t].op \notin {"job", "rescue"} /\ ~svc.jobs
          /\ th[t].pc = "registering" => th[t].rec.job.status \notin JobActive
      BY <2>1 DEF NoJobs
    <3>2. SameJob(t, x)
      BY <2>2 DEF JobsSame
    <3>3. QED
      BY <3>1, <3>2 DEF SameJob
  <2>6. \A u \in Threads :
          /\ th'[u].op \notin {"job", "rescue"}
          /\ th'[u].pc = "registering" => th'[u].rec.job.status \notin JobActive
    BY <1>3, <2>1, <2>5 DEF NoJobs
  <2>7. QED
    BY <2>4, <2>6 DEF NoJobs
<1>6. ASSUME Len(objs') = 1, svc'.cache = 1, faults' = 0
      PROVE  JobIsAlone'
  <2>1. JobsSame(t, x)
    BY <1>1, <1>2, <1>6 DEF Lost
  <2>2. Len(objs) = 1 /\ svc.cache = 1 /\ faults = 0
    BY <1>2, <1>6, <2>1 DEF JobsSame
  <2>3. JobIsAlone
    BY <2>2 DEF JobKept
  <2>4. objs'[1].rec.job = objs[1].rec.job /\ svc'.queue = svc.queue
    BY <2>1, <2>2 DEF JobsSame
  <2>5. /\ x.op # "rescue"
        /\ x.op = "job" => th[t].op = "job" /\ x.job = th[t].job
    <3>1. SameJob(t, x) /\ th[t].op # "rescue"
      BY <2>1, <2>3 DEF JobsSame, JobIsAlone
    <3>2. QED
      BY <3>1 DEF SameJob
  <2>6. \A u \in Threads : /\ th'[u].op # "rescue"
                           /\ th'[u].op = "job" => th[u].op = "job" /\ th'[u].job = th[u].job
    BY <1>3, <2>3, <2>5 DEF JobIsAlone
  <2>7. /\ \A u \in Threads : th'[u].op = "job" =>
             /\ th'[u].job = objs[1].rec.job.id /\ objs[1].rec.job.status \in JobActive
             /\ Len(svc.queue) = 0
        /\ \A u, v \in Threads : th'[u].op = "job" /\ th'[v].op = "job" => u = v
    BY <2>3, <2>6 DEF JobIsAlone
  <2>8. objs[1].rec.job.status \in JobActive =>
          svc'.jobs \/ \E u \in Threads : th'[u].pc = "submitting"
    <3>1. svc.jobs => svc'.jobs
      BY <2>1, <2>3 DEF JobsSame, JobIsAlone
    <3>2. th[t].pc = "submitting" => x.pc = "submitting" \/ svc'.jobs
      BY <2>1 DEF JobsSame, SameJob
    <3>3. QED
      BY <1>3, <2>3, <3>1, <3>2 DEF JobIsAlone
  <2>9. /\ Len(svc.queue) <= 1
        /\ Len(svc.queue) # 0 =>
             Head(svc.queue) = objs[1].rec.job.id /\ objs[1].rec.job.status \in JobActive
    BY <2>3 DEF JobIsAlone
  <2>10. QED
    BY <2>4, <2>6, <2>7, <2>8, <2>9 DEF JobIsAlone
<1>7. QED
  BY <1>4, <1>5, <1>6 DEF JobKept

\* A step that changes the jobs: what is left to show.
LEMMA JobKeptIf ==
  ASSUME TypeOK, JobKept, NEW t \in Threads, NEW x \in Thread, Becomes(t, x), OpPlaced(x),
         Len(objs') # 0,
         Len(objs') = 1 /\ svc'.cache = 1 /\ faults' = 0 => JobIsAlone'
  PROVE  JobKept'
<1>1. OpsPlaced'
  BY OpsPlacedStep DEF JobKept
<1>2. QED
  BY <1>1 DEF JobKept

\* The job after a record was saved to the only object.
LEMMA SavedJob ==
  ASSUME TypeOK, NEW t \in Threads, th[t].pc \notin Building \union {"idle"}, NEW rec \in Record,
         objs' = [objs EXCEPT ![th[t].obj].rec = Newer(rec)]
  PROVE  /\ Len(objs') = Len(objs) /\ Len(objs) # 0
         /\ Len(objs) = 1 => objs'[1].rec.job = rec.job /\ th[t].obj = 1
<1>1. th[t].obj \in 1 .. Len(objs) /\ Len(objs) \in Nat
  BY MineTypes, ObjectTypes
<1>2. Newer(rec) \in Record /\ Newer(rec).job = rec.job
  BY RecordTypes
<1>3. Len(objs') = Len(objs) /\ objs'[th[t].obj].rec = Newer(rec)
  BY <1>1, <1>2, ObjectChanges
<1>4. Len(objs) # 0 /\ (Len(objs) = 1 => th[t].obj = 1)
  BY <1>1
<1>5. QED
  BY <1>2, <1>3, <1>4

\* The job that a worker takes is the one in the record.
LEMMA TakeJobJobs ==
  ASSUME TypeOK, JobKept, NEW w \in Threads, TakeJob(w)
  PROVE  JobKept'
<1> DEFINE id == Head(svc.queue)
           x == Enter("job", id)
<1>1. /\ th[w] = Idle /\ svc.queue # <<>> /\ svc' = [svc EXCEPT !.queue = Tail(@)]
      /\ Becomes(w, x) /\ UNCHANGED <<objs, faults>>
  BY DEF TakeJob
<1>2. svc.queue \in Seq(Nat) /\ Len(svc.queue) # 0 /\ id \in Nat /\ Len(Tail(svc.queue)) = Len(svc.queue) - 1
  BY <1>1, ServiceTypes
<1>3. svc'.cache = svc.cache /\ svc'.queue = Tail(svc.queue) /\ (svc'.jobs <=> svc.jobs)
  BY <1>1, ServiceTypes DEF Service
<1> HIDE DEF id
<1>4. /\ x \in Thread /\ OpPlaced(x) /\ x.pc # "submitting" /\ x.op \in {"none", "job"}
      /\ x.op = "job" => x.job = id
  BY <1>2, EnterPlaces
<1> HIDE DEF x
<1>5. th'[w] = x /\ \A u \in Threads : u # w => th'[u] = th[u]
  BY <1>1, ThreadsAfter
<1>6. Len(objs) # 0
  BY <1>2 DEF JobKept, NoJobs
<1>7. ASSUME Len(objs) = 1, svc.cache = 1, faults = 0
      PROVE  JobIsAlone'
  <2>1. JobIsAlone
    BY <1>7 DEF JobKept
  <2>2. /\ id = objs[1].rec.job.id /\ objs[1].rec.job.status \in JobActive
        /\ Len(svc.queue) <= 1 /\ \A u \in Threads : th[u].op \notin {"job", "rescue"}
    BY <1>2, <2>1 DEF JobIsAlone, id
  <2>3. Len(svc'.queue) = 0
    <3>1. Len(svc.queue) \in Nat
      BY <1>2
    <3>2. Len(svc.queue) - 1 = 0
      <4> DEFINE n == Len(svc.queue)
      <4>1. n \in Nat /\ n # 0 /\ n <= 1
        BY <1>2, <2>2, <3>1
      <4> HIDE DEF n
      <4>2. n - 1 = 0
        BY <4>1
      <4>3. QED
        BY <4>2 DEF n
    <3>3. QED
      BY <1>2, <1>3, <3>2
  <2>4. \A u \in Threads : u # w => th'[u].op \notin {"job", "rescue"}
    BY <1>5, <2>2
  <2>5. /\ \A u \in Threads : th'[u].op = "job" => th'[u].job = id /\ u = w
        /\ \A u \in Threads : th'[u].op # "rescue"
    BY <1>4, <1>5, <2>4
  <2>6. svc'.jobs \/ \E u \in Threads : th'[u].pc = "submitting"
    <3>1. th[w].pc # "submitting"
      BY <1>1, StartTypes
    <3>2. QED
      BY <1>3, <1>5, <2>1, <2>2, <3>1 DEF JobIsAlone
  <2>7. QED
    BY <1>1, <2>2, <2>3, <2>5, <2>6 DEF JobIsAlone
<1>8. QED
  BY <1>1, <1>3, <1>4, <1>6, <1>7, JobKeptIf

\* The first object of a process has no active job (_build marked it).
LEMMA RegisterJobs ==
  ASSUME TypeOK, JobKept, NEW t \in Threads, Register(t)
  PROVE  JobKept'
<1> DEFINE o == IF svc.cache = 0 THEN Len(objs) + 1 ELSE svc.cache
           x == [Go(t, "got") EXCEPT !.obj = o, !.rec = NewRecord, !.doc = NewDoc]
           new == [doc |-> th[t].doc, rec |-> th[t].rec]
<1>1. /\ th[t].pc = "registering" /\ svc' = [svc EXCEPT !.cache = o] /\ Becomes(t, x)
      /\ objs' = IF svc.cache = 0 THEN Append(objs, new) ELSE objs
      /\ faults' = faults
  BY DEF Register, At
<1>2. "got" \in Places /\ Len(objs) \in Nat
  BY ObjectTypes DEF Places
<1>3. /\ Go(t, "got") \in Thread /\ Go(t, "got").pc = "got"
  BY <1>2, GoPlace
<1>4. Go(t, "got").op = th[t].op /\ Go(t, "got").job = th[t].job
  BY <1>2, GoJob
<1>5. o \in Nat
  BY <1>2, ServiceTypes
<1>6. svc'.cache = o /\ svc'.queue = svc.queue /\ (svc'.jobs <=> svc.jobs)
  BY <1>1, ServiceTypes DEF Service
<1> HIDE DEF o
<1>7. x \in Thread /\ x.pc = "got" /\ x.op = th[t].op /\ x.job = th[t].job
  BY <1>3, <1>4, <1>5, Constants DEF Thread
<1> HIDE DEF x
<1>8. OpPlaced(x)
  BY <1>7 DEF OpPlaced
<1>9. CASE svc.cache # 0
  <2>1. objs' = objs /\ svc'.cache = svc.cache
    BY <1>1, <1>6, <1>9 DEF o
  <2>2. JobsKept(t)
    BY <1>1, <1>6, <1>7, <1>8, <2>1, ThreadOnlyJobs
  <2>3. QED
    BY <2>2, JobsKeptStep
<1>10. CASE svc.cache = 0
  <2>1. objs \in Seq(Object) /\ new \in Object
    BY ThreadTypes DEF TypeOK, Object
  <2>2. objs' = Append(objs, new)
    BY <1>1, <1>10
  <2>3. new.rec = th[t].rec
    OBVIOUS
  <2> HIDE DEF new
  <2>4. Len(objs') = Len(objs) + 1 /\ objs'[Len(objs) + 1] = new
    BY <2>1, <2>2
  <2>5. Len(objs') # 0 /\ (Len(objs') = 1 => Len(objs) = 0 /\ objs'[1] = new)
    BY <1>2, <2>4
  <2>6. ASSUME Len(objs') = 1
        PROVE  JobIsAlone'
    <3>1. NoJobs /\ objs'[1].rec = th[t].rec
      BY <2>3, <2>5, <2>6 DEF JobKept
    <3>2. objs'[1].rec.job.status \notin JobActive
      BY <1>1, <3>1 DEF NoJobs
    <3>3. Len(svc'.queue) = 0
      BY <1>6, <3>1 DEF NoJobs
    <3>4. \A u \in Threads : th'[u].op \notin {"job", "rescue"}
      <4>1. th'[t] = x /\ \A u \in Threads : u # t => th'[u] = th[u]
        BY <1>1, ThreadsAfter
      <4>2. QED
        BY <1>7, <3>1, <4>1 DEF NoJobs
    <3>5. QED
      BY <3>2, <3>3, <3>4 DEF JobIsAlone
  <2>7. QED
    BY <1>1, <1>7, <1>8, <2>5, <2>6, JobKeptIf
<1>11. QED
  BY <1>9, <1>10

\* A job is started when the last one has ended.
LEMMA StartJobJobs ==
  ASSUME TypeOK, JobKept, NEW t \in Threads, StartJob(t)
  PROVE  JobKept'
<1> DEFINE rec == WithJob(Mine(t).rec, calls, "queued")
           service == [svc EXCEPT !.queue = Append(@, calls)]
           next == Go(t, "submitting")
<1>1. /\ th[t].pc = "got" /\ th[t].op = "start_job"
      /\ \/ Refused(t)
         \/ Mine(t).rec.job.status \notin JobActive /\ SaveRecord(t, rec, next, service)
  BY DEF StartJob, At
<1>2. th[t].pc \notin Building \union {"idle", "submitting"} /\ th[t].pc \notin Building \union {"idle"}
  BY <1>1 DEF Building
<1>3. CASE Refused(t)
  BY <1>2, <1>3, RefusedJobs, JobsKeptStep
<1>4. CASE Mine(t).rec.job.status \notin JobActive /\ SaveRecord(t, rec, next, service)
  <2>1. calls \in Nat /\ svc.queue \in Seq(Nat)
    BY TableTypes, ServiceTypes
  <2>2. rec \in Record /\ rec.job.id = calls /\ rec.job.status = "queued"
    BY <1>2, <2>1, MineJobTypes
  <2>3. /\ service \in Service(Len(objs)) /\ service.cache = svc.cache
        /\ service.queue = Append(svc.queue, calls)
    <3>1. Append(svc.queue, calls) \in Seq(Nat)
      BY <2>1
    <3>2. svc \in Service(Len(objs))
      BY ServiceTypes
    <3>3. QED
      BY <3>1, <3>2 DEF Service
  <2>4. "submitting" \in Places
    BY DEF Places
  <2>5. next \in Thread /\ next.pc = "submitting"
    BY <2>4, GoPlace
  <2>6. next.op = th[t].op /\ OpPlaced(next)
    BY <2>4, GoJob
  <2> HIDE DEF rec, service, next
  <2>7. CASE JobsKept(t)
    BY <2>7, JobsKeptStep
  <2>8. CASE /\ faults' = faults /\ objs' = [objs EXCEPT ![th[t].obj].rec = Newer(rec)]
             /\ Becomes(t, next) /\ svc' = service
    <3>1. /\ Len(objs') = Len(objs) /\ Len(objs) # 0
          /\ Len(objs) = 1 => objs'[1].rec.job = rec.job /\ th[t].obj = 1
      BY <1>2, <2>2, <2>8, SavedJob
    <3>2. th'[t] = next /\ \A u \in Threads : u # t => th'[u] = th[u]
      BY <2>8, ThreadsAfter
    <3>3. ASSUME Len(objs) = 1, svc.cache = 1, faults = 0
          PROVE  JobIsAlone'
      <4>1. JobIsAlone
        BY <3>3 DEF JobKept
      <4>2. objs[1].rec.job.status \notin JobActive
        BY <1>4, <3>1, <3>3 DEF Mine
      <4>3. Len(svc.queue) = 0 /\ \A u \in Threads : th[u].op \notin {"job", "rescue"}
        BY <4>1, <4>2 DEF JobIsAlone
      <4>4. \A u \in Threads : th'[u].op \notin {"job", "rescue"}
        BY <1>1, <2>6, <3>2, <4>3
      <4>5. Len(svc'.queue) = 1 /\ Head(svc'.queue) = calls
        <5>1. svc.queue = <<>>
          BY <2>1, <4>3
        <5>2. svc'.queue = <<calls>>
          BY <2>3, <2>8, <5>1
        <5>3. QED
          BY <2>1, <5>2
      <4>6. objs'[1].rec.job.id = calls /\ objs'[1].rec.job.status \in JobActive
        BY <2>2, <3>1, <3>3 DEF JobActive
      <4>7. \E u \in Threads : th'[u].pc = "submitting"
        BY <2>5, <3>2
      <4>8. QED
        BY <4>4, <4>5, <4>6, <4>7 DEF JobIsAlone
    <3>4. QED
      BY <2>3, <2>5, <2>6, <2>8, <3>1, <3>3, JobKeptIf
  <2>9. QED
    BY <1>2, <1>4, <2>2, <2>3, <2>5, <2>7, <2>8, SaveRecordJobs
<1>5. QED
  BY <1>1, <1>3, <1>4

\* A worker that has its job saves the job's record.
LEMMA WorkerSaves ==
  ASSUME TypeOK, JobKept, NEW w \in Threads, th[w].pc \notin Building \union {"idle", "submitting"},
         th[w].op = "job", NEW rec \in Record, NEW next \in Thread, OpPlaced(next),
         NEW service \in Service(Len(objs)), SaveRecord(w, rec, next, service),
         service.cache = svc.cache, service.queue = svc.queue,
         \/ next = Idle /\ rec.job.status \notin JobActive
         \/ /\ next.op = "job" /\ next.job = th[w].job /\ rec.job.status \in JobActive
            /\ (service.jobs <=> svc.jobs) /\ rec.job.id = Mine(w).rec.job.id
  PROVE  JobKept'
<1>1. CASE JobsKept(w)
  BY <1>1, JobsKeptStep
<1>2. CASE /\ faults' = faults /\ objs' = [objs EXCEPT ![th[w].obj].rec = Newer(rec)]
           /\ Becomes(w, next) /\ svc' = service
  <2>1. th[w].pc \notin Building \union {"idle"}
    OBVIOUS
  <2>2. /\ Len(objs') = Len(objs) /\ Len(objs) # 0
        /\ Len(objs) = 1 => objs'[1].rec.job = rec.job /\ th[w].obj = 1
    BY <1>2, <2>1, SavedJob
  <2>3. th'[w] = next /\ \A u \in Threads : u # w => th'[u] = th[u]
    BY <1>2, ThreadsAfter
  <2>4. ASSUME Len(objs) = 1, svc.cache = 1, faults = 0
        PROVE  JobIsAlone'
    <3>1. JobIsAlone
      BY <2>4 DEF JobKept
    <3>2. /\ th[w].job = objs[1].rec.job.id /\ objs[1].rec.job.status \in JobActive
          /\ Len(svc.queue) = 0 /\ \A u \in Threads : th[u].op = "job" => u = w
      BY <3>1 DEF JobIsAlone
    <3>3. Len(svc'.queue) = 0 /\ objs'[1].rec.job = rec.job
      BY <1>2, <2>2, <2>4, <3>2
    <3>4. \A u \in Threads : th'[u].op # "rescue"
      BY <2>3, <3>1, StartTypes DEF JobIsAlone
    <3>5. CASE next = Idle /\ rec.job.status \notin JobActive
      <4>1. \A u \in Threads : th'[u].op # "job"
        BY <2>3, <3>2, <3>5, StartTypes
      <4>2. QED
        BY <3>3, <3>4, <3>5, <4>1 DEF JobIsAlone
    <3>6. CASE /\ next.op = "job" /\ next.job = th[w].job /\ rec.job.status \in JobActive
               /\ (service.jobs <=> svc.jobs) /\ rec.job.id = Mine(w).rec.job.id
      <4>1. rec.job.id = objs[1].rec.job.id
        BY <2>2, <2>4, <3>6 DEF Mine
      <4>2. \A u \in Threads : th'[u].op = "job" => th'[u].job = rec.job.id /\ u = w
        BY <2>3, <3>2, <3>6, <4>1
      <4>3. svc'.jobs \/ \E u \in Threads : th'[u].pc = "submitting"
        <5>1. svc.jobs \/ \E u \in Threads : th[u].pc = "submitting"
          BY <3>1, <3>2 DEF JobIsAlone
        <5>2. th[w].pc # "submitting"
          OBVIOUS
        <5>3. QED
          BY <1>2, <2>3, <3>6, <5>1, <5>2
      <4>4. QED
        BY <3>3, <3>4, <3>6, <4>2, <4>3 DEF JobIsAlone
    <3>7. QED
      BY <3>4, <3>5, <3>6, StartTypes
  <2>5. QED
    BY <1>2, <2>2, <2>4, JobKeptIf
<1>3. QED
  BY <1>1, <1>2, SaveRecordJobs

\* A job that is over leaves the queue as it is.
LEMMA JobOverQueue ==
  ASSUME TypeOK
  PROVE  /\ JobOver \in Service(Len(objs)) /\ JobOver.cache = svc.cache
         /\ JobOver.queue = svc.queue
  BY ServiceTypes DEF JobOver, Service

\* A worker finds its own job, since no other was started.
LEMMA JobRunsJobs ==
  ASSUME TypeOK, JobKept, NEW w \in Threads, JobRuns(w)
  PROVE  JobKept'
<1> DEFINE rec == WithJob(Mine(w).rec, Mine(w).rec.job.id, "running")
           next == Go(w, "looping")
<1>1. /\ th[w].pc = "got" /\ th[w].op = "job"
      /\ \/ /\ Mine(w).rec.job.id # th[w].job
            /\ Becomes(w, Idle) /\ svc' = JobOver /\ UNCHANGED <<objs, faults>>
         \/ SaveRecord(w, rec, next, svc)
  BY DEF JobRuns, At
<1>2. th[w].pc \notin Building \union {"idle", "submitting"} /\ th[w].pc \notin Building \union {"idle"}
  BY <1>1 DEF Building
<1>3. CASE /\ Mine(w).rec.job.id # th[w].job
           /\ Becomes(w, Idle) /\ svc' = JobOver /\ UNCHANGED <<objs, faults>>
  <2>1. Idle \in Thread /\ OpPlaced(Idle) /\ svc'.cache = svc.cache
    BY <1>3, StartTypes, StartPlaced, JobOverQueue
  <2>2. th[w].obj \in 1 .. Len(objs) /\ Len(objs) \in Nat /\ Len(objs) # 0
    BY <1>2, MineTypes, ObjectTypes
  <2>3. ~(Len(objs) = 1 /\ svc.cache = 1 /\ faults = 0)
    <3> SUFFICES ASSUME Len(objs) = 1, svc.cache = 1, faults = 0 PROVE FALSE
      OBVIOUS
    <3>1. th[w].job = objs[1].rec.job.id
      BY <1>1 DEF JobKept, JobIsAlone
    <3>2. th[w].obj = 1
      BY <2>2
    <3>3. QED
      BY <1>3, <3>1, <3>2 DEF Mine
  <2>4. QED
    BY <1>3, <2>1, <2>2, <2>3, JobKeptIf
<1>4. CASE SaveRecord(w, rec, next, svc)
  <2>1. Mine(w).rec.job.id \in Nat
    BY <1>2, MineJobId
  <2>2. rec \in Record /\ rec.job.id = Mine(w).rec.job.id /\ rec.job.status = "running"
    BY <1>2, <2>1, MineJobTypes
  <2>3. rec.job.status \in JobActive
    BY <2>2 DEF JobActive
  <2>4. "looping" \in Places
    BY DEF Places
  <2>5. next \in Thread /\ next.pc = "looping"
    BY <2>4, GoPlace
  <2>6. next.op = "job" /\ next.job = th[w].job
    BY <1>1, <2>4, GoJob
  <2> HIDE DEF rec, next
  <2>7. OpPlaced(next)
    BY <2>5, <2>6 DEF OpPlaced
  <2>8. svc \in Service(Len(objs))
    BY ServiceTypes
  <2>9. QED
    BY <1>1, <1>2, <1>4, <2>2, <2>3, <2>5, <2>6, <2>7, <2>8, WorkerSaves
<1>5. QED
  BY <1>1, <1>3, <1>4

\* The end of a job ends its record.
LEMMA JobClosesJobs ==
  ASSUME TypeOK, JobKept, NEW w \in Threads, JobCloses(w)
  PROVE  JobKept'
<1> DEFINE rec == WithJob(Mine(w).rec, Mine(w).rec.job.id, th[w].out)
<1>1. th[w].pc = "closing" /\ SaveRecord(w, rec, Idle, JobOver)
  BY DEF JobCloses, At
<1>2. th[w].pc \notin Building \union {"idle", "submitting"} /\ th[w].pc \notin Building \union {"idle"}
  BY <1>1 DEF Building
<1>3. th[w].op = "job"
  BY <1>1 DEF JobKept, OpsPlaced, OpPlaced
<1>4. Mine(w).rec.job.id \in Nat /\ th[w].out \in {"completed", "halted"}
  BY <1>2, MineJobId, ThreadTypes
<1>5. rec \in Record /\ rec.job.status = th[w].out
  BY <1>2, <1>4, MineJobTypes
<1>6. rec.job.status \notin JobActive
  BY <1>4, <1>5 DEF JobActive
<1> HIDE DEF rec
<1>7. QED
  BY <1>1, <1>2, <1>3, <1>5, <1>6, StartTypes, StartPlaced, JobOverQueue, WorkerSaves

\* A job is rescued when its object was lost.
LEMMA RescueJobJobs ==
  ASSUME TypeOK, JobKept, NEW w \in Threads, RescueJob(w)
  PROVE  JobKept'
<1> DEFINE rec == WithJob(Mine(w).rec, Mine(w).rec.job.id, "failed")
<1>1. th[w].pc = "got" /\ th[w].op = "rescue" /\ SaveRecord(w, rec, Idle, JobOver)
  BY DEF RescueJob, At
<1>2. th[w].pc \notin Building \union {"idle", "submitting"} /\ th[w].pc \notin Building \union {"idle"}
  BY <1>1 DEF Building
<1>3. Mine(w).rec.job.id \in Nat
  BY <1>2, MineJobId
<1>4. rec \in Record
  BY <1>2, <1>3, MineJobTypes
<1> HIDE DEF rec
<1>5. CASE JobsKept(w)
  BY <1>5, JobsKeptStep
<1>6. CASE /\ faults' = faults /\ objs' = [objs EXCEPT ![th[w].obj].rec = Newer(rec)]
           /\ Becomes(w, Idle) /\ svc' = JobOver
  <2>1. Len(objs') = Len(objs) /\ Len(objs) # 0
    BY <1>2, <1>4, <1>6, SavedJob
  <2>2. ~(Len(objs) = 1 /\ svc.cache = 1 /\ faults = 0)
    BY <1>1 DEF JobKept, JobIsAlone
  <2>3. svc'.cache = svc.cache
    BY <1>6, JobOverQueue
  <2>4. QED
    BY <1>6, <2>1, <2>2, <2>3, StartTypes, StartPlaced, JobKeptIf
<1>7. QED
  BY <1>1, <1>2, <1>4, <1>5, <1>6, StartTypes, JobOverQueue, SaveRecordJobs

\* The process has just started.
LEMMA NoJobsKept ==
  ASSUME Len(objs) = 0, svc = NewService, \A t \in Threads : th[t] = Idle
  PROVE  JobKept
<1>1. Len(svc.queue) = 0 /\ ~svc.jobs
  BY DEF NewService
<1>2. NoJobs
  BY <1>1, StartTypes DEF NoJobs
<1>3. OpsPlaced
  BY StartPlaced DEF OpsPlaced
<1>4. QED
  BY <1>2, <1>3 DEF JobKept

\* A restarted process has no jobs.
LEMMA CrashJobs ==
  ASSUME TypeOK, Crash
  PROVE  JobKept'
<1>1. Len(objs') = 0 /\ \A t \in Threads : th'[t] = Idle
  BY CrashFacts
<1>2. Len(svc'.queue) = 0 /\ ~svc'.jobs
  BY DEF Crash, NewService
<1>3. NoJobs'
  BY <1>1, <1>2, StartTypes DEF NoJobs
<1>4. OpsPlaced'
  BY <1>1, StartTypes DEF OpsPlaced, OpPlaced
<1>5. QED
  BY <1>1, <1>3, <1>4 DEF JobKept

\* Every step keeps what is known of the job.
LEMMA JobStepKept ==
  ASSUME TypeOK, JobKept, [Next]_vars
  PROVE  JobKept'
<1>1. OpsPlaced
  BY DEF JobKept
<1>2. ASSUME NEW t \in Threads, Begin(t) \/ Get(t)
      PROVE  JobKept'
  <2>1. CASE Register(t)
    BY <2>1, RegisterJobs
  <2>2. CASE Begin(t) \/ Again(t) \/ Learn(t) \/ ReadRecord(t) \/ LoadDoc(t) \/ SaveStart(t) \/ MarkJob(t)
    <3>1. JobsKept(t)
      BY <1>1, <2>2, BeginJobs, LearnJobs, LoadJobs, MarkJobJobs
    <3>2. QED
      BY <3>1, JobsKeptStep
  <2>3. QED
    BY <1>2, <2>1, <2>2 DEF Get
<1>3. ASSUME NEW t \in Threads, Request(t)
      PROVE  JobKept'
  <2>1. CASE StartJob(t)
    BY <2>1, StartJobJobs
  <2>2. CASE Report(t) \/ Signal(t) \/ HaltDoc(t) \/ HaltRecord(t) \/ ResumeRecord(t)
    <3>1. JobsKept(t)
      BY <2>2, LoadJobs, SignalJobs, HaltDocJobs, HaltRecordJobs
    <3>2. QED
      BY <3>1, JobsKeptStep
  <2>3. CASE ResumeLoad(t) \/ ResumeSave(t) \/ Step(t) \/ AnalyzeStep(t) \/ Submitted(t)
    <3>1. JobsKept(t)
      BY <2>3, ResumeJobs, StepJobs, SubmittedJobs
    <3>2. QED
      BY <3>1, JobsKeptStep
  <2>4. QED
    BY <1>3, <2>1, <2>2, <2>3 DEF Request
<1>4. ASSUME NEW t \in Threads, Loop(t) \/ RoundEnds(t) \/ RunsJob(t)
      PROVE  JobKept'
  <2>1. CASE TakeJob(t) \/ JobRuns(t) \/ JobCloses(t) \/ RescueJob(t)
    BY <2>1, TakeJobJobs, JobRunsJobs, JobClosesJobs, RescueJobJobs
  <2>2. CASE Loop(t) \/ RoundEnds(t) \/ JobStep(t) \/ JobNotes(t)
    <3>1. JobsKept(t)
      BY <1>1, <2>2, LoopJobs, RoundEndsJobs, StepJobs, JobNotesJobs
    <3>2. QED
      BY <3>1, JobsKeptStep
  <2>3. QED
    BY <1>4, <2>1, <2>2 DEF RunsJob
<1>5. CASE UNCHANGED vars
  BY <1>5 DEF vars, JobKept, OpsPlaced, OpPlaced, NoJobs, JobIsAlone
<1>6. CASE Crash
  BY <1>6, CrashJobs
<1>7. QED
  BY <1>2, <1>3, <1>4, <1>5, <1>6 DEF Next, Runs

\* A campaign that says a job is queued or running has a job that will finish
\* (_build, start_job, _run_job): the service knows of it, or the thread that
\* has given it to the executor is about to say so.
THEOREM JobsAreReal == Spec => []NoPhantomJob
<1>1. Init => TypeOK /\ OneHolder /\ JobKept
  <2> SUFFICES ASSUME Init PROVE TypeOK /\ OneHolder /\ JobKept
    OBVIOUS
  <2>1. Len(objs) = 0 /\ svc = NewService /\ \A t \in Threads : th[t] = Idle
    BY DEF Init
  <2>2. QED
    BY <2>1, InitTypes, NoJobsKept
<1>2. TypeOK /\ OneHolder /\ JobKept /\ [Next]_vars => TypeOK' /\ OneHolder' /\ JobKept'
  BY TypesStep, JobStepKept
<1>3. TypeOK /\ JobKept => NoPhantomJob
  <2> SUFFICES ASSUME TypeOK, JobKept, OneObject, faults = 0, svc.cache # 0,
                      objs[svc.cache].rec.job.status \in JobActive
               PROVE  svc.jobs \/ \E t \in Threads : th[t].pc = "submitting"
    BY DEF NoPhantomJob
  <2>1. Len(objs) = 1 /\ svc.cache = 1
    BY ServiceTypes, ObjectTypes DEF OneObject
  <2>2. QED
    BY <2>1 DEF JobKept, JobIsAlone
<1>4. QED
  BY <1>1, <1>2, <1>3, PTL DEF Spec

=============================================================================
