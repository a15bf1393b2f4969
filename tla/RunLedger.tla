----------------------------- MODULE RunLedger -----------------------------
(***************************************************************************)
(* The stored ledger of a research campaign, whatever processes, crashes   *)
(* and failed saves lie behind it: a run starts only when it is on record, *)
(* a record is made only of a run that is new and within the limit, and    *)
(* no save forgets what a run has cost.                                    *)
(***************************************************************************)
EXTENDS Naturals, Sequences, FiniteSets

VARIABLES
  created,   \* the campaign is stored
  limit,     \* executions it may spend
  spent,     \* executions it has spent
  onRecord,  \* the run whose start is on record, as a sequence of at most one
  over,      \* the campaign has ended for good
  ran        \* the runs that were started, in order

Fresh(run) ==
  \A n \in DOMAIN ran : ran[n].input # run.input \/ ran[n].retry # run.retry

Cost == Cardinality({n \in DOMAIN ran : ran[n].executed})

Init == ~created /\ ~over /\ onRecord = <<>> /\ ran = <<>>

\* A save.  Limits tighten, consumption grows, an end is final.
Save ==
  /\ created'
  /\ created => limit' <= limit /\ spent' >= spent /\ (over => over')
  /\ Cost <= spent'
  /\ \/ onRecord' = <<>>
     \/ /\ Len(onRecord') = 1 /\ Fresh(onRecord'[1])
        /\ spent' < limit' /\ ~over'
  /\ UNCHANGED ran

Run ==
  /\ onRecord # <<>> /\ Fresh(onRecord[1])
  /\ \E executed \in BOOLEAN :
       ran' = Append(ran, [input |-> onRecord[1].input, retry |-> onRecord[1].retry,
                           executed |-> executed])
  /\ UNCHANGED <<created, limit, spent, onRecord, over>>

Next == Save \/ Run

Spec == Init /\ [][Next]_<<created, limit, spent, onRecord, over, ran>>
=============================================================================
