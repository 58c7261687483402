---- MODULE ExecutionTrace ----
(***************************************************************************)
(* `status -vvvv` of a Condor campaign (execution_trace.py): the timeline  *)
(* put together from the event logs of the generations (the first          *)
(* submission and every resume), the worker's provenance of each attempt   *)
(* and what condor_q and condor_history still know of the jobs.            *)
(*                                                                         *)
(* The actions are the world the reader finds: jobs start, are evicted and *)
(* start again, workers record what their job ad says, and the evidence    *)
(* is lost or damaged.  The operators are the reader; it can run at any    *)
(* moment, so what it reports is a state function.                         *)
(***************************************************************************)
EXTENDS Naturals, FiniteSets, Sequences

CONSTANTS
  Job,        \* Condor jobs of the campaign's DAG nodes
  Generation, \* the DAGs submitted, each with an event log of its own
  GenOf,      \* GenOf[j]: the generation j belongs to
  Lags,       \* by how much the NumJobStarts of a job ad may be behind
  MaxEvents,  \* bound: MaxEvents[j] events written for j
  MaxFaults   \* bound: pieces of evidence lost or damaged

ASSUME TraceAssumption ==
  /\ GenOf \in [Job -> Generation]
  /\ Lags \subseteq Nat
  /\ MaxEvents \in [Job -> Nat]
  /\ MaxFaults \in Nat

(* EVENT_NAMES by what _job_executions does with them: 0, 1, the codes of  *)
(* _END_EXECUTION_CODES, all the others.  "garbled": no readable header.   *)
EventKind == {"submit", "execute", "end", "other", "garbled"}

(* `start` is the truth: the start of the job the event belongs to.        *)
Event == [job : Job, kind : EventKind, start : Nat]

(* scheduler identity in provenance.json: whether the job ad was readable, *)
(* and NumJobStarts as it had it (0 with none).  `ran` is the truth: the   *)
(* start the worker ran in.                                                *)
Attempt == [job : Job, known : BOOLEAN, start : Nat, ran : Nat \ {0}]

VARIABLES
  log,       \* log[g]: the event log of generation g
  cut,       \* cut[g]: events before the bounded tail that is read
  written,   \* written[j]: how many events of j were written
  starts,    \* starts[j]: how often j has started
  running,   \* the jobs that are executing
  held,      \* the jobs on hold
  attempts,  \* the attempts recorded
  dagmanIds, \* the jobs whose ads carry DAGManJobId
  listed,    \* the jobs condor_q or condor_history reports
  clusters,  \* the generations whose submit.json names the DAGMan cluster
  faults     \* pieces of evidence lost so far

jobVars == <<starts, running, held>>
evidenceVars == <<cut, dagmanIds, listed, clusters, faults>>
vars == <<log, written, jobVars, attempts, evidenceVars>>

Init ==
  /\ log = [g \in Generation |-> <<>>]
  /\ cut = [g \in Generation |-> 0]
  /\ written = [j \in Job |-> 0]
  /\ starts = [j \in Job |-> 0]
  /\ running = {}
  /\ held = {}
  /\ attempts = {}
  /\ dagmanIds \in SUBSET Job
  /\ listed = {}
  /\ clusters \in SUBSET Generation
  /\ faults = 0

----
(* Jobs and workers                                                        *)

Write(j, k, n) ==
  /\ written[j] < MaxEvents[j]
  /\ written' = [written EXCEPT ![j] = @ + 1]
  /\ log' = [log EXCEPT ![GenOf[j]] =
               Append(@, [job |-> j, kind |-> k, start |-> n])]

Submit(j) ==
  /\ written[j] = 0
  /\ Write(j, "submit", 0)
  /\ listed' = listed \cup {j}
  /\ UNCHANGED <<jobVars, attempts, cut, dagmanIds, clusters, faults>>

(* A first start, or another one after an eviction, a hold, or a startup   *)
(* failure that the same job retries.                                      *)
Execute(j) ==
  /\ j \in listed \ (running \cup held)
  /\ starts' = [starts EXCEPT ![j] = @ + 1]
  /\ running' = running \cup {j}
  /\ Write(j, "execute", starts[j] + 1)
  /\ UNCHANGED <<held, attempts, evidenceVars>>

(* The worker makes its attempt; the job ad may be unreadable, and its     *)
(* NumJobStarts may be behind.                                             *)
RecordAttempt(j) ==
  /\ j \in running
  /\ ~\E a \in attempts : a.job = j /\ a.ran = starts[j]
  /\ \/ \E lag \in Lags :
          /\ lag <= starts[j]
          /\ attempts' = attempts \cup
               {[job |-> j, known |-> TRUE, start |-> starts[j] - lag, ran |-> starts[j]]}
     \/ attempts' = attempts \cup
          {[job |-> j, known |-> FALSE, start |-> 0, ran |-> starts[j]]}
  /\ UNCHANGED <<log, written, jobVars, evidenceVars>>

EndExecution(j) ==
  /\ j \in running
  /\ running' = running \ {j}
  /\ Write(j, "end", starts[j])
  /\ UNCHANGED <<starts, held, attempts, evidenceVars>>

(* Held or removed while it waits: an event with an end code that ends no  *)
(* execution; and the release, which is neither a start nor an end.        *)
HoldIdle(j) ==
  /\ j \in listed \ (running \cup held)
  /\ held' = held \cup {j}
  /\ Write(j, "end", 0)
  /\ UNCHANGED <<starts, running, attempts, evidenceVars>>

ReleaseHeld(j) ==
  /\ j \in held
  /\ held' = held \ {j}
  /\ Write(j, "other", 0)
  /\ UNCHANGED <<starts, running, attempts, evidenceVars>>

----
(* Evidence is lost                                                        *)

Fault == faults < MaxFaults /\ faults' = faults + 1

(* The log outgrows MAX_EVENT_LOG_BYTES: only its tail is read.            *)
Outgrow(g) ==
  /\ Fault
  /\ \E n \in cut[g] + 1 .. Len(log[g]) : cut' = [cut EXCEPT ![g] = n]
  /\ UNCHANGED <<log, written, jobVars, attempts, dagmanIds, listed, clusters>>

(* An event whose header cannot be parsed.                                 *)
Garble(g) ==
  /\ Fault
  /\ \E i \in DOMAIN log[g] : log' = [log EXCEPT ![g][i].kind = "garbled"]
  /\ UNCHANGED <<written, jobVars, attempts, cut, dagmanIds, listed, clusters>>

(* The oldest events, or all of them, are gone from the file: rotated away *)
(* or removed.                                                             *)
Rotate(g) ==
  /\ Fault
  /\ cut[g] = 0
  /\ \E n \in 1 .. Len(log[g]) :
       log' = [log EXCEPT ![g] = SubSeq(@, n + 1, Len(@))]
  /\ UNCHANGED <<written, jobVars, attempts, cut, dagmanIds, listed, clusters>>

(* The scheduler's history no longer has the job.                          *)
Forget(j) ==
  /\ Fault
  /\ j \in listed \ running
  /\ starts[j] > 0
  /\ listed' = listed \ {j}
  /\ UNCHANGED <<log, written, jobVars, attempts, cut, dagmanIds, clusters>>

Next ==
  \/ \E j \in Job : Submit(j) \/ Execute(j) \/ RecordAttempt(j)
                      \/ EndExecution(j) \/ HoldIdle(j) \/ ReleaseHeld(j)
                      \/ Forget(j)
  \/ \E g \in Generation : Outgrow(g) \/ Garble(g) \/ Rotate(g)

Spec == Init /\ [][Next]_vars

----
(* The reader                                                              *)

(* The retained tail, as positions in the log.                             *)
Retained(g) == cut[g] + 1 .. Len(log[g])

Truncated(g) == cut[g] > 0
ParseErrors(g) == \E i \in Retained(g) : log[g][i].kind = "garbled"

(* Mutant: unreadable events are skipped without a consequence.            *)
Incomplete_TruncatedOnly(g) == Truncated(g)

Incomplete(g) == Truncated(g) \/ ParseErrors(g)

(* The events of a job that could be parsed.                               *)
JobEvents(j) ==
  {i \in Retained(GenOf[j]) :
     log[GenOf[j]][i].job = j /\ log[GenOf[j]][i].kind # "garbled"}

NoEnd == [start |-> 0]

(* One event of a job: `execute` begins an execution, an end code ends the *)
(* one that is open, anything else belongs to it or lies outside.          *)
AddEvent(acc, e) ==
  CASE e.kind = "execute" ->
         [runs |-> Append(acc.runs, [execute |-> e, end |-> NoEnd]), open |-> TRUE]
    [] e.kind = "end" /\ acc.open ->
         [runs |-> [acc.runs EXCEPT ![Len(acc.runs)].end = e], open |-> FALSE]
    [] OTHER -> acc

(* What the loop over the events of j has made of those up to position i.  *)
Reading(j) ==
  LET events == log[GenOf[j]]
      mine == JobEvents(j)
      read[i \in 0 .. Len(events)] ==
        IF i = 0 THEN [runs |-> <<>>, open |-> FALSE]
        ELSE IF i \in mine THEN AddEvent(read[i - 1], events[i])
        ELSE read[i - 1]
  IN  read

Executions(j) == Reading(j)[Len(log[GenOf[j]])].runs

CompleteFromSubmit(j) ==
  /\ \E i \in JobEvents(j) : log[GenOf[j]][i].kind = "submit"
  /\ ~Incomplete(GenOf[j])

(* The attempts that name job j.                                           *)
Claiming(j) == {a \in attempts : a.known /\ a.job = j}

(* Those attached to its execution k, as association=direct: the recorded  *)
(* NumJobStarts is the index of the execution: an attempt whose job ad was *)
(* one behind (status_view.py:223 has seen such ads) is attached to the    *)
(* start before its own.                                                   *)
Direct(j, k) == {a \in Claiming(j) : CompleteFromSubmit(j) /\ a.start = k}

Attached(j) == UNION {Direct(j, k) : k \in DOMAIN Executions(j)}
Unlinked(j) == Claiming(j) \ Attached(j)

(* A job with events is shown under the generation of its log; one without *)
(* under the generation whose cluster its DAGManJobId names, if any.       *)
Seen(j) == JobEvents(j) # {}

(* Mutant: a job counts as shown although no generation was found for it.  *)
PlacedByDagman_Always(j) == j \in dagmanIds /\ (j \in listed \/ Claiming(j) # {})

PlacedByDagman(j) ==
  /\ j \in dagmanIds /\ (j \in listed \/ Claiming(j) # {})
  /\ GenOf[j] \in clusters

Shown == {j \in Job : Seen(j) \/ PlacedByDagman(j)}

(* The jobs appended to the generations after their logs were read.        *)
Appended(g) ==
  {j \in Job : ~Seen(j) /\ GenOf[j] = g /\ g \in clusters /\ PlacedByDagman(j)}

JobsOf(g) == {j \in Job : GenOf[j] = g /\ Seen(j)} \cup Appended(g)

Orphans == attempts \ UNION {Claiming(j) : j \in Shown}

----
(* Properties                                                              *)

(* "A start is labeled `start N` only when the retained event log includes *)
(* that job's submit event and is therefore complete from submission": the *)
(* N-th execution then is the job's N-th start, and the end it is shown    *)
(* with is the end of that start.                                          *)
TimelineTrue ==
  \A j \in Job : CompleteFromSubmit(j) =>
    \A k \in DOMAIN Executions(j) :
      LET x == Executions(j)[k] IN
        x.execute.start = k /\ (x.end # NoEnd => x.end.start = k)

(* Every attempt appears in the trace exactly once: at an execution, among *)
(* the unlinked attempts of its job, or among the orphans; none is lost    *)
(* because a log, a cluster id or the scheduler's memory is gone.          *)
EveryAttemptShown ==
  \A a \in attempts :
    Cardinality({at \in Generation \X Job : at[2] \in JobsOf(at[1]) /\ a \in Attached(at[2])})
    + Cardinality({at \in Generation \X Job : at[2] \in JobsOf(at[1]) /\ a \in Unlinked(at[2])})
    + Cardinality(Orphans \cap {a}) = 1
====
