# TLA+ models of yall-run

yall-run runs a *campaign*: a frozen graph of shell tasks read from a Yallfile,
executed on the local machine or handed to Condor, Slurm or PBS. There is no
server. Every command line call, every batch job and every worker is a process
of its own, and they communicate only through JSON files in the campaign
directory, each replaced atomically (`_write_json`: temporary file, `fsync`,
rename) and none protected by a lock except the queued `resume`. What can go wrong is therefore
what these models are about: the order in which files are written, a process
that dies between two writes, and two commands that read the same file before
either writes it.

All source paths below are relative to `src/src/yall_run/`, documents to `src/`.

## 1. Inventory

| component | state | operations | status |
|---|---|---|---|
| Yallfile syntax, expansion, graph (`syntax.py`, `model.py`) | none (a parse) | parse, expand patterns, `_validate_graph` | expansion and graph modelled; the line parser left |
| campaign creation (`campaign.py create_campaign`) | the frozen campaign directory | preflight, publish `campaign.json` last | partly: the initial state |
| start protocol (`campaign.py`) | `state/start-pending.json`, `start.json` | `prepare_campaign_start`, `begin_campaign`, `cancel_prepared_start` | modelled |
| worker (`worker.py run_task`) | `state/<task>.json`, `<task>_attempt_NNN/attempt.json`, `provenance.json`, products, startup marker | one attempt of one task | modelled |
| local coordinator (`campaign.py _run_local_graph`) | `reconciled`, `remaining`, `running` of a loop, a thread pool | scan, submit, block, wait, in-pool retries, final count | modelled |
| local `retry`, `resume` (`campaign.py`) | the same files | `retry_task`, `resume_local` | modelled, but for `resumes/resume_NNN.json` |
| postflight (`campaign.py run_postflight`) | `postflight/001`, `postflight.json` | run the hooks once | modelled with one hook |
| Slurm and PBS (`slurm_backend.py`, `pbs_backend.py`, `batch_common.py`) | `submit.json`, scheduler queue | held submission, dependencies, release, cancel | modelled; rendering and queue status left |
| Condor (`condor_backend.py`) | DAG files, `submit.json`, startup marker | submission, node launcher with two retry budgets | modelled; queue status left |
| queued recovery (`recovery.py`) | `resume.lock`, `submit.json` of each round, scheduler queue, rescue DAGs | lock, snapshot, plan, cancel, staged submission, reconcile | modelled; dry run, host check, history left |
| amendments (`amend.py`) | `amendments/NNNN`, effective commands | append an amendment; workers read the chain | modelled; refusals of other edits left |
| postflight runner (`postflight_runner.py`) | postflight files | the batch job that runs the hooks | modelled with one hook |
| wall time (`walltime.py`) | none | validate, parse, choose, format | modelled |
| execution trace (`execution_trace.py`) | none | read event logs, associate attempts | modelled; its text left |
| status view, export (`status_view.py`, `export.py`) | none | read-only reports | not modelled |
| command line, paths, version, wrapper (`cli.py`, `paths.py`, `version.py`, `execution.py`) | none | argument parsing, file copies | not modelled |

**Interactions.** `start` on any backend goes through the start protocol. The
local coordinator calls `run_task` in threads; batch jobs call it in their own
processes; `retry` calls it in the user's shell. `run_task` reads the overwrite
policy the start protocol recorded and the amendments `amend` appended. `resume`
rewrites the state files the workers write; the queued one also reads the
scheduler's queue. Postflight reads all state files.

**Hard behaviours, and what correctness means.**

- *Worker*: the attempt number is computed from a state file that another worker
  or a crash may have left behind; directory creation is the only arbiter. Attempt
  directories must not be shared, skipped or rewritten, and a state file must never
  claim what `attempt.json` does not back.
- *Start protocol*: checks and writes are separate steps, a pending record has to be
  withdrawn on every failing path, and scheduler jobs may run before `start.json` exists.
- *Local coordinator*: task states change under the scan (in-pool retries, other
  commands); a worker that raises ends the loop while others run. Dependency order
  must hold, the loop must not stall or end with tasks unsettled, success must mean
  everything completed.
- *Retry and resume*: no lock. Completed work must be kept; a task must never run over a
  parent that did not complete; an interrupted campaign should be resumable.
- *Slurm and PBS submission*: many scheduler commands, each of which can fail, answer nothing or
  work in part, around the start protocol. Dependency order now rests on exit codes and
  `afterok`, postflight on the leaves of the graph. No job may run before `start.json`
  exists, what may run must be on record, a failed submission must leave nothing that runs.
- *Queued recovery*: snapshots age while jobs change state; submissions may have been
  accepted although they timed out; the lock may be left behind. No task may have two
  live jobs, and what was submitted must be on record.
- *Condor node*: one exit code must tell "failed before the payload started" (retry
  for free) from "payload failed" (charged to `%retry`).
- *Condor submission and rescue*: nodes may run before `start.json` is written, and a DAG
  outlives a start that was refused or killed. What a rescue file calls DONE must be what Yall's
  records call completed.
- *Amendments*: attempts must run a command that the recorded chain defines and say so in
  `provenance.json`; each amendment starts from what its predecessors left.
- *Execution trace*: a partial log must never number executions as if it were complete, and
  no attempt may get lost with the evidence about its job.
- *Expansion*: rows are correlated, never multiplied; a task waits for its own lineage; what
  every other module assumes of the graph must be what `_validate_graph` accepts.

`PROJECT.json` lists these hazards line by line, with the properties that cover them.

## 2. Modules

```
CampaignDisk            the files (shared state), assumptions on the graph
  Worker                run_task, one action per file system step
  StartProtocol         prepare / begin / cancel
    LocalCampaign       coordinator, retry, resume, postflight, kills
      LocalProperties   what is asked of it
        MCLocal, MCLocalRace, MCLocalLive
  BatchQueue            the scheduler and the batch scripts (EXTENDS Worker)
    BatchSubmit         submit_slurm, submit_pbs (EXTENDS BatchQueue, StartProtocol)
      BatchProperties   what is asked of it
        MCBatch, MCBatchRace
  ResumeRound           what resumes of queued backends share: lock, plan, reconciliation (EXTENDS Worker)
    Recovery            resume on Slurm and PBS (EXTENDS BatchSubmit, ResumeRound)
      RecoveryProperties (EXTENDS Recovery, BatchProperties)
        MCRecovery
  CondorNode            the DAG, the node launcher, DAGMan (EXTENDS Worker)
    CondorCampaign      submit_rendered and resume (EXTENDS CondorNode, StartProtocol, ResumeRound)
      CondorProperties
        MCCondor
  Amendment             amend, and workers that resolve their definition (EXTENDS Worker)
    MCAmend
  MCWorker
CampaignLifecycle       abstract: what a campaign promises of its tasks
QueuedCampaign          abstract: live jobs and completed tasks of a queued campaign
GraphCheck              _validate_graph
Walltime                walltime.py
  Load                  load_yall_spec (EXTENDS GraphCheck, Walltime)
    MCLoad
ExecutionTrace          events, attempts, lost evidence, and their reader
  MCTrace
WorkerProofs            Worker proved        (EXTENDS Worker, TLAPS and library theorems)
  LocalProofs           LocalCampaign proved (EXTENDS LocalProperties, WorkerProofs)
  BatchProofs           BatchSubmit proved   (EXTENDS BatchProperties, WorkerProofs)
    RecoveryProofs      Recovery proved      (EXTENDS RecoveryProperties, BatchProofs)
  CondorProofs          CondorCampaign proved (EXTENDS CondorProperties, WorkerProofs)
  AmendProofs           Amendment proved     (EXTENDS Amendment, WorkerProofs)
LoadProofs              GraphCheck, Walltime and Load proved
TraceProofs             ExecutionTrace proved (EXTENDS ExecutionTrace and library theorems)
```

**CampaignDisk.** One variable per file: `status[t]` and `attempts[t]` are the two
fields of `state/<t>.json`, `attempt[t][n]` is the state in `attempt.json` of attempt
directory `n` ("absent": no directory, "made": directory without the file), `files` the
products that exist, `start` and `startPending` the overwrite policy in
`start.json` and `state/start-pending.json`. `stray` holds the outputs that payloads
whose worker was killed may still produce: a payload is a process of its own and
outlives its worker.

**Worker.** `at[p][t]` is the program counter of process `p`'s call of `run_task` for `t`:

| step | action | code |
|---|---|---|
| choose | `ChooseNumber` | `_next_attempt_number` |
| mkdir | `MakeAttemptDir`, `AttemptDirExists` | `mkdir(exist_ok=False)` |
| inspect | `AcceptLaunch`, `RejectLaunch` | inputs present, outputs absent or overwritable |
| announce, running | `AnnounceAttempt`, `AnnounceState` | `attempt.json` then state file say `running` |
| launch | `Launch`, `LaunchFails` | `_run_command` starts, or raises `OSError` |
| payload | `PayloadExits` | outputs, exit code, missing-output check |
| publish, record | `PublishAttempt`, `RecordState` | terminal `attempt.json`, then the state file |

A caller begins a call with `Enter` and collects "returned" or "raised". `WorkerSpec` is
`run_task` alone, called by any process at any time: what a batch script does.

**StartProtocol.** `starting[p]` is the next step of `p`'s start; each check
and each write of the three functions is one action.

**LocalCampaign.** `ctl[p]` is what command process `p` does next. `IssueStart`,
`IssueResume`, `IssueRetry` are the guards of the commands (a refused command changes
nothing and is not an action); `ReadStates`, `SkipTask`/`BlockTask`/`SubmitTask`,
`EndPass`, `CollectFutures`, `FutureRaises`, `DrainPool`, `CountStates` are the loop of
`_run_local_graph`, scanned one task at a time because the scan reads the state
files one by one while pool threads write them; `PoolRetries` is `_run_with_retries`;
`DeleteOutputs` and `ResetTask` are the two phases of `resume_local`;
`EnterPostflight` … `HookFails` are `run_postflight`; `KillProcess` is SIGKILL anywhere,
`Interrupt` a KeyboardInterrupt in the coordinating thread.

**CampaignLifecycle** is the abstract specification of one variable, `status`. The
local backend implements it (`ImplementsLifecycle`), with the state files as the mapping.

**BatchQueue.** `queue[j]`, `runs[j]`, `after[j]` are what the scheduler knows of job `j`: its state, the
script it runs, its `afterok` dependencies. `SubmitHeld`, `Release`, `CancelWaiting` are the
commands yall-run gives it (external: modelled from how the code uses them). A job is a process of
`Worker`: `DispatchTask` enters `run_task`, `RetryTask`, `TaskFails`, `TaskSucceeds` are the loop of
`retry_shell`, whose exit code is what `afterok` sees. `DispatchPostflight` to
`PostflightFails` are the generated postflight runner, which checks no task state.

**BatchSubmit.** `ctl[p]` is what submitter `p` does next; `submit_slurm` and `submit_pbs` are the
same steps. `SubmitTask` submits the graph in the order the passes over `task_order` visit it,
`SubmitPostflight` comes after the leaves, `RecordHeld` writes `submit.json`, `Begin` is `begin_campaign`
in its steps, `ReleaseJobs` and `Report` end the start. `SubmissionFails` leads to `CancelSubmitted`,
`Withdraw`, `RecordFailure`; a refused begin to `CancelSubmitted`, `Abandon`. `KillSubmitter` is also the
keyboard interrupt and a release command that cannot be executed: the code catches neither.

**ResumeRound, Recovery.** `rctl[p]` is what resume `p` does next, in the order of `resume_campaign`:
"snapshot", "plan", "confirm" (no live job) or "recheck", "cancel", "after", "replan" (waiting jobs and
`--cancel-pending`), "reconcile", "submit", "acknowledge", "release", "unlock". `TakeLock` is `lock.mkdir()`; `KillResume` leaves the
lock, `RemoveStaleLock` is the operator who removes it. `Effective` is `_effective`: a live job, then a terminal `attempt.json`, then
the state file. `PlanAccepted` and `MakePlan` are `_plan`; the plan and the state files it was made from are kept (`plan`,
`seen`), since reconciliation writes from them later. `SubmitReplacement` writes `in_flight` and calls the scheduler, which accepts, refuses,
or does not answer; `Acknowledge` puts the job id on record. Between any two of these steps the jobs of `BatchSubmit` go on.

**QueuedCampaign** is the abstract specification of a queued campaign: of each task, the set of live jobs,
and the set of tasks with a completed attempt. A task gets a job only while it has none and has not completed, and completion
is never taken back. Submission and recovery on Slurm and PBS implement it together (`ImplementsQueuedCampaign`).

**CondorNode, CondorCampaign.** A DAG `d` is a process of `Worker`, with one call per node. `node[d][t]` is
DAGMan's state of the node, `startups` and `left` its two budgets, `marker` the startup markers that exist. `StartJob` is the head of the node
script (remove the marker, run the worker), `LauncherFails` its exit when the marker cannot be removed, `StartPayload` the touch of the marker by the worker or by the wrapped command's shell,
`ExitCode` and `EndJob` its end and what `max_retries`/`retry_until` and `RETRY ... UNLESS-EXIT` make of it. `EndDag` runs the barrier's POST script and
writes a rescue file; `RemoveDag` may leave none. `CondorCampaign` is `submit_rendered` (`IssueStart`, `Prepare`, `SubmitDag`, `RecordDag`,
`Begin`) and the resumes: `Look`, `PlanRound` with `RescueAgrees`, `ReconcileStates`, `SubmitRescue`, `Acknowledge`.
`began`, `tried` and `trouble` are history variables: whether the payload of a job began (or was refused by the checks), how
many did, and whether a marker could not be written.

**Amendment.** `changes[n]` is `amendment.json` of number `n` (empty while the directory has none), `amending[q]` the next
step of amend command `q`, `compared` the tasks whose chain and state it has read, `draft` and `chosen` its changes and its number. `Compare` reads one task,
`EndComparison` follows when none is left. `ChainOK` and `EffectiveCommand` are the walk over the chain
that `amend` and the worker both do. `Resolve` and `WriteProvenance` are the worker's reading of its definition and its record; the other steps
are those of `Worker`. `overlapped` is a history variable: whether an amend read the chain while another had read it and had not ended.

**GraphCheck, Load, Walltime.** `GraphCheck` is `_validate_graph` with its recursion as a `path` and the parents left to visit as `todo`. `Load`
is `load_yall_spec`: `ResolveByItself`, `ResolveFromParents` fill `family`, the refusals are `BadTemplate`, `BadSuppliers`,
`PatternCycle`, `BadInstance`, `BadTime`; `Instantiate` makes the tasks and hands them to `GraphCheck`. A text with placeholders is a plain
part and the sequence of its fields, a binding a function from fields to values. `Walltime` has a literal as its parts.

**ExecutionTrace.** `log[g]` is the event log of submission `g`, `cut[g]` what a reader no longer sees of it; `Submit` to `ReleaseHeld` are HTCondor,
`RecordAttempt` the worker's job ad (unreadable or behind), `Outgrow`, `Garble`, `Rotate` and `Forget` the loss of evidence. The reader
is the operators `Retained` to `Orphans`, evaluated in every state.

### Abstractions

- A check that reads several files (`_validate_unstarted`, the inputs of a worker,
  `resume_local`'s refusal) reads them in one step; so do `_next_attempt_number`'s read and scan.
- Rewriting a state file to `blocked` or `pending` reads and replaces it in one step.
- `DeleteOutputs` deletes all listed files and rewrites `start.json` in one step; the list itself is
  computed at `IssueResume`, before the confirmation prompt.
- The outputs of a payload appear when it exits; those of an orphaned payload one at a time.
- `begin_campaign`'s `exists()`/`unlink()` pair is one step.
- One postflight command. Time stamps, logs, provenance, the legacy `tasks/`
  layout, symbolic links and `resumes/resume_NNN.json` are left out.
- The scheduler: a command is one step that works on all, some or none of the jobs it names; an
  `sbatch` or `qsub` reported as failed may have been accepted; `scancel` and `qdel` reach only jobs that
  have not begun (in a submission no other has); the scheduler does not requeue a job it evicted. The
  scripts are frozen at creation and always found. No task is named `postflight` (`QueueAssumption`:
  `job_ids["postflight"]` would hide its id, slurm_backend.py:218).
- Recovery: a query, a plan and a cancellation are a step each; the answer of a query is exact for the
  jobs on record at that moment, or the query fails. `scancel --state=PENDING` spares running jobs, `qdel` does not.
  The confirmation prompt, `--dry-run`, the check of the source Yallfile and the submit host are left out, as are the
  postflight jobs, which a round does not contain.
- Condor: jobs are not held; a removed DAG's jobs are killed with it; one job of a node at a time. Launchers that cannot remove the marker count
  among the bounded failures (`MaxKills`). A submission that is accepted may leave no cluster id in the output, and then no latest DAG.
- Amendments: only commands change, and every refusal of another edit is the absence of an action. A task's chain and state are read in one
  step; the tasks are read one by one, in any order. The sha256 of
  parents and Yallfiles, which nothing checks, is left out. The queue an amend asks on queued backends is not in the model.
- Load: templates are resolved in any possible order (the code follows the file and its recursion; the result is the same
  function); `@each` over file patterns is a table of rows; the order of rows, inputs, commands and duplicate outputs of one
  task are left out. Output paths are absolute. `Format` is injective, where `_format` (syntax.py:96-100) substitutes text: that two templates or rows spell the
  same name or path is not modelled beyond the check for duplicates, nor is a parent written as the literal full name of an expanded task.
- Trace: time stamps, hosts and exit codes are left out; which jobs' records carry a DAGMan id is chosen job by job; a job's events keep their order in the log.
- `Interrupt` happens at "scan" and "wait"; a keyboard interrupt elsewhere leaves the files as
  `KillProcess` does.

## 3. Runs

| run | instance | shows |
|---|---|---|
| `worker` | 3 processes, 1 task, input and output file, 3 attempt numbers | under any interleaving and kills: `AttemptOwned`, `AttemptsContiguous`, `StateBackedByAttempt`, `CallConsistent`, `TerminalAttemptsKept` |
| `local` | 1 process, tasks a, b -> c -> d with d declared first, 2 jobs, one retry, outputs, 3 commands, 1 kill | completed outputs kept, no stall, success means complete, refinement of `CampaignLifecycle` (dependency order, completed work kept, no lost states) |
| `local_race` | 2 processes, a -> b, 3 overlapping commands | what survives without a lock: `AttemptedAfterParentAttempts`, `PostflightAfterAttempts` |
| `local_live` | 2 processes, a -> b, 2 overlapping commands, fairness | `CommandsEnd`: every command ends, also when a worker raises |
| `batch` | 1 submitter, b after a with b declared first, postflight, one retry of a, products that may exist, 6 jobs, 2 starts, 1 kill or eviction, fairness | postflight last, a failed submission leaves nothing that runs; `CampaignEnds` |
| `batch_race` | 2 submitters, 1 task and postflight, 2 starts | `StartedBeforeRunning`, `PendingWithdrawn` |
| `recovery` | 1 start, 2 resumes of either backend, a -> b, 4 jobs, 1 kill or eviction | refinement of `QueuedCampaign`, dependency order over all rounds, live jobs on record, nothing submitted over an unconfirmed submission |
| `recovery_overwrite` | 1 start, 1 resume `--overwrite` on Slurm | `OverwriteClears` violated at the submission, with nothing live and no payload left over: see findings |
| `condor` | 1 start, 2 resumes, 3 DAGs, a wrapped task with one retry of each kind and one after it, 1 kill, eviction or failing launcher | early nodes see the policy, budgets charged as documented, one live node per task, rescue keeps completed tasks, postflight last |
| `amend` | 2 amend commands, 2 numbers, 2 tasks, 2 commands, 1 attempt of each | `ChainApplies`, `ProvenanceExplained` |
| `load` | all Yallfiles of three templates with 0-2 fields and all parents and `@each`, all literals at the limits of their forms | accepted graphs sound, rows correlated, parents the matching rows, times kept to the second |
| `trace` | 2 jobs of 2 submissions, 5 and 2 events, 2 losses | `TimelineTrue`, `EveryAttemptShown` |

**Bounds.** `MaxAttempt` bounds attempt numbers, `MaxCommands` the commands of a behaviour,
`MaxKills` kills, interrupts, evictions and failures of launchers, `Overwrite` which `--overwrite` flags are given. Three
processes of `worker` suffice for a winner, a loser of `mkdir` and a late caller; more attempts of
one task only repeat the pattern (and the theorems below cover all values). `local` has a failing and a
succeeding branch joining in a third task, a fourth task declared before what it comes after (so a
pass can block its parent after passing it), an in-pool retry, room for start, resume and resume (or
retry) with one crash between them; six attempts are more than three commands can use.
`local_race` lets two commands overlap and a third follow, on the smallest graph with a
dependency; with `Jobs = 1` and no retries the interleavings remain those of the two
processes. Runs with one process check properties which are *not* claimed for overlapping commands:
the findings show why they cannot be.

`batch` needs two starts for what the first leaves behind (jobs that could not be cancelled, a pending
record, jobs nobody knows); six jobs are one more than two submissions use when one
of them fails. Properties guarded by `~overlap` are claimed for one submitter at a time;
`overlap` is a history variable. `batch_race` exists for the steps that need a second
submitter: a begin refused because the other has begun. It has no kills, which `PendingWithdrawn` excludes.

`recovery` needs two resumes for what the first leaves behind: a lock, a job nobody confirmed, half a round. One start suffices, as
`batch` covers failing starts and resumes need one that began. Three attempts per task let each round run once and one of them retry.
Four jobs are a whole first submission and two more: a round for both tasks, or a round for each.
In `condor` three DAGs are the start and two rescues. In `amend` two tasks are what it takes for a record to appear, or a task to complete, between two comparisons of one amend, and two numbers for a chain
that grows or breaks; a task may run before, between and after them. A third number and a second attempt repeat this (and the theorems cover all).
`trace` gives one job two starts within five events, so that a lost first start is mistaken for none; two losses let truncation meet damage.
`MaxWalltime` of `load` lies just above two days, so that a literal can exceed it.

`trace` checks no deadlock: the jobs are done after their last event. `Rest` and `NumbersExhausted` are explicit stutters for the quiet states where nobody
issues a command or the bound ends the behaviour, so deadlock stays checked everywhere else.

**Fairness** (`FairSpec`): weak fairness of `Coordinate(p)` and of `Thread(p, t)`. The code
justifies it as the operating system schedules live threads and processes, and `wait`
and the pool's shutdown block only on futures; it assumes that payloads and hooks end. No
fairness on commands, kills, interrupts or strays. In `BatchSubmit` some live submitter goes on, and
some job goes on while one can: the scheduler dispatches a released job whose dependencies are
met, and its script ends. A job whose dependency failed waits for ever, and nothing says
otherwise: `CampaignEnds` asks only that all recorded jobs are done or one has failed.

## 4. Findings

- **A queued `resume --overwrite` removes nothing** (`recovery_overwrite`). docs/RESUME.md:44-45 "`resume --overwrite` can remove the
  declared outputs belonging to unfinished tasks and retry them." On the queued backends `_plan` (recovery.py:411) folds the flag into `overwrite` before
  it tests the outputs, so the list of outputs to remove is always empty and line 679 deletes nothing. The run shows a resume that asked the queue
  again, found none of the selected tasks live and comes to their submission with an output of a failed attempt still there. The workers
  then read `start.json`, which still says not to overwrite, and refuse the product. `resume_local` deletes the outputs and rewrites `start.json`. `OverwriteClears`
  is asked at the submission, after the second look at the queue (recovery.py:699-717): before it a job may still be running and write the output, in which case the
  code refuses to go on. It also leaves out tasks that had a job at the first look, and payloads that outlived a killed worker or a job ended by `qdel`: these may
  write later than a deletion.

Further divergences met while modelling; the models contain them, and no property asks for the opposite:

- *A campaign can be started twice.* docs/CAMPAIGNS.md:52 "A campaign can be started only once." Two starts that both pass
  `prepare_campaign_start`'s check of the pending record before either writes it both write `start.json` and run the graph.
- *An interrupted local campaign may be unresumable.* README.md:92 promises resume for interrupted local campaigns; a killed
  coordinator leaves a task recorded as running, which `resume_local` refuses and no local command reconciles.
- *A failed local postflight never runs again.* `resume_local` calls `run_postflight` when `postflight.json` is missing, but `_run_hook`'s
  `mkdir` of `postflight/001` raises `FileExistsError` on the directory the failed run left.
- *An overlapping local resume reruns a completed task.* docs/RESUME.md:3-4 says it does not rerun successful tasks; without a lock, a retry
  that completes the task after the resume read its state is not seen.
- *An evicted Condor job reruns a completed task*, when the eviction comes after the worker recorded its completion: `run_task` does not look.
- *An attempt may be shown at the execution before its own*: the trace takes `NumJobStarts` of the worker's job ad as exact
  (execution_trace.py:470), and status_view.py:223 notes that the ad can be behind.

## 5. Proofs

Assumptions, each named in the module that declares the constant and evaluated by TLC in the runs: `GraphAssumption` (what
`_validate_graph` guarantees: finitely many tasks, one owner per output, no cycle), `MaxAttemptAssumption`, `LocalAssumption`, `CampaignAssumption`,
`QueueAssumption`, `SubmitAssumption`, `ResumeAssumption`, `RecoveryAssumption`, `DagAssumption` (types of constants, and a "no rescue file" that is
not a set of tasks), `AmendAssumption`, `MaxWalltimeAssumption` ("no request" is not a number), `TraceAssumption`. None bounds
the number of processes, tasks, files, jobs, commands, kills or amendments.

Some theorems have the form `Spec /\ []H => []P`. `H` is then what the code relies on and nothing enforces, since no lock
spans these commands (no two commands at work, no two starts overlapping); TLC finds the property
violated on small instances that break `H`, so it cannot be dropped, and the commands, kills and crashes that
respect `H` are in every such behaviour.

**WorkerProofs.** `WorkerInv` is type correctness, `AttemptOwned`, `AttemptsContiguous`,
`StateBackedByAttempt` and `CallConsistent`. Ownership alone is not inductive: that two workers
that chose the same number do not both go on needs that an owner's directory exists
(`CallConsistent`), that numbers have no gap needs what a worker at mkdir knows of the
numbers below its own, which needs that the state file's count names an existing
directory. One lemma per action shows it preserves `WorkerInv` and no terminal record changes
(`KeepsTerminal`); the lemmas do not mention `WorkerNext`, so the composition cites them. Results:
`WorkerInvariant`, `WorkerTypeCorrect`, `AttemptsNeverShared`, `AttemptsNumberedInOrder`,
`StateAlwaysBacked`, `CallsConsistent`, `TerminalRecordsNeverRewritten`.

Also there, because several modules need it: `LeafAmong`, by which a nonempty set of tasks closed under children has a task nobody comes
after (from the finiteness of the graph and the well-foundedness of `<`, without an induction over sets), and
`WorkerKeepsAttempts`, by which a worker never changes another's attempt.

**LocalProofs.** `LocalInv` adds the coordinator's types, that a call in progress is for a task whose
parents each have a completed attempt (`CallsCleared`), and the two ordering properties. A call
begins only over completed state files, or, for a retry, a failed one; `StateBackedByAttempt` turns
the state file into an attempt record, and terminal records are kept, so "has a
completed attempt" is stable although states are not. That is the argument why dependency order
survives overlapping commands. `Good` collects what each action's lemma gives (`WorkerInv'`, `KeepsTerminal`,
`BeginsCleared`), `LocalStep` draws the conclusion once. Results: `LocalInvariant`,
`LocalTypeCorrect`, `LocalAttemptsSound`, `DependencyOrder`, `PostflightLast`.

`Books` is the coordinator's bookkeeping, also without any assumption: it has a future for every call in progress and for no other, and every task is
in exactly one of its sets. With it `RunningTasksHaveWorkers`: unless somebody was killed, a state file that says running has a worker behind it.

The second part is about one command at a time (`Alone`: at most one process is at work on a command, whatever other processes did
before and whoever is killed). `SoloInv` then says that a coordinator's view of the tasks agrees with the state files, and that a pass which did nothing
found an unsettled parent for each task it met (`ViewTrue`); what a start or a resume has established before it reads the states, as that nothing it
is about to delete belongs to a completed task (`Prepared`); the state file a call finds at each of its steps (`CallStage`); that a task runs, or has run, only with its
parents completed (`RunInOrder`); that nothing is recorded as interrupted, which only queued recovery writes (`NoInterrupted`); and that success is reported only with every
task completed (`SuccessTrue`). From it: `OutputsStay`, `SuccessMeansComplete`, `ProgressAlways`
(a stalled scan would leave a pending task; among the pending tasks one has no pending parent, as the graph is acyclic; its parents are completed or failed, and the scan
would have launched or blocked it) and
`LocalImplementsLifecycle`, where each action's lemma shows its step to be one of `CampaignLifecycle` or a stutter. `StatesInOrder` and `CompletedStays` are what an operator reads off the state files: they are ordered like the
graph, and a completed one stays. With two overlapping commands TLC refutes `OutputsStay`, `SuccessMeansComplete`, `ProgressAlways` and the refinement: a resume
with `--overwrite` deletes products that the other command has just completed.

**BatchProofs.** `BatchInv` adds to `WorkerInv` what holds of the queue whoever filled it: a task's job comes after jobs of all its parents, a running
job only after jobs that are done (`JobsOK`), the ids a submitter keeps are those of the jobs it thinks they are (`IdsOK`), only the running
job of a task is in a call for it (`CallsBelong`), and a job that is done has a completed attempt (`DoneCompleted`). A job left behind by
a failed, killed or overlapping submission satisfies all of these, which is why `BatchDependencyOrder` needs no assumption of one submitter.
`NothingRunsUnstarted` needs what a submitter knows of the start records at each of its steps (`StartKnown`). The commands and the jobs'
steps are reduced to three lemmas (`QuietStep`, `CommandStep`, `JobsStep`), one lemma per action supplies their premises.
`PostflightComesLast` is the dependency argument at the end of the graph: the postflight job depends on the leaves only, a set of tasks without a completed
attempt would be closed under children, and so have a leaf (`LeafAmong`). `PendingRecordWithdrawn` and `FailedSubmissionNeverRuns`
follow the start records through submission, cancellation and refusal; the properties themselves exclude kills and overlaps, respectively. `BatchTypeCorrect` is the type invariant.

**RecoveryProofs.** `RecoveryInvariant` extends `BatchInv` to resumes, for any number of them and of overlapping starts. It holds although a plan is made of a
snapshot that ages: what a round stages depends on jobs of the same round or on completed attempts, and these are stable. `RecoveryDependencyOrder` and
`RecoveryPostflightLast` follow as in submission. The rest needs one start at a time,
which the start protocol does not ensure (section 4): as long as no two starts have overlapped, every job that may run is on record,
no two recorded jobs that have not ended are of the same task, and none is waiting for a task already completed (`SoloInvariant`). `LiveJobsOnRecord` is the first of these. `UnconfirmedSubmissionStops` and `QueuedCampaignImplemented` - every step
a step of `QueuedCampaign` or a stutter - are stated under `[]~overlap`. So are what the abstraction says of each task:
`OneLiveJobEach` (two of its jobs are never both queued or running) and `CompletedGetNoJob` (once an attempt completed it, no further job that may run).

**CondorProofs.** `CondorInv` needs no assumption on starts: it ties the payload tries of a node to its two budgets (`RetriesCharged`), a node's place in its DAG to the completed attempts of its parents or to
the DONE lines of the rescue file (`CondorPostflightLast`), and a rescue file to Yall's records. `SoleInv` holds as long as no two starts are under way (`OneStart`): at most one DAG runs, it is
on record or announced by `in_flight`, and what a resume read under its lock stays true until it submits. From it `PolicyBeforeStart`, `NodesOfOneDag`
and `CompletedNotRerun`, stated under `[]OneStart`; two overlapping submitters refute each of them in TLC. The argument uses the durable `in_flight` intent, the pending start record and the check of
a rescue file against the records: without any one of them the proof fails.

**LoadProofs.** `GraphCheck` is proved for graphs of any size, reached by a Yallfile or not. `SearchInv` says that the path is a chain of parents without
repetition, its members are the open tasks, a done task has only done parents, and `rank`, the order in which tasks were done, puts every
parent before its child. From it, `AcceptedGraphOrdered`: an accepted graph has such an order and one owner for every output -
the assumption `GraphAssumption` under which all other modules are checked and proved - and `RefusedCycleReal`: a graph refused by the
search has a cycle, the path from the task it found open.

`WalltimeRoundTrip`: for every valid number of seconds the literal `format_walltime` makes, for Slurm
and for PBS, is well-formed and means that number again. `Division` supplies what the prover needs to know of `\div` and `%`.

`LoadInv` joins the two with the expansion, for any templates and tables. `FamilyOK`: every row of a resolved family binds exactly the template's fields, and a family that inherits is the projection of every
parent it could inherit from - the code compares the candidates and keeps the first. `Instantiated`: tasks and rows of templates correspond one to one, and a task's parents and time are what
its row makes of its template's. From it `AcceptedTasksSound` (a set of tasks that waits only for itself would have a member of least rank; this is `GraphAssumption`, derived from the code that
guarantees it), `RowsInherited`, `LineageOnly` and `TimesKept`. The proof of `LineageOnly` showed that a first version of `ParentsAreMatchingRows` was too strong: a reference whose fields
the task's row all binds names one task by its text, and that may be a task of a template the row disagrees with. The property now excepts tasks named in full, and the `load` run has such references.

**AmendProofs.** No lock separates amend commands; the argument rests on `mkdir`. `RecordsInv`: who is about to write a record made its
directory, nobody else writes there, and what is on record has a directory; hence no step changes a record (`KeepsRecords`).
`ProvenanceTheorem` follows with the strengthening that what a worker has resolved and not yet written is explained, too
(`ExplainedInv`). `ChainTheorem` needs `ChainInv`: without an overlap at most one amend has read the chain of any task, what it drafted for the tasks it compared starts from their
effective commands and its number is above all recorded, so its record extends the chain. `MaxOf` derives the maximum of a bounded
set from the well-foundedness of `<`. `AmendInv` carries `WorkerInv` over to workers that resolve their definition first (`AmendedAttemptsSound`), and gives the types
(`AmendTypeCorrect`): that a chosen number exists needs that each amend under way has one left above the greatest on record (`NumbersLeft`). All
hold for any number of amends, workers and tasks.

**TraceProofs.** `TimelinesTrue`: what the trace labels complete from submission is true, start by start. A truncated log, a damaged one, and one without
the submission are never labeled so, but a log that was rotated and is short may look like a fresh one. `LogInv` says what a retained log still guarantees
of each job: if its submission is there and nothing of the job is damaged, every event from the submission on is there, in order: the starts are numbered
without a gap and each end belongs to the last start before it (`InOrder`), and the last start is the last the job made, with an end after it unless the job runs (`Current`). Events are
appended (`WriteStep`); damage takes the job out of the claim for good (`GarbleStep`); rotation shifts all positions, and whoever keeps the submission keeps everything
after it (`RotateStep`). `ReadTrue` then follows the loop of `_job_executions` through the log. The loop is modelled as a recursive function over positions
rather than as a fold, so that it can be reasoned about without an induction theorem: `ReadingExists` shows that the recursion has
a solution and `WholeRead` that it is right at every position, both from the well-foundedness of `<`, by the least position at which they would fail.
`AttemptsShown`: the places a trace gives an attempt exclude each other and leave none out, for any jobs and lost evidence. It rests on `ShownOnce` (a job
appears under its own generation or nowhere) and on the type of recorded attempts.

**What run_task promises, under every backend.** The worker's guarantees (`AttemptOwned`, `AttemptsContiguous`, `StateBackedByAttempt`, `CallConsistent`, and
`TerminalAttemptsKept`: no step rewrites a terminal attempt record) are theorems of each composition, without any assumption on
overlaps: `LocalAttemptsSound`, `BatchAttemptsSound`, `RecoveredAttemptsSound`, `CondorAttemptsSound`, `AmendedAttemptsSound`. They say more than the worker's own theorems, since the compositions have further writers (coordinators
that reset states, resumes that reconcile them) and further ways to lose a worker. The runs of these backends leave the properties out, as `worker` checks them.

**Model-checked only.** `CommandsEnd` and `CampaignEnds`, as liveness is out of the prover's reach. Every other property of a passing run is also a theorem.

## 6. Not modelled, and what could follow

- `status_view.py`, `export.py`, `cli.py`, `paths.py`, `version.py`, `execution.py`: reports, argument parsing, file copies. They change no shared
  state, or only before a campaign exists.
- The line parser of `syntax.py`, rendering of scripts, queue status (`condor_queue_status` and its siblings): text in, text out. Host and account provenance: recorded, never read back.
- `create_campaign`: publishing `campaign.json` last makes it one step for every other command.
- Possible extensions: the read-modify-write of a state file as two steps; postflight jobs in a recovery round.
