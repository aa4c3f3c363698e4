# Ninko in TLA+

TLA+ models of the parts of Ninko's backend whose correctness depends on the
order in which things happen: workflow runs and the list they share, multi-step
pipelines with confirmations, approvals of tool calls, background agent jobs,
background CLI tasks, the scheduler and the alerts. TLC checks the models on
small instances; TLAPS checks the proofs about them for every value of the
constants. Paths below are relative to `src/backend/` unless they start with
`docs/` or name a file of the repository's root.

## 1. The system

Ninko is one FastAPI process on one asyncio event loop. State that outlives a
coroutine is in Redis (JSON values under `ninko:*` keys, mostly read, changed
and written back as a whole); state that outlives only a request is in Python
objects of the process. Coroutines interleave at `await`s only, tasks may be
cancelled at any of them, Redis calls may fail at any of them, and the process
may die at any of them. That is where the interesting behaviour is.

| component | state | operations | how it meets the others | what is hard | what makes it correct | here |
|---|---|---|---|---|---|---|
| Workflow engine (`core/workflow_engine.py`, `workflow_validation.py`) | step map, BFS queue, visited set of a run; its entry in the run list | `execute`, orphan sweep | started by the run route, the scheduler, the `execute_workflow` tool; nodes call agents and the pipeline engine; emits agent events | concurrent nodes, joins behind branches, cancellation of the gather, Redis failing inside `try` and `finally` | nodes run at most once, only on the taken path, after their predecessors; the record of an ended run is true | `WorkflowEngine`, `WorkflowEngineProofs` |
| Workflow run list and API (`api/routes_workflows.py`) | the list of runs of a workflow, the run index | run, retry a step (`execute_step`), delete, sweep | shared by every engine, retry and route of the workflow | writers with and without the lock, copies of whole lists and step maps | no update is lost, a run stays findable, a step is not retried twice at once | `WorkflowRuns`, `WorkflowRunsProofs` |
| Pipeline engine (`core/pipeline_engine.py`) | the checkpoint | `execute`, `resume`, the confirmation gate, the groups of `depends_on` | called by `run_pipeline` and the confirmation routes; journals pauses | pause and resume across requests, duplicate confirmations, crashes between checkpoint and journal | steps after their dependencies, no unasked destructive step, an answerable pause | `PipelineSteps`, `ExecutionGroups`, `PipelineEngine`, `PipelineEngineProofs` |
| Operation journal and confirmation routes (`core/operation_journal.py`, `api/routes_chat.py`) | transactions, the session's pending key | create, confirm, mark executed, clear | between the user and the pipeline engine | three writes for one pause, one key for all operations of a session | see above | part of `PipelineEngine` |
| Agent tool approvals (`agents/base_agent.py`, `agents/middleware/execution.py`, `core/agent_approval.py`, the clean-up loop of `core/safeguard.py`) | the pending key of a session, the kept graph, two kinds of locks | pause, resume, discard, expire, clean up | runs of agents; confirmations from chat and Telegram; jobs that discard | key and graph expire and are deleted apart; discard, resume, clean-up and new runs race | a button confirms what it was sent for; a live request can be confirmed; a session becomes free | `Approvals`, `ApprovalsProofs` |
| Agent jobs (`core/agent_jobs.py`) | job records, job index, `_running` | start, cancel, run, finalize, shutdown | started by HTTP; runs an agent; discards approvals | cancel before the first step, cancel twice, stale copies of a record, shutdown | the record a client polls changes only in explicable ways, and is closed | `AgentJobs`, `AgentJobsProofs`, `JobRecord` |
| Task registry (`core/task_registry.py`) | records of CLI tasks, `_live` | create, start, run, stop | started and stopped by agent tools; runs a subprocess | stop racing with the start, the end and other stops | a process is watched, a record is closed | `TaskRegistry`, `TaskRegistryProofs` |
| Scheduler (`agents/scheduler_agent.py`) | the task list, `_running_task_ids` | the loop, run now, create, update, toggle, delete | runs agents and workflows | loop, requests and edits at once; timeouts; unexpected exceptions | no parallel run of a task, no lost edit, no starved task | `Scheduler`, `SchedulerProofs` |
| Alerts (`core/alert_state.py`, `agents/alert_tools.py`, `agents/monitor_agent.py`) | alert records, cooldown keys | the monitor's cycle, record, notify, resolve | monitor, tools, security scans, dashboard | reads and writes apart, a cooldown reserved before the notification | one notification per cooldown, one publication per alert, the monitor prevails | `AlertState`, `AlertStateProofs` |
| Agent events and journal (`core/agent_events.py`, `agent_event_journal.py`) | listeners, the stored stream | emit, subscribe, replay | every engine emits | drops and backoff | best effort | not modelled |
| Memory queue, distributed lock (`core/memory_queue.py`, `distributed_lock.py`) | queue, lease | put and drain, acquire and extend | nothing calls them at this commit | – | – | not modelled |
| Orchestrator, agents, tools, safeguard, authentication, memory and knowledge, gateway, modules, HTTP adapters, front end, charts | mostly configuration and external data | routing by a language model, classification, storage, rendering | call the parts above | content, not order | not a question for a model checker | not modelled |

`PROJECT.json` lists the same parts with their files, and every hazard with
the line where it bites and the properties aimed at it.

## 2. Modules and how they correspond to the code

All models use the same picture of an asyncio program. A program counter names
the `await` a coroutine is at; everything between two awaits is one action,
because nothing can interleave there. A cancellation is requested at one point
and delivered at the next await. A failing Redis call and the death of the
process are actions of their own, counted by `MaxFaults` (`MaxEvents` in
`WorkflowRuns`).

### WorkflowEngine

One run of `WorkflowEngine.execute`. `wf` is any workflow
`validate_workflow_definition` accepts (an acyclic graph of listed nodes).
`step`, `queue`, `visited`, `branch` and `final` are the local variables
`step_map`, `queue`, `visited`, the `next_label`s and `final_status`; `batch`
and `task` are the queue a gather was built from and its children; `record` is
the run's entry in Redis and `events` what was emitted.

* `InitialUpdate`, `EmitStarted`, `EnterTraversal`: the code before the `try`.
  A cancellation there skips the `finally` (`aborted`).
* `StartBatch`, `NodeStart`, `NodeRetry`, `NodeSucceed`, `NodeFail`,
  `NodeCancel`, `ChildCancelled`, `GatherDone`: one gather. The queue is
  deduplicated against itself and `visited` when the batch is formed
  (`dropped`).
* `BatchUpdate`, `CheckFailed`, `CheckPassed`, `FailUpdate`, `ReturnFailed`:
  the write after a batch and the return on a failed node.
* `Traverse`, `TraverseDone`, `QueueEmpty`: the edge loop. One `Traverse` is
  one edge of one result; `cursor` is the position in the two loops.
* `Finally`, `FinalUpdate`, `EmitTerminal`: the `finally` block.
* `RequestCancel`, `DeliverCancel`, `StoreError`, `Crash`, `Sweep`: faults, and
  the orphan sweep of a later start.

What a node does (agent call, prompt, condition, security scan) is its outcome:
success with a branch label, an exception, or a `cancelled` result.

### WorkflowRuns

The list of runs of one workflow and the run index, as several runs share them.
`job[c]` is what each run and each retry is doing, with the copies of the list
and of the index it has read; `lock` is the workflow's lock of
`get_run_update_lock`. A run is started by the run route (`RouteRead`,
`RouteAppend`, `RouteReadIndex`, `RouteWriteIndex`: all without the lock), by
the `execute_workflow` tool (`ToolRead`, `ToolAppend`) or by the scheduler or a
sub-workflow; then comes the engine (`ReadIndex`, `WriteIndex`, `EnsureRead`,
`EnsureAppend`, `Work`) with its updates (`UpdateRead`, `UpdateWrite`). What the
run does with its nodes is one `Work` with an outcome the engine can have.
`RetryRead` and `Reset` are `retry_workflow_step`, `LoadRun`, `RetrySucceeds`,
`RetryFails`, `Gather` and `NextBatch` are `execute_step`, which executes a step
twice if it is twice in its queue. `DeleteWorkflow`, `DeleteRuns`, `DeleteWriteIndex`
are the deletion, `Dies` a coroutine whose Redis call fails under the lock, `Restart`
the death of the process with the sweep that follows it. The index is that of the
whole tenant: `Neighbour` are starts and deletions of its other workflows, which read
it and write their copy back (`NeighbourReadIndex`, `NeighbourWriteIndex`); what they
do to their own run lists concerns nobody here.

The history variables name the races the properties except, and no more: `stale`
holds the runs whose entry changed, or went from the list, while the run route held
an older copy of it, `crowded` those another starter, or another workflow's start or
deletion, has read the index without, `shared` those retried while another coroutine
worked on another step.

### PipelineSteps, ExecutionGroups, PipelineEngine

`PipelineSteps` has the step list and the *definition* of its execution groups:
a step is in the group after the last step it depends on; without dependencies
or with a cycle, every step is a group. `ExecutionGroups` is
`_build_execution_groups` as coded, Kahn's algorithm with its lists and
counters, checked against that definition and proved to return it. One action is
one turn of a loop: `Depend` and `NextList` read the `depends_on` lists,
`Root` collects the first `ready` list, `TakeReady`, `Release`, `NextMember` and
`ForEnds` are the `while` and the two `for` loops in it, `NoDependencies` and
`BuildReturn` the returns with their sequential fallbacks; `stage` and `pos` say
which loop the function is in and where. `PipelineEngine` uses the definition.

`Ranking` has the ranks the termination theorems use (`Ranks`, `Lower`); it
models nothing.

`PipelineEngine` has requests as slots. A slot runs `execute()` (`Start`), or
the confirmation path of the routes: `Lookup`, `MarkConfirmed`, `Load`, then
`execute()` again, then `MarkExecuted` and `ClearPending`. `Gate` is the
pre-flight gate, `Proceed` the head of the group loop, `StepEnds`,
`StepRaises`, `GroupDone` a group, `Journal` and `SetPending`
`create_pending`, `ReadCheckpoint` and `WriteCheckpoint` the two calls of
`_checkpoint`. `ckpt`, `tx` and `pending` are the keys in Redis. `Cancel`,
`CheckpointFails`, `JournalFails`, `LoadFails`, `Crash`, `CheckpointExpires`
and `OtherPending` are the faults.

### Approvals

`Runs` are runs of agents with the tool safeguard enabled, `Requests` the calls
of `resume_safeguard_tool` and `discard_pending_safeguard`. `key` is the pending
approval in Redis, `paused` and `aged` are `_paused_sg_agents` and its
timestamps, `graph` is the checkpoint of each run: the number of the batch of
tool calls and the node that comes next. An approval is the pair of a run and a
batch, which is what its id stands for.

* `Begin` is `pre_process`; `Model`, `Tools`, `Hang`, `Decide` drive the graph;
  `Write` and `SetPaused` are the pause; `Finish`, `TimedOut`, `WriteFails` the
  ways out of the loop. Runs and resumes share them (`Drives`).
* `Ask`, `Look`, `TakeGlobal`, `TakeSession`, `Resume`, `Discard`, `Drop`,
  `Erase` are the requests. What a caller may ask depends on where the session
  lives: a chat confirms without an id, a Telegram button carries the id it was
  sent with, a background job is discarded.
* `CleanStart`, `CleanLook`, `CleanTake`, `CleanCheck`, `CleanPop` are the
  clean-up loop; `Expire` and `Age` the two lifetimes.
* `Cancel`, `WriteFails`, `RedisFails`, `CleanFails`, `Restart` are the faults. A
  write that fails with an error the resume does not handle leaves graph and key
  as they are; a look of the clean-up that fails so ends its loop for good
  (`main.py:547-561`), and only a restart brings it back.

Whether a call needs an approval is a free choice of `Decide`, so every
signature-based exception (`_authorized_sg_tool_calls`) is covered by it.
`overlap` and `orphaned` name what the properties except: runs that waited for
the session when it paused, and sessions whose key and graph a fault, or the
clean-up loop acting on an overtaken look, has separated.

### AgentJobs, JobRecord

`AgentJobs` has one task per job and one coroutine per cancel request.
`store` and `index` are the record and the index in Redis, `running` is
`_running`, `local` the copy each task works on, `snapshot` the copy each
cancel request has read. `signalled` are the tasks with an undelivered
`cancel()`. It is delivered by `CatchCancel` in the try block of `_run_job` and
by `CancelledOutside` elsewhere: a task signalled before its first step ends
without entering `_run_job`, and one signalled in `_finalize` leaves it there.
`StoreError`, `BeginError` and `DiscardError` are the Redis calls that fail,
by what the code around them makes of it.

`JobRecord` is the abstract specification: what a client that polls a job may
see. `AgentJobs` implements it with `status` read from the record
(`ImplementsRecord`). That a verdict may still be replaced by `cancelled`, and a
cancelled record go back to `running`, is part of the promise: the cancel
request writes a copy it read before.

### TaskRegistry

One CLI task: `Create` and `Start`, the runner `_run_cli_task` (`ReadTask`,
`SaveRunning`, `Spawn`, `Communicated`, `SaveFinal`, the done callback
`Finalize`), its subprocess (`Exit`), and concurrent calls of `stop_task`
(`StopRead`, `StopDecide`, `StopWaited`, `StopSave`). `live` is the handle in
`_live`, without and with a process. A cancellation at `communicate()` goes
through the `finally` clause (`CancelledInside`), at every other await it ends
the runner (`CancelledOutside`); `SpawnFails` does too, because
`create_subprocess_exec` stands before the `try`. Tasks do not meet, so one is
enough.

### Scheduler

`act[a]` is what the loop, each run started by hand and each edit is doing;
`tasks` is the list in Redis, `lock` is `_tasks_lock`, `running`
`_running_task_ids`. Time counts cron slots. `ReadTasks` and `Scan` are
`_check_and_run`, where `ScanNext(t)` goes on to the next task of the copy that
needs something; `RunNow` and `Begin` are `run_task_now`; `Executed`, `Raises`,
`TakeLock`, `SaveExecution`, `StoreLog`, `Timeout`, `SaveLate`
`_run_task_guarded`, `_execute_task` and `_update_after_execution`;
`EditBegin`, `EditSave`, `EditRefused` the four edits. Two history variables say
which slots were run: `ran` is the slot the loop last began a task in, `cut` the
tasks whose run then broke off with `next_run` naming that slot still (`Raises`,
`StoreFails`, `LateFails`, `Restart`).

### AlertState

`active` are the alerts that have a record, `slot` those whose cooldown runs.
The monitor's cycle is `Wake`, `Probe`, `IsActive`, `Record`, `Publish`,
`ListActive`, `ResolveRead`, `Resolve`, `CycleDone`; a call of the tools, the
scans or the dashboard is `RecordAlert`, `Reserve`, `RecordByCall`,
`NotificationRead`, `NotificationWrite`, `Release`, or `ResolveAlert`, `Remove`.
An alert is active or not; the content of its record decides nothing here. A call
keeps the slot it reserved in `holds` until it answers, and its caller counts as
told to notify (`noticed`) only then; a call that fails before leaves the slot to
`lost`. A call without a ticket gives the slot back and is told to notify all the
same (`loose`). A cooldown ends at any time but while the call that started it still
decides (`CooldownEnds`), because it lasts an hour at least.

## 3. What is checked

The MC modules only define constants: graphs, step lists, sets of requests and
symmetry. The longest runs (`workflow_runs`, `alerts`, `scheduler`) take two to
four minutes with two workers, the others less than two.

| run | bounds | shows |
|---|---|---|
| `workflow_engine` | every DAG over four nodes, its edges listed forwards and backwards, with and without a branching node, without faults; five graphs of up to five nodes with one retry and two faults | `PredecessorsSettled`, `NodeRunsOnce`, `OnTakenPath`, `NoLostJoin`, `FinalRecordTruthful`, `VerdictStable`, `RunEnds` |
| `workflow_runs` | two runs started in any way, two nodes in a chain, a list of two, another workflow, two events: two of retries and the other workflow's writes of the index, or one of these and then a deletion, a restart or a failing call | `ShowsOwnUpdates`, `OneRetryPerStep`, `Findable` |
| `execution_groups` | every list of three steps with up to two dependencies each, in and out of range | `ComputesGroups`, `Returns` |
| `pipeline` | 32 pipelines of three steps, one request at a time, six confirmations, two faults | `AwaitingIsConfirmable`, `NothingRepeated`, `ArmedMeansApproved`, `RequestsEnd` |
| `pipeline_pairs` | pipelines of two steps, two requests at once, three confirmations, one fault | `DependenciesFirst`, `AsksInOrder`, `CompletedMeansAll` |
| `pipeline_twice` | two steps, two requests, two confirmations | *violated*: a confirmation sent twice confirms the next step too |
| `approvals` | one session reached by chat, Telegram or nobody; two runs with two and one batches, two requests, one fault | `Servable`, `ConfirmedStep`, `Replaced`, `SessionFrees` |
| `agent_jobs` | one job, two concurrent cancellers, three cancel requests, two faults, an index of one | `OrphanExplained`, `CaughtCancelRecorded`, `VerdictAnnounced`, `RunningHasTask`, refinement of `JobRecord`, `JobEnds` |
| `agent_jobs_promise` | one job, one cancel request | *violated*: a cancel before the first step leaves the record pending |
| `task_registry` | three concurrent stoppers, four calls of `stop_task`, two faults | `ProcessWatched`, `OpenExplained`, `Settles` |
| `scheduler` | two tasks, one run by hand, one edit, two slots, one fault, the second task may raise the unexpected | `NoParallelRun`, `EditsSurvive`, `OncePerSlot`, `RunningIsExact`, `NoTaskStandsStill` |
| `alerts` | one module that fails in two ways, two callers with two calls, three changes of its health, one fault | `SlotAccounted`, `AnnouncedOnce`, `MonitorConverges` |

Why the bounds are enough. A lost join, a node run twice or a node off its path
needs two edges that meet, a branch above them and one node between: four nodes
hold every such shape, and the five-node graphs add the joins two steps behind a
branch. Two faults are a cancellation and a failure in the clean-up it causes.
In the run list two runs are a writer and the one it overwrites, and a list of two
is full when both are in it; two nodes are a step to retry and one its success leads
to; one other workflow is one copy of the index that is older than a run. A race of
cancel requests is one of two writers with stale copies, and jobs do not meet except
in the index, which only limits what a client can name. In the pipelines three steps
give a step before, at and after a pause, and the four dependency shapes are those
with different groups; a second request needs only two steps to overtake the first.
Approvals race within one session, for the sessions share nothing but the global
lock; two runs are the one that waits and the one that would replace it, two batches
an old button and a newer request. Three stops are one that waits, one that decides
and one that has just read. The scheduler's races are between two actors on one task
or two tasks in one pass; a second slot shows whether a task is run again. Two
alerts of one module are one to resolve while the other stands; three changes of its
health are a failure, another one and the recovery.

Deadlock checking is off where the modelled program ends: a run or job that is
over, a function that has returned, a user who does not confirm again. It is on
for the scheduler and the alerts, whose loops never end.

### Findings

The violated runs are disagreements between the code and what the repository
says about it. They are in `PROJECT.json` under `findings` with the quoted
lines; in short:

1. a job cancelled before its task's first step stays `pending` although the
   client was answered `cancelled` (`core/agent_jobs.py:321`); `shutdown()` does
   the same to a job that has just been launched;
2. `resume()` confirms the step the checkpoint names when it is loaded, not the
   one the user answered for (`core/pipeline_engine.py:974`).

Other disagreements were met while modelling. The models have the behaviour, no
run is about it, and where a property would be false because of it the property
says what it excepts:

* only the direct target of an untaken branch of a workflow is marked skipped,
  so a join behind it is skipped although the taken branch reaches it, in a run
  recorded as succeeded (`DOCS.md:725`);
* after the first confirmation a pipeline pauses before the first open *index*
  while it runs in *group* order, so a step that needs a confirmation can run
  without one (`core/pipeline_engine.py:343`): `AsksInOrder` is about pipelines
  whose groups follow the indices;
* an unexpected exception of one scheduled task starves the tasks after it
  (`agents/scheduler_agent.py:130`): `NoTaskStandsStill` is about tasks that do
  not raise the unexpected, and the instance has them before the one that does;
* `stop_task` refuses a terminal record (`core/task_registry.py:94`), but two
  calls that have passed this test, or one and the runner, write over each
  other: terminal states are not final, and `running` may be written over
  `stopped`;
* the first dangerous call after a resume may be let through by the confirmation
  already used (`agents/base_agent.py:1292`), although
  `docs/agent-execution-runtime.md:130` says that every further call is asked for;
  the pending key is compared and deleted in one Lua script by a discard but not by a
  confirmation (`docs/agent-execution-runtime.md:119`); and a chat that confirms
  twice without an id may confirm a batch it has not seen. `ConfirmedStep` is about
  confirmations that carry an id;
* a call of `record_alert` without a ticket that is granted the cooldown answers
  `should_notify`, on which its caller notifies, and gives the slot back, so that the
  next call is told to notify again (`agents/alert_tools.py:175`); the module's
  skill promises one mail in four hours for just this call
  (`skills/smart-alerts/SKILL.md:297`). `SlotAccounted` names it as its exception;
* the loop runs a task again in the same slot when its run broke off before `next_run`
  was written: on an exception `_execute_task` does not list, a failing call of Redis, a
  restart (`agents/scheduler_agent.py:189`, `:432`), although the comment at `:195`
  has `next_run` advanced so that a run is not repeated. `OncePerSlot` names these;
* deleting a workflow writes the index of the whole tenant back from a copy, so it can
  lose a run that another workflow has just started (`api/routes_workflows.py:338`).
  `Findable` names it;
* the clean-up loop of the safeguard does not survive an error of redis-py
  (`main.py:551`). `SessionFrees` allows a graph that is kept after that, once it is
  so old that the next run of any session drops it.

### Fairness

Weak fairness is on the steps of coroutines, never on the user, the clock, a
canceller's decision to start, or a fault. asyncio schedules every ready coroutine;
what the coroutines wait for ends: agent calls are bounded by `wait_for` (jobs,
scheduler, approvals) or by the timeouts of a step or node, and a Redis call answers
or raises. In `WorkflowEngine` the engine and the children of a gather are fair
separately. In `Scheduler` the loop's acquisition of `_tasks_lock` is strongly fair
because `asyncio.Lock` wakes its waiters in order. In `Approvals` each worker takes
a lock once, so weak fairness is enough; keys expire, entries age, and the clean-up
loop runs until a failing look ends it. In `TaskRegistry` neither the process nor
the user owes anything: `Settles` starts when the process has exited. In
`AlertState` only the monitor is fair. Nothing fair is assumed of `Sweep`, which
runs once per start and passes over young entries.

## 4. What is proved

Eight modules hold the proofs. Each shows an inductive invariant with one lemma
per action or group of actions; the assumptions are the named ASSUMEs of the
module it is about, which TLC evaluates in every run: bounds are naturals, names
of actors are distinct, and where it matters the inputs are ones the program
accepts (workflows the validation lets through, step lists `run_pipeline` makes).
The numbers of actors, tasks, jobs, steps, faults are arbitrary. Two theorem
groups state a further hypothesis where they need one: `OneRequest` for three
properties of the pipeline engine, and finitely many modules for the monitor's
cycle.

Six modules (`WorkflowEngine`, `AgentJobs`, `ExecutionGroups`, `PipelineEngine`,
`TaskRegistry`, `AlertState`) have a theorem that says that what is begun gets less: each step
lowers a rank, a natural number or a tuple of naturals compared at the first
difference (`Ranking`). `RanksWellFounded` shows that no rank gets lower for ever.
This is the half of the liveness properties that an error in the code could break
(a loop that does not advance, a queue that is refilled, a retry that is not
counted); the other half, that a coroutine which can move does move, is the
fairness of section 3 and stays with TLC. Where the rank is about one actor among
several the theorem also says that no step of another one raises it.

### WorkflowEngineProofs

`WorkflowEngineProofs` proves, for every set of valid workflows over any nodes
and labels, and for any number of retries and faults:

* `TypeCorrect`: `Spec => []TypeOK`;
* `RunsOnce`: `Spec => []NodeRunsOnce`;
* `OnlyOnPath`: `Spec => []OnTakenPath`;
* `PredecessorsFirst`: `Spec => []PredecessorsSettled`;
* `RecordTruthful`: `Spec => []FinalRecordTruthful`;
* `VerdictKept`: `Spec => VerdictStable`;
* `NoJoinLost`: `Spec => []NoLostJoin`;
* `RunShrinks`: every step lowers `WorkLeft`;
* `RunReady`: a run that has not ended has the guard of a step that holds.

The first seven are all safety properties the run checks. The assumptions are
those of the module: the workflows are valid, the empty label is no branch label,
the bounds are naturals. Acyclicity is among them, but no proof needs it: a cycle
would meet `visited`.

None of `RunsOnce`, `OnlyOnPath` and `PredecessorsFirst` is inductive. Seen alone, `NodeRunsOnce` does not
exclude a batch with a task for a node that is already visited, or two tasks for
one node. The invariant `IInv` says where the state of the run is kept twice and
how the copies agree:

* `RunsCounted`: a node was started exactly if it is in `visited`;
* `TaskSteps`, `TasksDistinct`, `OnlyVisitedRan`: a task that has not begun is for an
  unvisited node, one that has begun for a running one, and there is one live task
  per node;
* `ToRunOnPath`: what is queued or about to begin is a start node or has a
  succeeded predecessor that took the edge;
* `GatherOver`, `ChildrenCancelled`: no task is live outside a gather, and a child
  is cancelled only with the whole run;
* `VisitedSucceeded`: between two batches every visited node has succeeded. This
  is what keeps a path, once taken, taken: `OnPathKept` needs that no succeeded
  node changes.

`IInvInit` and `IInvNext` show that `IInv` is inductive, one lemma per phase
(`QuietStep`, `BatchStep`, `NodeStartStep`, `NodeEndStep`, `TaskOnlyStep`,
`TraverseStep`, `FinallyStep`); types are proved first (`TypeNext`), because
every later step needs to know that the queue and the batch are sequences of nodes.

The last three theorems rest on two more invariants on top of `IInv`.
`VerdictInv` follows the verdict from where it is made to the record:
`EndedTasks` (a task that raised has left its step failed), `StepsOver` (what the
steps can be once the traversal is over), `RecordFollows` (at each place after it,
which of `running`, the verdict and a later cancellation the record shows).
`JoinInv` says where a node is that all its predecessors lead to: visited, queued,
about to be started, or ahead of the cursor of the edge loop (`Ahead`). An edge
passed over because another predecessor was still open is met again from that
predecessor, which is in the same batch behind the cursor or in a later one; so no
induction over the graph is needed.

`WorkLeft` is `<<Troubles, Stage, Unvisited, Round, Width, Depth>>`: the faults
and the cancellation that may still come; whether the run is before its
traversal, in it or after; the nodes not yet visited; the part of the present
round; then what is left of it: tasks that have not ended and attempts not made
while a gather runs, entries of the queue and edges of a result while the edges
are followed. Nodes of the queue that were visited already are dropped from the
batch; `GatherStarts` is the invariant that a gather has a task that is not, so each
round visits a node, or is cut short by a cancellation.

`RunReady` is about the guards of `Next`: a batch with a bad result has a first
one (`FirstBadExists`), a gather waits for a task that is not over, and the start
nodes of every workflow can be put in a queue (`StartQueueExists`, which counts, for
each of them, those up to it). That `Ready` is what `ENABLED` says was
compared with TLC on an instance, everywhere but where TLC cannot list the
start queues.

### WorkflowRunsProofs

For any runs, retries, steps, edges and list lengths:

* `OwnUpdatesShown`: `Spec => []ShowsOwnUpdates`;
* `RetriesExclusive`: `Spec => []OneRetryPerStep`;
* `RunsFindable`: `Spec => []Findable`.

`IInv` has five parts. `Control`: where each coroutine can be, what it holds there,
and that who is between a locked read and its write is the holder of the lock.
`Shown`: the list, and every copy of it, shows of each run that is not `stale` what
it wrote last. `Copies`: a copy about to be written back misses nothing its writer
needs, which is what makes an update that finds no entry harmless. `Found`: a run
past the index is in it and in every copy a starter, or another workflow, is about
to write back, unless it is `crowded`. `OneRetry`: a retry at work is alone with its
run (`Alone`), unless the run is in `shared` or `stale`.

A step of a coroutine `c` from `job[c]` to `m` is first described by `Moves`,
`ListStep` and `IndexStep`, which say in six cases what it may do to the list and in
two what to the index (`Steps`, with a lemma per group of actions); each part of the
invariant is then shown to survive those cases instead of twenty-three actions.
The deletion, the other workflows (`NeighbourKeeps`) and the restart, which are no
coroutine's step or change more than one's share, are separate.

### AgentJobsProofs

For every set of jobs and cancel requests, every index size and any number of
cancel requests and faults:

* `TypeCorrect`: `Spec => []TypeOK`;
* `TasksCancellable`: `Spec => []RunningHasTask`;
* `OrphansExplained`: `Spec => []OrphanExplained`;
* `CaughtCancelsRecorded`: `Spec => []CaughtCancelRecorded`;
* `VerdictsAnnounced`: `Spec => []VerdictAnnounced`;
* `RecordImplemented`: `Spec => ImplementsRecord`;
* `JobsShrink`: each step of a job lowers `Ahead(j)`, each step of a cancel request
  its `CancelPlace`, and no other step raises them.

The only assumptions are that the bounds are naturals and the index holds at
least one job. The properties speak about a job that is over; what makes them
true is how far the record has come while it is not, and that is what `IInv`
adds:

* `RecordStage`: which status the record may have at each await of the job. A
  cancel request may have written `cancelled` over any of them;
* `LocalStage`: what the task is about to write: `running`, or a terminal entry,
  and a success only over a record that had left `pending`;
* `CancelStage`: a cancel request is about a job that exists, and past its
  decision it writes nothing but a cancelled entry;
* `SignalsTouched`: an undelivered `cancel()` is remembered in `touched`, so
  that a task ended by one is explained;
* `CaughtStage`: between the except branch and the end, the cancellation is in
  the task's own copy until it is written, and in the record from then on;
* `AnnouncedStage`: a terminal record is announced, or its writer, the task or a
  cancel request, stands before its emit with the same entry.

`EmitAnnounces` is the one lemma about sequences: the event stream of a job only
grows. For the refinement, `StoreWriters` shows that four awaits write the record
(`StartPersist`, `PersistRunning`, `PersistFinal`, `CancelPersist`), and
`RecordNext` maps them to `Accept`, `Begin`, one of the three verdicts and
`Cancel`; every other step is a stutter. That each of these changes starts from
a status `JobRecord` allows is `RecordStage` and, for a success, `LocalStage`.

`Ahead(j)` is twice the place of the job's coroutine plus one while the job is in
`_running`, so the done callback, which moves no coroutine, counts too. An
exception and a cancellation move a job forward in the same order of places, which
is why faults need no part in the rank.

### PipelineEngineProofs

For every set of step lists, any requests, confirmations and faults:

* `GroupsComputed`: `BuildSpec => []ComputesGroups`: what
  `_build_execution_groups` returns are the groups of the definition;
* `TurnsShrink`: each turn of its loops lowers `Turns`;
* `GroupsLayered`: whatever a step list declares, cycles and indices out of range
  included, each step is in exactly one group, after the groups of all the
  steps whose results it is given;
* `TypeCorrect`: `Spec => []TypeOK`;
* `DependenciesRespected`: `Spec => []DependenciesFirst`;
* `CompletedIsComplete`: `Spec => []CompletedMeansAll`;
* `NothingUnasked`: `Spec => []AsksInOrder`;
* `RequestsShrink`: each step of a request lowers its `Rest`, and no other step
  raises it.

For one request at a time (`OneRequest`: there is one slot, used any number of
times), every set of step lists and any confirmations and faults:

* `PauseAnswerable`: `Spec => []AwaitingIsConfirmable`;
* `FailuresPay`: `Spec => []NothingRepeated`;
* `ConfirmedWasAsked`: `Spec => []ArmedMeansApproved`.

`OneRequest` is no weakening: with two overlapping requests all three are false
(a second confirmation arms a step the user has not confirmed, see the findings; two
resumes complete the same step), so they can only be promises to a user
who waits for an answer before the next click.

`GroupsComputed` is the correctness of Kahn's algorithm against a definition that
asks for least and greatest elements. `BuildInv` follows the lists. `Recorded`:
the entries read so far, and only they, are edges in `dependents`.
`EdgesCounted`: `in_degree` of a step is the number of its edges that are not
freed (`Into`), counted as a cardinality, so that an index declared twice
is waited for and released twice. `Grouped`: a placed step has all its
dependencies in earlier groups and one of them, unless it is a root, in the group
just before (`Layer`), which is what makes the group the definition's and not a
later one. `NextGroup` and `Current`: `ready` and `next_ready` list, once each,
the steps with nothing left to wait for. A layering of all the steps is the one the
definition picks (`DepthsUnique`); when the loop ends with steps left over, each of
them waits for another, no layering exists (its step of least depth would have
been ready) and the fallback is what the definition says. `Turns` is the rank: the
loop, the steps not placed, and where in the lists the function is.

`Min` and `Max` come first: least elements exist because `<` is well founded
on the naturals (`MinFacts`, `MaxFacts`). `IInv` says of
each request (`Good`) what the loop of `execute()` keeps: while nothing has failed
the groups before the present one are in `done` and what runs is the rest of
the present one (`Looped`); a step in `done` was completed (`Counted`, of results
and of the checkpoint, because each becomes the other); the step to pause before is
the first open one and in a group still to come (`Asked`). `DependenciesFirst`
follows with `GroupsLayered`. `AsksInOrder` is inductive with `Asked`: a step that
begins in an earlier group than the one paused before has a smaller index, so it
is not open. `GoodKept` is why requests do not disturb each other: transactions
are only added, and steps only completed.

The three theorems about one request rest on `SInv`, on top of `IInv`. It says
how the three keys in Redis and the request fit together at every await, `Pausing`
while a pause is being written, and with that:

* `Once`: a step was completed at most once per fault, and once more if the
  completion is `Known`: in the results of the request, or in the checkpoint it
  will load. A fault is what loses a completion between the two, and pays for the
  next one;
* `Answerable`: as long as nothing failed, the checkpoint, the pending key and the
  transaction are about one step at each point of the pause and of the
  resume, up to the one of the three that is written last;
* `Told`: as long as nothing failed, what an agent was told is confirmed was
  asked for and answered; the step a resume arms is the one its transaction asks.

`Rest` of a request has four parts: whether it is before the loop, in it or after
it; the groups to come, or after the loop whether a cancellation would still be
recorded; the await it is at; the steps that run. Every loop of `execute()` goes
through the groups once, and a resume is a new request.

### ApprovalsProofs

For any sessions, runs, requests, batches and faults:

* `TypeCorrect`: `Spec => []TypeOK`;
* `Confirmed`: `Spec => ConfirmedStep`;
* `ServedWhileKept`: `Spec => []Servable`;
* `NotReplaced`: `Spec => Replaced`.

These are all safety properties the run checks.

`ConfirmedStep` is about one step, a resume; what makes it true is what nobody
did since the button was sent. `Control` says who drives: the holder of the
session's lock (`Locked`), a run of its session (`Driven`), interrupted before
its tools where a batch is decided on (`Interrupted`). `Keys` relates the key
and the kept graph (`Written`, `Kept`). `Approved` is the heart: as long as
an approval is open (its button is unpressed, or the request that carries it has not
resumed) nobody drives its graph and the graph is where it was (`Untouched`), and
a button is pressed once (`Once`).

The last two need a second invariant, `Pairs`, on top of it. The key and the kept
graph are written one after the other, and a fault may part them; `Apart(s)` says
that the session is in such a step or in `orphaned`. At any other time the key of an
approval the user has seen is that of the kept graph (`Served`), a graph that has
aged out has outlived its key (`Outlived`), and the runs that may still drive the
session are those that were waiting when it paused (`Awaited`). `Resumed` and
`Dropping` follow a request from there: a resume drives the kept graph unless it
was dropped meanwhile, and who is about to drop it has deleted the key. Most steps
either leave a session alone (`Same`) or take its key away or leave it apart, which
is what `MovePairs`, `QuietPairs`, `PartPairs` and `TimePairs` are about. For
`Replaced`, `NewKeys` shows that only `Write` makes a key: its run was awaited, or
its resume drives the graph whose key is there.

### SchedulerProofs

For any tasks, runs by hand, edits, slots and faults:

* `TypeCorrect`: `Spec => []TypeOK`;
* `OneRunPerTask`: `Spec => []NoParallelRun`;
* `RunningExact`: `Spec => []RunningIsExact`;
* `NoEditLost`: `Spec => []EditsSurvive`;
* `EachSlotOnce`: `Spec => OncePerSlot`.

Three facts carry them. `Locked`: an actor about to save holds the lock, and
its copy is the list, which is why a save loses no edit. `Exact`: an identifier
is in `_running_task_ids` exactly while one actor runs the task. `Slots`: every
`next_run` in the list, and in what the loop has left of its copy, is `Fresh` (later
than the slot the loop last ran the task in, or that very slot where the run is in `cut`),
but for the task the loop is at, whose `next_run` it has still to write. Where list
and copy differ the list is ahead of the pass, so an old copy repeats no slot
either. `OnlyScanRuns` then shows that a run begins nowhere but in `Scan`.
`Step`, `Continue` and `Ends` are the lemmas about an actor that moves on,
starts the next task of its pass or ends; each kind of actor has its own lemma on
top of them.

### AlertStateProofs

For any modules, alerts, calls and faults:

* `SlotsAccounted`: `Spec => []SlotAccounted`;
* `PublishedOnce`: `Spec => AnnouncedOnce`;
* `TypeCorrect`: `Spec => []TypeOK`;
* `CycleShrinks`: with finitely many modules each step of a cycle of the monitor
  lowers `Cycle`, whatever the calls do in between.

`SlotOwned` is the strengthening of the first: at most one call holds a slot, and
none holds one that a notification (`Kept`) or a failed call accounts for, so a release
takes away only what the call itself has reserved; `CallShape` says at which
await a call holds what. The theorem does not say that there is one notification
per cooldown: a call without a ticket is the exception it spells out.
For the second, `Untold`: an alert the
monitor has found new or is about to publish has not been published since it
became active.

`Cycle` is a triple: the part of the cycle (asking the modules, recording,
resolving, asleep); the modules not asked yet or the alerts to go through; the
await of the current alert. The monitor goes through a
list it has read, so alerts that others record meanwhile do not make the cycle
longer; that the list is finite (`Finite`) follows from the finitely many records
made so far.

### TaskRegistryProofs

For any number of stops and faults:

* `TypeCorrect`: `Spec => []TypeOK`;
* `ProcessesWatched`: `Spec => []ProcessWatched`;
* `OpenRecordsExplained`: `Spec => []OpenExplained`;
* `RunnerShrinks`: each step of the runner lowers `Ahead`, each step of a
  `stop_task` its `StopPlace`, and no other step raises them.

`Watched` adds that the runner of a running process is at `communicate()` with
its handle in `_live`, which is what sends every stop to the process first;
`Verdict` that a runner that was not cut short carries a terminal status to its
last save. `Ahead` is the place of the runner and, within it, what is left of the
handle in `_live`, which the done callback removes.

## 5. What is only model-checked

* Liveness, which is out of the prover's reach, as is everything about `ENABLED`.
  For `RunEnds`, `JobEnds`, `RequestsEnd`, `Returns` and `MonitorConverges` it is
  proved that the steps lead downhill (`RunShrinks`, `JobsShrink`,
  `RequestsShrink`, `TurnsShrink`, `CycleShrinks`, and `RunnerShrinks` for the
  runner `Settles` is about), and for `RunEnds` that the run can go on
  (`RunReady`); that it does go on is fairness. `MonitorConverges` also says where a
  cycle ends, and `Settles` that the process is gone: that is only checked.
* `NoTaskStandsStill` and `SessionFrees`: the loop of the scheduler does not end,
  and a session becomes free because keys expire and what is kept ages.
* `CancelPromiseKept` and `OneConfirmationOneStep` are false (see the findings).
  With overlapping requests so are `AwaitingIsConfirmable`, `NothingRepeated` and
  `ArmedMeansApproved`; the run has one slot for that reason, and the theorems
  have `OneRequest`.

## 6. What is not modelled

* The content of prompts, results, errors and log lines; classification, routing
  and anything a language model decides. Only the outcome of a step is.
* Several processes. Ninko runs one; Redis keys are shared only between its
  coroutines and its restarts.
* Agent events: delivery is best effort by design (an event that is not
  persisted within 250 ms is dropped, streams are trimmed), and nothing modelled
  reads one back. An emit is an await like any other.
* Memory queue and distributed lock: nothing in the backend calls them at this
  commit.
* Workflow definitions, their versions and the cron trigger kept beside them;
  `_mark_workflow_run_failed`, which runs when a task cannot be created.
* `skip_on_error` of pipelines: both callers leave it off. The retries inside one
  pipeline step and the prompt built from earlier results: one `StepEnds`.
* The pool of session locks of `agents/base_agent.py`: each session has one lock
  here, while the code evicts unlocked ones when it has a thousand.
* Agents of modules registered before the safeguard is set: they run without
  it, and so without approvals.
* Some awaits that stand next to each other and between which nothing another
  coroutine does is seen are one step: the scan and the `mget` of the active
  alerts (`ListActive`), the existence check and the write of a retry (`Reset`), the
  check and the answer of `run_task_now` (`RunNow`). What a coroutine still tries
  to write after its update has failed is left out (`Dies`), as are a `SET` that was
  applied although its call failed (`WorkflowEngine.StoreError`), a child that is cancelled
  without the whole run (`FirstBad`), a failing call in the scheduler's
  `_update_next_run`, in reading the list and in edits, and a failure between saving
  and starting a CLI task.
* Expiry of job records: a record that has expired says nothing to anybody. The
  history key of alerts, which only `get_stats` reads.
* The orchestrator, the safeguard's classification, authentication, knowledge
  and memory, gateway and modules: decisions over data, or adapters to external
  services, in which nothing is ordered that the models above do not order.

## 7. Plan

Done in this order, because of what each adds: the workflow engine, agent jobs,
pipelines and the scheduler; then the approvals, the run list, the task registry and
the alerts; then the proofs of the safety properties the runs check, all of which
are theorems now, and of the ranks. What is left:

* The ranks of what ends in `Approvals` (a request, a run between two pauses), in
  `Scheduler` (a pass over the list) and in `WorkflowRuns` (a retry), and
  `Ready`-like theorems for jobs and requests: that an await which is not
  over always has an answer to come.
* The abstract specification of a pipeline, what a user is promised about
  confirmations, with `PipelineEngine` as its refinement for one request.
* Agent events: a module for the listeners and the stream with its budget and its
  backoff (`core/agent_events.py:202`), once something reads a stream back.
