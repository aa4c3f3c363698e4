--------------------------- MODULE WorkflowEngine ---------------------------
(***************************************************************************)
(* One run of WorkflowEngine.execute (backend/core/workflow_engine.py):    *)
(* the breadth-first traversal of a workflow DAG in batches of concurrent  *)
(* nodes, with the run record it keeps in Redis, the agent events it       *)
(* emits, and the ways a run ends early: a failing or cancelled node, a    *)
(* cancellation of the engine's own task, a failing Redis write, a crash.  *)
(*                                                                         *)
(* pc names the await (or the synchronous block) the coroutine is at.      *)
(* Other coroutines run only while it is at an await, so a cancellation is *)
(* requested and delivered only there.                                     *)
(***************************************************************************)
EXTENDS Naturals, Sequences, FiniteSets

CONSTANTS
  Node,       \* node ids
  Label,      \* branch labels a condition node can return
  NoLabel,    \* an empty edge label, the next_label of every other node
  Workflows,  \* the workflow definitions a run may be started with
  Retries,    \* config.retries of a workflow's nodes, 0..MAX_NODE_RETRIES
  MaxFaults   \* bound: cancel requests, failed writes and crashes of its run

NodeIds(w) == {w.nodes[i] : i \in DOMAIN w.nodes}

Edge == [source : Node, target : Node, label : Label \cup {NoLabel}]

Edges(w) == {w.edges[j] : j \in DOMAIN w.edges}

\* A rank that grows along every edge: what _has_cycle rejects has none.
Acyclic(w) ==
  \E rank \in [NodeIds(w) -> 1..Cardinality(NodeIds(w))] :
    \A e \in Edges(w) : rank[e.source] < rank[e.target]

\* validate_workflow_definition accepts the workflow.
ValidWorkflow(w) ==
  /\ w.nodes \in Seq(Node)
  /\ w.nodes # <<>>
  /\ \A i, j \in DOMAIN w.nodes : w.nodes[i] = w.nodes[j] => i = j
  /\ w.edges \in Seq(Edge)
  /\ \A e \in Edges(w) : {e.source, e.target} \subseteq NodeIds(w)
  /\ w.conditions \subseteq NodeIds(w)
  /\ Acyclic(w)

ASSUME WorkflowsAssumption == \A w \in Workflows : ValidWorkflow(w)
ASSUME LabelAssumption == NoLabel \notin Label
ASSUME BoundsAssumption ==
  Retries \in [Workflows -> Nat] /\ MaxFaults \in [Workflows -> Nat]

StepStatus == {"pending", "running", "succeeded", "failed", "cancelled",
               "skipped", "interrupted"}
RunStatus == {"running", "succeeded", "failed", "cancelled", "interrupted"}

\* The states of one task of the gather; "dropped" is a queue entry that
\* is already visited or a duplicate, for which no task is created.
TaskState == {"dropped", "created", "executing", "returned", "raised",
              "wfcancelled", "cancelled"}
Task == [state : TaskState, attempt : Nat]

\* The awaits before the try block: a cancellation here skips the finally.
Prologue == {"init_update", "emit_started", "started"}
\* The awaits inside the try block.
Body == {"gather", "update", "check", "fail_update", "failed"}
\* The awaits inside the finally block.
Epilogue == {"final_update", "emit_terminal"}
\* Synchronous code between two awaits: nothing can interleave.
Synchronous == {"loop", "traverse", "finally"}
Ended == {"done", "aborted", "crashed"}

VARIABLES
  wf,        \* the workflow definition, fixed for the run
  step,      \* step_map: the status of every node
  queue,     \* the BFS queue
  visited,   \* the visited set
  batch,     \* the queue the current gather was built from
  task,      \* the gather's tasks, one per entry of batch
  branch,    \* the next_label each node returned
  cursor,    \* <<result, edge>> the edge traversal is at
  final,     \* final_status
  pc,        \* where the coroutine is
  cancelled, \* task.cancel() was called and is not yet delivered
  record,    \* the run's entry in ninko:workflow:runs
  events,    \* the agent events emitted for this run
  faults,    \* how many faults have been injected
  runs,      \* history: how often each node was started
  revived    \* history: nodes started after they had been marked skipped

nodeVars == <<step, branch, visited, runs, revived>>
batchVars == <<queue, batch, task, cursor>>
outVars == <<record, events>>
faultVars == <<cancelled, faults>>
vars == <<wf, nodeVars, batchVars, final, pc, outVars, faultVars>>

-----------------------------------------------------------------------------

Incoming(n) == {e \in Edges(wf) : e.target = n}

\* The nodes without an incoming edge, in the order of the definition.
StartPositions == {i \in DOMAIN wf.nodes : Incoming(wf.nodes[i]) = {}}

IsStartQueue(q) ==
  \E at \in [1..Cardinality(StartPositions) -> StartPositions] :
    /\ \A i, j \in DOMAIN at : i < j => at[i] < at[j]
    /\ q = [i \in DOMAIN at |-> wf.nodes[at[i]]]

\* The edge is off the path a node took that returned `label`.
Mismatch(label, edge) ==
  label # NoLabel /\ edge.label # NoLabel /\ edge.label # label

\* Mutant: a predecessor not started yet does not count.
DependenciesCompleteMutant(target, st) ==
  \A e \in Incoming(target) : st[e.source] \notin {"running", "failed"}

DependenciesComplete(target, st) ==
  \A e \in Incoming(target) : st[e.source] \notin {"pending", "running", "failed"}

\* Mutant: a cancelled node is awaited for ever.
FinishedMutant(t) == t.state \notin {"created", "executing", "wfcancelled"}

Finished(t) == t.state \notin {"created", "executing"}

Init ==
  /\ wf \in Workflows
  /\ step = [n \in NodeIds(wf) |-> "pending"]
  /\ queue = <<>> /\ visited = {} /\ batch = <<>> /\ task = <<>>
  /\ branch = [n \in NodeIds(wf) |-> NoLabel]
  /\ cursor = <<1, 1>>
  /\ final = "succeeded"
  /\ pc = "init_update"
  /\ cancelled = FALSE
  /\ record = [status |-> "running", steps |-> <<>>, error |-> FALSE,
               finished |-> FALSE]
  /\ events = <<>>
  /\ faults = 0
  /\ runs = [n \in NodeIds(wf) |-> 0]
  /\ revived = {}

\* Mutant: every write without an error wipes the one recorded before.
UpdateRunMutant(status, steps, error) ==
  record' = [status   |-> status,
             steps    |-> steps,
             error    |-> error,
             finished |-> record.finished \/ status \in {"succeeded", "failed", "interrupted"}]

\* _update_run for the entry of this run: an error is kept for failed and
\* interrupted runs and wiped otherwise unless a new one is given.
UpdateRun(status, steps, error) ==
  record' = [status   |-> status,
             steps    |-> steps,
             error    |-> error \/ (status \in {"failed", "interrupted"} /\ record.error),
             finished |-> record.finished \/ status \in {"succeeded", "failed", "interrupted"}]

-----------------------------------------------------------------------------
(* The prologue: first status write and the STARTED event.                 *)

InitialUpdate ==
  /\ pc = "init_update" /\ ~cancelled
  /\ UpdateRun("running", step, FALSE)
  /\ pc' = "emit_started"
  /\ UNCHANGED <<wf, final, events, nodeVars, batchVars, faultVars>>

EmitStarted ==
  /\ pc = "emit_started" /\ ~cancelled
  /\ events' = Append(events, "started")
  /\ pc' = "started"
  /\ UNCHANGED <<wf, final, record, nodeVars, batchVars, faultVars>>

EnterTraversal ==
  /\ pc = "started" /\ ~cancelled
  /\ IsStartQueue(queue')
  /\ pc' = "loop"
  /\ UNCHANGED <<wf, batch, task, cursor, final, nodeVars, outVars, faultVars>>

-----------------------------------------------------------------------------
(* One batch: a gather over the queued nodes not visited yet.              *)

NewTask(k) ==
  [state   |-> IF queue[k] \notin visited /\ \A j \in 1..(k - 1) : queue[j] # queue[k]
               THEN "created" ELSE "dropped",
   attempt |-> 0]

StartBatch ==
  /\ pc = "loop" /\ queue # <<>>
  /\ batch' = queue
  /\ task' = [k \in 1..Len(queue) |-> NewTask(k)]
  /\ queue' = <<>>
  /\ pc' = IF \E k \in DOMAIN queue : NewTask(k).state = "created"
           THEN "gather" ELSE "loop"
  /\ UNCHANGED <<wf, cursor, final, nodeVars, outVars, faultVars>>

\* Mutant: a started node is not entered in visited.
NodeStartMutant(k) ==
  /\ pc = "gather" /\ ~cancelled
  /\ task[k].state = "created"
  /\ step' = [step EXCEPT ![batch[k]] = "running"]
  /\ task' = [task EXCEPT ![k].state = "executing", ![k].attempt = 1]
  /\ runs' = [runs EXCEPT ![batch[k]] = @ + 1]
  /\ UNCHANGED <<wf, queue, visited, batch, branch, cursor, final, pc, revived, outVars, faultVars>>

\* A task's first step: the node is marked visited and running.
NodeStart(k) ==
  LET n == batch[k] IN
  /\ pc = "gather" /\ ~cancelled
  /\ task[k].state = "created"
  /\ visited' = visited \cup {n}
  /\ step' = [step EXCEPT ![n] = "running"]
  /\ task' = [task EXCEPT ![k].state = "executing", ![k].attempt = 1]
  /\ runs' = [runs EXCEPT ![n] = @ + 1]
  /\ revived' = IF step[n] = "skipped" THEN revived \cup {n} ELSE revived
  /\ UNCHANGED <<wf, queue, batch, branch, cursor, final, pc, outVars, faultVars>>

\* An attempt ended in one of _WORKFLOW_EXCEPTIONS and retries are left.
NodeRetry(k) ==
  /\ pc = "gather" /\ ~cancelled
  /\ task[k].state = "executing" /\ task[k].attempt <= Retries[wf]
  /\ task' = [task EXCEPT ![k].attempt = @ + 1]
  /\ UNCHANGED <<wf, queue, batch, cursor, final, pc, nodeVars, outVars, faultVars>>

\* The task of entry k ends, leaving the node's step in `status`.
NodeEnd(k, state, status, label) ==
  /\ pc = "gather"
  /\ task[k].state = "executing"
  /\ step' = [step EXCEPT ![batch[k]] = status]
  /\ task' = [task EXCEPT ![k].state = state]
  /\ branch' = [branch EXCEPT ![batch[k]] = label]
  /\ UNCHANGED <<wf, queue, visited, batch, cursor, final, pc, runs, revived, outVars, faultVars>>

\* Only a condition node returns a label.
NodeSucceed(k) ==
  /\ ~cancelled
  /\ \E label \in IF batch[k] \in wf.conditions THEN Label ELSE {NoLabel} :
       NodeEnd(k, "returned", "succeeded", label)

\* The last attempt failed, or an exception outside _WORKFLOW_EXCEPTIONS.
NodeFail(k) == ~cancelled /\ NodeEnd(k, "raised", "failed", NoLabel)

\* The agent reported finish reason CANCELLED: WorkflowCancelledError, which
\* is never retried.  Also how an agent that absorbs the cancellation ends.
NodeCancel(k) == NodeEnd(k, "wfcancelled", "cancelled", NoLabel)

\* gather.cancel() reaches a child: CancelledError is no Exception, so the
\* step of a started node stays running and one not started stays as it was.
ChildCancelled(k) ==
  /\ pc = "gather" /\ cancelled
  /\ task[k].state \in {"created", "executing"}
  /\ task' = [task EXCEPT ![k].state = "cancelled"]
  /\ UNCHANGED <<wf, queue, batch, cursor, final, pc, nodeVars, outVars, faultVars>>

GatherDone ==
  /\ pc = "gather" /\ ~cancelled
  /\ \A k \in DOMAIN task : Finished(task[k])
  /\ pc' = "update"
  /\ UNCHANGED <<wf, final, nodeVars, batchVars, outVars, faultVars>>

BatchUpdate ==
  /\ pc = "update" /\ ~cancelled
  /\ UpdateRun("running", step, FALSE)
  /\ pc' = "check"
  /\ UNCHANGED <<wf, final, events, nodeVars, batchVars, faultVars>>

-----------------------------------------------------------------------------
(* After the batch: the first bad result decides, else edges are followed. *)

FirstBad(k) ==
  /\ task[k].state \in {"raised", "wfcancelled"}
  /\ \A j \in 1..(k - 1) : task[j].state \notin {"raised", "wfcancelled"}

CheckFailed ==
  /\ pc = "check" /\ ~cancelled
  /\ \E k \in DOMAIN task :
       /\ FirstBad(k)
       /\ final' = IF task[k].state = "wfcancelled" THEN "cancelled" ELSE "failed"
  /\ pc' = "fail_update"
  /\ UNCHANGED <<wf, nodeVars, batchVars, outVars, faultVars>>

CheckPassed ==
  /\ pc = "check" /\ ~cancelled
  /\ \A k \in DOMAIN task : task[k].state \notin {"raised", "wfcancelled"}
  /\ cursor' = <<1, 1>>
  /\ pc' = "traverse"
  /\ UNCHANGED <<wf, queue, batch, task, final, nodeVars, outVars, faultVars>>

FailUpdate ==
  /\ pc = "fail_update" /\ ~cancelled
  /\ UpdateRun(final, step, TRUE)
  /\ pc' = "failed"
  /\ UNCHANGED <<wf, final, events, nodeVars, batchVars, faultVars>>

\* Mutant: no early return, the edges of the other results are followed.
ReturnFailedMutant ==
  /\ pc = "failed" /\ ~cancelled
  /\ cursor' = <<1, 1>>
  /\ pc' = "traverse"
  /\ UNCHANGED <<wf, queue, batch, task, final, nodeVars, outVars, faultVars>>

\* The early return after the failure write.
ReturnFailed ==
  /\ pc = "failed" /\ ~cancelled
  /\ pc' = "finally"
  /\ UNCHANGED <<wf, final, nodeVars, batchVars, outVars, faultVars>>

\* Mutant: the labels of the edges of a condition are ignored.
FollowEdgeMutant(k, edge) ==
  /\ step' = step
  /\ queue' = IF /\ task[k].state = "returned" /\ edge.source = batch[k]
                /\ edge.target \notin visited
                /\ \A j \in DOMAIN queue : queue[j] # edge.target
                /\ DependenciesComplete(edge.target, step)
             THEN Append(queue, edge.target) ELSE queue

\* One edge of wf.edges for one result: the edge is off the result's path
\* and its pending target is skipped, or its target is queued once nothing
\* it depends on is outstanding.
FollowEdge(k, edge) ==
  IF task[k].state = "returned" /\ edge.source = batch[k]
  THEN IF Mismatch(branch[batch[k]], edge)
       THEN /\ step' = IF step[edge.target] = "pending"
                       THEN [step EXCEPT ![edge.target] = "skipped"] ELSE step
            /\ queue' = queue
       ELSE /\ step' = step
            /\ queue' = IF /\ edge.target \notin visited
                           /\ \A j \in DOMAIN queue : queue[j] # edge.target
                           /\ DependenciesComplete(edge.target, step)
                        THEN Append(queue, edge.target) ELSE queue
  ELSE UNCHANGED <<step, queue>>

\* Mutant: only the first edge out of a result is followed.
TraverseMutant ==
  LET k == cursor[1]
      j == cursor[2]
  IN
  /\ pc = "traverse"
  /\ k \in DOMAIN batch
  /\ IF j \in DOMAIN wf.edges
     THEN /\ FollowEdge(k, wf.edges[j])
          /\ cursor' = IF wf.edges[j].source = batch[k] THEN <<k + 1, 1>> ELSE <<k, j + 1>>
     ELSE UNCHANGED <<step, queue>> /\ cursor' = <<k + 1, 1>>
  /\ UNCHANGED <<wf, visited, batch, task, branch, final, pc, runs, revived, outVars, faultVars>>

Traverse ==
  LET k == cursor[1]
      j == cursor[2]
  IN
  /\ pc = "traverse"
  /\ k \in DOMAIN batch
  /\ IF j \in DOMAIN wf.edges
     THEN FollowEdge(k, wf.edges[j]) /\ cursor' = <<k, j + 1>>
     ELSE UNCHANGED <<step, queue>> /\ cursor' = <<k + 1, 1>>
  /\ UNCHANGED <<wf, visited, batch, task, branch, final, pc, runs, revived, outVars, faultVars>>

TraverseDone ==
  /\ pc = "traverse" /\ cursor[1] \notin DOMAIN batch
  /\ pc' = "loop"
  /\ UNCHANGED <<wf, final, nodeVars, batchVars, outVars, faultVars>>

QueueEmpty ==
  /\ pc = "loop" /\ queue = <<>>
  /\ pc' = "finally"
  /\ UNCHANGED <<wf, final, nodeVars, batchVars, outVars, faultVars>>

-----------------------------------------------------------------------------
(* The finally block.                                                      *)

SettledStatus(status) ==
  IF status = "pending" THEN "skipped"
  ELSE IF status = "running" /\ final = "cancelled" THEN "cancelled"
  ELSE status

Finally ==
  /\ pc = "finally"
  /\ step' = [n \in NodeIds(wf) |-> SettledStatus(step[n])]
  /\ pc' = "final_update"
  /\ UNCHANGED <<wf, visited, branch, final, runs, revived, batchVars, outVars, faultVars>>

FinalUpdate ==
  /\ pc = "final_update" /\ ~cancelled
  /\ UpdateRun(final, step, FALSE)
  /\ pc' = "emit_terminal"
  /\ UNCHANGED <<wf, final, events, nodeVars, batchVars, faultVars>>

TerminalEvent ==
  IF final = "succeeded" THEN "completed"
  ELSE IF final = "cancelled" THEN "cancelled" ELSE "failed"

EmitTerminal ==
  /\ pc = "emit_terminal" /\ ~cancelled
  /\ events' = Append(events, TerminalEvent)
  /\ pc' = "done"
  /\ UNCHANGED <<wf, final, record, nodeVars, batchVars, faultVars>>

-----------------------------------------------------------------------------
(* Faults: the task is cancelled, Redis refuses a write, the process dies. *)

RequestCancel ==
  /\ faults < MaxFaults[wf] /\ ~cancelled
  /\ pc \in Prologue \cup Body \cup Epilogue
  /\ cancelled' = TRUE
  /\ faults' = faults + 1
  /\ UNCHANGED <<wf, final, pc, nodeVars, batchVars, outVars>>

\* CancelledError at an await: before the try block nothing cleans up, in
\* the try block the run becomes cancelled, in the finally block the rest
\* of the block is lost.  A gather raises only after all its children ended.
DeliverCancel ==
  /\ cancelled /\ pc \in Prologue \cup Body \cup Epilogue
  /\ pc = "gather" => \A k \in DOMAIN task : Finished(task[k])
  /\ cancelled' = FALSE
  /\ IF pc \in Body
     THEN final' = "cancelled" /\ pc' = "finally"
     ELSE final' = final /\ pc' = "aborted"
  /\ UNCHANGED <<wf, faults, nodeVars, batchVars, outVars>>

\* _update_run raises: caught only inside the try block.
StoreError ==
  /\ faults < MaxFaults[wf] /\ ~cancelled
  /\ pc \in {"init_update", "update", "fail_update", "final_update"}
  /\ faults' = faults + 1
  /\ IF pc \in Body
     THEN final' = "failed" /\ pc' = "finally"
     ELSE final' = final /\ pc' = "aborted"
  /\ UNCHANGED <<wf, cancelled, nodeVars, batchVars, outVars>>

\* The process dies at an await; the coroutine is gone.
Crash ==
  /\ faults < MaxFaults[wf]
  /\ pc \in Prologue \cup Body \cup Epilogue
  /\ faults' = faults + 1
  /\ pc' = "crashed"
  /\ cancelled' = FALSE
  /\ UNCHANGED <<wf, final, nodeVars, batchVars, outVars>>

\* sweep_orphan_workflow_runs of a later start-up.  It is run once per start
\* and passes over entries younger than the cutoff, so it may never get here.
Sweep ==
  /\ pc \in {"crashed", "aborted"} /\ record.status = "running"
  /\ record' = [status   |-> "interrupted",
                steps    |-> [n \in DOMAIN record.steps |->
                                IF record.steps[n] = "running" THEN "interrupted"
                                ELSE record.steps[n]],
                error    |-> TRUE,
                finished |-> TRUE]
  /\ pc' = "crashed"
  /\ UNCHANGED <<wf, final, events, nodeVars, batchVars, faultVars>>

NodeStep(k) ==
  \/ NodeStart(k) \/ NodeRetry(k) \/ NodeSucceed(k) \/ NodeFail(k)
  \/ NodeCancel(k) \/ ChildCancelled(k)

Engine ==
  \/ InitialUpdate \/ EmitStarted \/ EnterTraversal
  \/ StartBatch \/ GatherDone \/ BatchUpdate
  \/ CheckFailed \/ CheckPassed \/ FailUpdate \/ ReturnFailed
  \/ Traverse \/ TraverseDone \/ QueueEmpty
  \/ Finally \/ FinalUpdate \/ EmitTerminal
  \/ DeliverCancel

Next ==
  \/ Engine
  \/ \E k \in DOMAIN batch : NodeStep(k)
  \/ RequestCancel \/ StoreError \/ Crash \/ Sweep

Spec == Init /\ [][Next]_vars

\* The event loop runs every ready coroutine, and a node's attempt ends: the
\* agent behind it is bounded by its own timeouts and Retries is finite.
Fairness ==
  /\ WF_vars(Engine)
  /\ WF_vars(\E k \in DOMAIN batch : NodeStep(k))

FairSpec == Spec /\ Fairness

-----------------------------------------------------------------------------
(* Properties.                                                             *)

NodesTypeOK ==
  /\ wf \in Workflows
  /\ step \in [NodeIds(wf) -> StepStatus \ {"interrupted"}]
  /\ branch \in [NodeIds(wf) -> Label \cup {NoLabel}]
  /\ visited \subseteq NodeIds(wf)
  /\ runs \in [NodeIds(wf) -> Nat]
  /\ revived \subseteq visited

BatchTypeOK ==
  /\ queue \in Seq(NodeIds(wf))
  /\ batch \in Seq(NodeIds(wf))
  /\ task \in [DOMAIN batch -> Task]
  /\ cursor \in (Nat \ {0}) \X (Nat \ {0})

ControlTypeOK ==
  /\ final \in {"succeeded", "failed", "cancelled"}
  /\ pc \in Prologue \cup Body \cup Epilogue \cup Synchronous \cup Ended
  /\ cancelled \in BOOLEAN
  /\ faults \in 0..MaxFaults[wf]

Record == [status : RunStatus, steps : [NodeIds(wf) -> StepStatus] \cup {<<>>},
           error : BOOLEAN, finished : BOOLEAN]

OutTypeOK ==
  /\ record \in Record
  /\ events \in Seq({"started", "completed", "failed", "cancelled"})

TypeOK == NodesTypeOK /\ BatchTypeOK /\ ControlTypeOK /\ OutTypeOK

\* Nodes the traversal has committed to: visited or about to be.
Active == visited \cup {queue[i] : i \in DOMAIN queue}
                  \cup {batch[i] : i \in DOMAIN batch}

\* A node the traversal has committed to waits for nobody: each of its
\* predecessors was settled when it was queued, and one that is running,
\* failed or cancelled since is a skipped node that a second edge revived
\* (_dependencies_complete and the order of the edge loop).
PredecessorsSettled ==
  \A e \in Edges(wf) :
    e.target \in Active /\ pc \notin {"final_update", "emit_terminal"} \cup Ended =>
      /\ step[e.source] # "pending"
      /\ step[e.source] \in {"running", "failed", "cancelled"} => e.source \in revived

\* No node's side effects happen twice in a run, whatever joins, duplicate
\* queue entries and retries of edges the graph has (visited, the dedupe).
NodeRunsOnce == \A n \in NodeIds(wf) : runs[n] <= 1

\* A node is only executed on a path the run took: it is a start node, or a
\* predecessor succeeded and did not branch away from it (the label test of
\* the edge loop, the skipped marks, nodes queued over several edges).
OnTakenPath ==
  \A n \in visited :
    \/ Incoming(n) = {}
    \/ \E e \in Incoming(n) : step[e.source] = "succeeded" /\ ~Mismatch(branch[e.source], e)

\* No join is lost: in a succeeded run a node all of whose predecessors ran
\* and took the edge to it ran too, in whichever batches and in whichever
\* order they came (_dependencies_complete is asked when the edges of a
\* predecessor are followed and never again later).
NoLostJoin ==
  pc = "done" /\ final = "succeeded" =>
    \A n \in NodeIds(wf) :
      (\A e \in Incoming(n) : step[e.source] = "succeeded" /\ ~Mismatch(branch[e.source], e))
      => step[n] = "succeeded"

\* The record of a run that ended by itself tells the truth about its steps:
\* none is left open, success means that nothing failed, and a failure that
\* no storage fault hid carries its error (the final write passes no error).
FinalRecordTruthful ==
  pc = "done" =>
    /\ record.status = final
    /\ record.steps = step
    /\ \A n \in NodeIds(wf) : step[n] \notin {"pending", "running"}
    /\ final = "succeeded" => \A n \in NodeIds(wf) : step[n] \in {"succeeded", "skipped"}
    /\ final = "failed" /\ faults = 0 => record.error

\* A finished run never shows as running again, and only a cancellation
\* during the clean-up may still change the verdict (failed to cancelled).
VerdictStable ==
  [][record.status # "running" =>
       \/ record'.status = record.status
       \/ record.status = "failed" /\ record'.status = "cancelled"]_vars

\* Whatever nodes fail, get cancelled or are retried, the run ends: the
\* gather never waits for a task that is over and the traversal makes
\* progress (while queue).
RunEnds == <>(pc \in Ended)
=============================================================================
