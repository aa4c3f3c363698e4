------------------------ MODULE WorkflowEngineProofs ------------------------
(***************************************************************************)
(* Proofs about WorkflowEngine for every set of valid workflows: types,    *)
(* and that the traversal runs a node at most once, only on the path the   *)
(* run took, and only after its predecessors; that the record of an ended  *)
(* run is true and stays; that a success leaves out no join; that every    *)
(* step brings the run nearer to its end, and that it always has one to    *)
(* take.                                                                   *)
(***************************************************************************)
EXTENDS WorkflowEngine, Ranking, FiniteSetTheorems, TLAPS

Bad == {"raised", "wfcancelled", "cancelled"}

\* The path to n was taken, or n is a start node.
OnPath(n) ==
  \/ Incoming(n) = {}
  \/ \E e \in Incoming(n) : step[e.source] = "succeeded" /\ ~Mismatch(branch[e.source], e)

\* runs counts what visited remembers.
RunsCounted == \A n \in NodeIds(wf) : runs[n] = IF n \in visited THEN 1 ELSE 0

\* The state of a task and the step of its node agree.
TaskSteps ==
  \A k \in DOMAIN task :
    /\ task[k].state = "created" => batch[k] \notin visited
    /\ task[k].state = "executing" => step[batch[k]] = "running"
    /\ task[k].state = "returned" => step[batch[k]] = "succeeded"

\* A gather has one live task per node.
TasksDistinct ==
  \A j, k \in DOMAIN task :
    ~Finished(task[j]) /\ ~Finished(task[k]) /\ batch[j] = batch[k] => j = k

\* Only a visited node has got further than pending or skipped.
OnlyVisitedRan ==
  \A n \in NodeIds(wf) :
    step[n] \in {"running", "succeeded", "failed", "cancelled"} => n \in visited

\* Outside the gather no task is live.
GatherOver == pc \notin {"gather", "crashed"} => \A k \in DOMAIN task : Finished(task[k])

\* A task was cancelled only if the whole run is being cancelled.
ChildrenCancelled ==
  /\ pc = "gather" /\ ~cancelled => \A k \in DOMAIN task : task[k].state # "cancelled"
  /\ pc \in {"update", "check"} => \A k \in DOMAIN task : task[k].state # "cancelled"

\* Between two batches every visited node has succeeded; within a batch the
\* others are nodes of this batch.
VisitedSucceeded ==
  /\ pc \in {"loop", "traverse"} \cup Prologue => \A n \in visited : step[n] = "succeeded"
  /\ pc = "traverse" => \A k \in DOMAIN task : task[k].state \notin Bad
  /\ pc \in {"gather", "update", "check"} =>
       \A n \in visited :
         \/ step[n] = "succeeded"
         \/ \E k \in DOMAIN task :
              batch[k] = n /\ task[k].state \in {"executing"} \cup Bad

\* Nodes still to be run are on the path.
ToRunOnPath ==
  /\ \A i \in DOMAIN queue : OnPath(queue[i])
  /\ \A k \in DOMAIN task : task[k].state = "created" => OnPath(batch[k])

\* What holds wherever the coroutine is, and what depends on pc.
NodeInv ==
  /\ RunsCounted /\ TaskSteps /\ TasksDistinct /\ OnlyVisitedRan
  /\ ToRunOnPath /\ OnTakenPath

PhaseInv == GatherOver /\ ChildrenCancelled /\ VisitedSucceeded /\ PredecessorsSettled

IInv == TypeOK /\ NodeInv /\ PhaseInv

-----------------------------------------------------------------------------
(* What validation guarantees about the nodes and edges of a workflow.     *)

\* A workflow the validation accepts lists each node once and its edges join
\* listed nodes.
LEMMA WorkflowTyped ==
  ASSUME wf \in Workflows
  PROVE  /\ NodeIds(wf) \subseteq Node
         /\ wf.nodes \in Seq(NodeIds(wf))
         /\ wf.edges \in Seq(Edge)
         /\ \A j \in DOMAIN wf.edges :
              /\ wf.edges[j] \in Edge /\ wf.edges[j] \in Edges(wf)
              /\ wf.edges[j].source \in NodeIds(wf)
              /\ wf.edges[j].target \in NodeIds(wf)
<1>1. ValidWorkflow(wf)
  BY WorkflowsAssumption
<1>2. wf.nodes \in Seq(Node) /\ wf.edges \in Seq(Edge)
  BY <1>1 DEF ValidWorkflow
<1>3. NodeIds(wf) \subseteq Node
  BY <1>2 DEF NodeIds
<1>4. wf.nodes \in Seq(NodeIds(wf))
  BY <1>2 DEF NodeIds
<1>5. ASSUME NEW j \in DOMAIN wf.edges
      PROVE  /\ wf.edges[j] \in Edge /\ wf.edges[j] \in Edges(wf)
             /\ wf.edges[j].source \in NodeIds(wf)
             /\ wf.edges[j].target \in NodeIds(wf)
  BY <1>1, <1>2 DEF ValidWorkflow, Edges
<1> QED
  BY <1>2, <1>3, <1>4, <1>5

\* The start queue holds nodes of the workflow, each once.
LEMMA StartQueueTyped ==
  ASSUME wf \in Workflows, NEW q, IsStartQueue(q)
  PROVE  /\ q \in Seq(NodeIds(wf))
         /\ \A i \in DOMAIN q : Incoming(q[i]) = {}
<1>1. DOMAIN wf.nodes = 1..Len(wf.nodes) /\ Len(wf.nodes) \in Nat
  BY WorkflowTyped
<1>2. Cardinality(StartPositions) \in Nat
  <2>1. IsFiniteSet(1..Len(wf.nodes))
    BY <1>1, FS_Interval
  <2>2. StartPositions \subseteq 1..Len(wf.nodes)
    BY <1>1 DEF StartPositions
  <2> QED
    BY <2>1, <2>2, FS_Subset, FS_CardinalityType
<1>3. PICK at \in [1..Cardinality(StartPositions) -> StartPositions] :
        q = [i \in DOMAIN at |-> wf.nodes[at[i]]]
  BY DEF IsStartQueue
<1>4. ASSUME NEW i \in DOMAIN at
      PROVE  wf.nodes[at[i]] \in NodeIds(wf) /\ Incoming(wf.nodes[at[i]]) = {}
  BY <1>3 DEF StartPositions, NodeIds
<1>5. q = [i \in 1..Cardinality(StartPositions) |-> wf.nodes[at[i]]]
  BY <1>3
<1>6. q \in [1..Cardinality(StartPositions) -> NodeIds(wf)]
  BY <1>4, <1>5, <1>3
<1>7. q \in Seq(NodeIds(wf))
  BY <1>2, <1>6
<1> QED
  BY <1>3, <1>4, <1>5, <1>7

-----------------------------------------------------------------------------
(* Type correctness.                                                       *)

\* Writing the run entry keeps its type.
LEMMA UpdateRunTyped ==
  ASSUME TypeOK,
         NEW status \in {"running", "succeeded", "failed", "cancelled"},
         NEW error \in BOOLEAN,
         UpdateRun(status, step, error)
  PROVE  record' \in Record
<1>1. step \in [NodeIds(wf) -> StepStatus]
  BY DEF TypeOK, NodesTypeOK
<1>2. record.error \in BOOLEAN /\ record.finished \in BOOLEAN
  BY DEF TypeOK, OutTypeOK, Record
<1>3. status \in RunStatus
  BY DEF RunStatus
<1> DEFINE wrong == error \/ (status \in {"failed", "interrupted"} /\ record.error)
           over == record.finished \/ status \in {"succeeded", "failed", "interrupted"}
<1>4. wrong \in BOOLEAN /\ over \in BOOLEAN
  BY <1>2
<1>5. record' = [status |-> status, steps |-> step, error |-> wrong, finished |-> over]
  BY DEF UpdateRun
<1> HIDE DEF wrong, over
<1> QED
  BY <1>1, <1>3, <1>4, <1>5 DEF Record

\* The three things following an edge can do.
LEMMA FollowEdgeCases ==
  ASSUME NEW k, NEW edge, FollowEdge(k, edge)
  PROVE  \/ step' = step /\ queue' = queue
         \/ /\ step[edge.target] = "pending"
            /\ step' = [step EXCEPT ![edge.target] = "skipped"]
            /\ queue' = queue
         \/ /\ task[k].state = "returned" /\ edge.source = batch[k]
            /\ ~Mismatch(branch[batch[k]], edge)
            /\ edge.target \notin visited
            /\ DependenciesComplete(edge.target, step)
            /\ step' = step
            /\ queue' = Append(queue, edge.target)
<1>1. CASE ~(task[k].state = "returned" /\ edge.source = batch[k])
  BY <1>1 DEF FollowEdge
<1>2. CASE /\ task[k].state = "returned" /\ edge.source = batch[k]
           /\ Mismatch(branch[batch[k]], edge)
  BY <1>2 DEF FollowEdge
<1>3. CASE /\ task[k].state = "returned" /\ edge.source = batch[k]
           /\ ~Mismatch(branch[batch[k]], edge)
  BY <1>3 DEF FollowEdge
<1> QED
  BY <1>1, <1>2, <1>3

\* A run that has just been requested has its type.
LEMMA TypeInit == Init => TypeOK
<1> SUFFICES ASSUME Init PROVE TypeOK
  OBVIOUS
<1>1. NodesTypeOK
  BY DEF Init, NodesTypeOK, StepStatus
<1>2. BatchTypeOK
  BY DEF Init, BatchTypeOK
<1>3. ControlTypeOK
  <2>1. faults \in 0..MaxFaults[wf]
    BY BoundsAssumption DEF Init
  <2> QED
    BY <2>1 DEF Init, ControlTypeOK, Prologue
<1>4. OutTypeOK
  BY DEF Init, OutTypeOK, Record, RunStatus
<1> QED
  BY <1>1, <1>2, <1>3, <1>4 DEF TypeOK

\* No step of the engine, of a node, of a canceller or of the environment
\* leaves the types.
LEMMA TypeNext == TypeOK /\ [Next]_vars => TypeOK'
<1> SUFFICES ASSUME TypeOK, [Next]_vars PROVE TypeOK'
  OBVIOUS
<1> USE DEF TypeOK, ControlTypeOK, nodeVars, batchVars, outVars, faultVars
<1> USE DEF Prologue, Body, Epilogue, Synchronous, Ended
<1>1. CASE InitialUpdate
  <2>1. record' \in Record
    BY UpdateRunTyped, <1>1 DEF InitialUpdate
  <2> QED
    BY <2>1, <1>1 DEF InitialUpdate, NodesTypeOK, BatchTypeOK, OutTypeOK, Record
<1>2. CASE BatchUpdate
  <2>1. record' \in Record
    BY UpdateRunTyped, <1>2 DEF BatchUpdate
  <2> QED
    BY <2>1, <1>2 DEF BatchUpdate, NodesTypeOK, BatchTypeOK, OutTypeOK, Record
<1>3. CASE FailUpdate
  <2>1. record' \in Record
    BY UpdateRunTyped, <1>3 DEF FailUpdate
  <2> QED
    BY <2>1, <1>3 DEF FailUpdate, NodesTypeOK, BatchTypeOK, OutTypeOK, Record
<1>4. CASE FinalUpdate
  <2>1. record' \in Record
    BY UpdateRunTyped, <1>4 DEF FinalUpdate
  <2> QED
    BY <2>1, <1>4 DEF FinalUpdate, NodesTypeOK, BatchTypeOK, OutTypeOK, Record
<1>5. CASE EmitStarted
  BY <1>5 DEF EmitStarted, NodesTypeOK, BatchTypeOK, OutTypeOK, Record
<1>6. CASE GatherDone
  BY <1>6 DEF GatherDone, NodesTypeOK, BatchTypeOK, OutTypeOK, Record
<1>7. CASE CheckFailed
  BY <1>7 DEF CheckFailed, NodesTypeOK, BatchTypeOK, OutTypeOK, Record
<1>8. CASE CheckPassed
  BY <1>8 DEF CheckPassed, NodesTypeOK, BatchTypeOK, OutTypeOK, Record
<1>9. CASE ReturnFailed
  BY <1>9 DEF ReturnFailed, NodesTypeOK, BatchTypeOK, OutTypeOK, Record
<1>10. CASE TraverseDone
  BY <1>10 DEF TraverseDone, NodesTypeOK, BatchTypeOK, OutTypeOK, Record
<1>11. CASE QueueEmpty
  BY <1>11 DEF QueueEmpty, NodesTypeOK, BatchTypeOK, OutTypeOK, Record
<1>12. CASE EmitTerminal
  BY <1>12 DEF EmitTerminal, NodesTypeOK, BatchTypeOK, OutTypeOK, Record, TerminalEvent
<1>13. CASE RequestCancel
  BY <1>13, BoundsAssumption DEF RequestCancel, NodesTypeOK, BatchTypeOK, OutTypeOK, Record
<1>14. CASE DeliverCancel
  BY <1>14 DEF DeliverCancel, NodesTypeOK, BatchTypeOK, OutTypeOK, Record
<1>15. CASE StoreError
  BY <1>15, BoundsAssumption DEF StoreError, NodesTypeOK, BatchTypeOK, OutTypeOK, Record
<1>16. ASSUME NEW k \in DOMAIN batch, NodeFail(k) PROVE TypeOK'
  BY <1>16 DEF NodeFail, NodeEnd, NodesTypeOK, BatchTypeOK, OutTypeOK, Record, Task, TaskState, StepStatus
<1>17. ASSUME NEW k \in DOMAIN batch, NodeCancel(k) PROVE TypeOK'
  BY <1>17 DEF NodeCancel, NodeEnd, NodesTypeOK, BatchTypeOK, OutTypeOK, Record, Task, TaskState, StepStatus
<1>18. ASSUME NEW k \in DOMAIN batch, ChildCancelled(k) PROVE TypeOK'
  BY <1>18 DEF ChildCancelled, NodesTypeOK, BatchTypeOK, OutTypeOK, Record, Task, TaskState, StepStatus
<1>19. CASE EnterTraversal
  BY <1>19, StartQueueTyped DEF EnterTraversal, NodesTypeOK, BatchTypeOK, OutTypeOK, Record
<1>20. CASE StartBatch
  <2>1. DOMAIN batch' = 1..Len(queue) /\ DOMAIN queue = 1..Len(queue)
    BY <1>20 DEF StartBatch, BatchTypeOK
  <2>2. ASSUME NEW k \in 1..Len(queue) PROVE NewTask(k) \in Task
    BY DEF NewTask, Task, TaskState
  <2>3. task' \in [DOMAIN batch' -> Task]
    BY <1>20, <2>1, <2>2 DEF StartBatch
  <2> QED
    BY <1>20, <2>3 DEF StartBatch, NodesTypeOK, BatchTypeOK, OutTypeOK, Record
<1>21. ASSUME NEW k \in DOMAIN batch, NodeRetry(k) PROVE TypeOK'
  <2>1. [task[k] EXCEPT !.attempt = @ + 1] \in Task
    <3>1. task[k] \in Task
      BY DEF BatchTypeOK
    <3> QED
      BY <3>1 DEF Task
  <2>2. task' \in [DOMAIN batch -> Task]
    BY <1>21, <2>1 DEF NodeRetry, BatchTypeOK
  <2> QED
    BY <1>21, <2>2 DEF NodeRetry, NodesTypeOK, BatchTypeOK, OutTypeOK, Record
<1>22. ASSUME NEW k \in DOMAIN batch, NodeStart(k) PROVE TypeOK'
  <2>1. [task[k] EXCEPT !.state = "executing", !.attempt = 1] \in Task
    BY DEF BatchTypeOK, Task, TaskState
  <2>2. task' \in [DOMAIN batch -> Task]
    BY <1>22, <2>1 DEF NodeStart, BatchTypeOK
  <2>3. batch[k] \in NodeIds(wf)
    BY DEF BatchTypeOK
  <2> HIDE DEF Prologue, Body, Epilogue, Synchronous, Ended
  <2> QED
    BY <1>22, <2>2, <2>3 DEF NodeStart, NodesTypeOK, BatchTypeOK, OutTypeOK, Record, StepStatus
<1>23. CASE Crash
  <2>1. faults' \in 0..MaxFaults[wf]
    BY <1>23, BoundsAssumption DEF Crash, TypeOK, NodesTypeOK, ControlTypeOK
  <2> QED
    BY <1>23, <2>1 DEF Crash, NodesTypeOK, BatchTypeOK, OutTypeOK, Record
<1>24. ASSUME NEW k \in DOMAIN batch, NodeSucceed(k) PROVE TypeOK'
  <2>1. PICK label \in Label \cup {NoLabel} : NodeEnd(k, "returned", "succeeded", label)
    BY <1>24 DEF NodeSucceed
  <2> QED
    BY <2>1 DEF NodeEnd, NodesTypeOK, BatchTypeOK, OutTypeOK, Record, Task, TaskState, StepStatus
<1>25. CASE Traverse
  <2>1. cursor' \in (Nat \ {0}) \X (Nat \ {0})
    BY <1>25 DEF Traverse, BatchTypeOK
  <2>2. ASSUME NEW edge \in Edges(wf), edge.target \in NodeIds(wf), FollowEdge(cursor[1], edge)
        PROVE  /\ step' \in [NodeIds(wf) -> StepStatus \ {"interrupted"}]
               /\ queue' \in Seq(NodeIds(wf))
    <3>1. \/ step' = step /\ queue' = queue
          \/ step' = [step EXCEPT ![edge.target] = "skipped"] /\ queue' = queue
          \/ step' = step /\ queue' = Append(queue, edge.target)
      BY <2>2, FollowEdgeCases
    <3>2. step \in [NodeIds(wf) -> StepStatus \ {"interrupted"}] /\ queue \in Seq(NodeIds(wf))
      BY DEF NodesTypeOK, BatchTypeOK
    <3>3. CASE step' = step /\ queue' = queue
      BY <3>2, <3>3
    <3>4. CASE step' = [step EXCEPT ![edge.target] = "skipped"] /\ queue' = queue
      BY <2>2, <3>2, <3>4 DEF StepStatus
    <3>5. CASE step' = step /\ queue' = Append(queue, edge.target)
      BY <2>2, <3>2, <3>5
    <3> QED
      BY <3>1, <3>3, <3>4, <3>5
  <2>3. /\ step' \in [NodeIds(wf) -> StepStatus \ {"interrupted"}]
        /\ queue' \in Seq(NodeIds(wf))
    <3>1. CASE cursor[2] \in DOMAIN wf.edges
      <4>1. wf.edges[cursor[2]] \in Edges(wf) /\ wf.edges[cursor[2]].target \in NodeIds(wf)
        BY <3>1, WorkflowTyped DEF NodesTypeOK
      <4>2. FollowEdge(cursor[1], wf.edges[cursor[2]])
        BY <1>25, <3>1 DEF Traverse
      <4> QED
        BY <2>2, <4>1, <4>2
    <3>2. CASE cursor[2] \notin DOMAIN wf.edges
      BY <1>25, <3>2 DEF Traverse, NodesTypeOK, BatchTypeOK
    <3> QED
      BY <3>1, <3>2
  <2> QED
    BY <1>25, <2>1, <2>3 DEF Traverse, NodesTypeOK, BatchTypeOK, OutTypeOK, Record
<1>26. CASE Finally
  BY <1>26 DEF Finally, SettledStatus, NodesTypeOK, BatchTypeOK, OutTypeOK, Record, StepStatus
<1>27. CASE Sweep
  <2>1. record' \in Record
    BY <1>27 DEF Sweep, OutTypeOK, Record, StepStatus, RunStatus
  <2>2. UNCHANGED <<wf, final, cancelled, faults>>
    BY <1>27 DEF Sweep
  <2> QED
    BY <1>27, <2>1, <2>2 DEF Sweep, NodesTypeOK, BatchTypeOK, OutTypeOK, Record
<1>28. CASE UNCHANGED vars
  BY <1>28 DEF vars, NodesTypeOK, BatchTypeOK, OutTypeOK, Record
<1> QED
  BY <1>1, <1>2, <1>3, <1>4, <1>5, <1>6, <1>7, <1>8, <1>9, <1>10, <1>11, <1>12, <1>13, <1>14, <1>15, <1>16, <1>17, <1>18, <1>19, <1>20, <1>21, <1>22, <1>23, <1>24, <1>25, <1>26, <1>27, <1>28 DEF Next, Engine, NodeStep

\* Every variable has its type in every reachable state.
THEOREM TypeCorrect == Spec => []TypeOK
BY TypeInit, TypeNext, PTL DEF Spec

-----------------------------------------------------------------------------
(* The traversal.                                                          *)

\* Before the traversal there is nothing to relate: the invariant holds.
LEMMA IInvInit == Init => IInv
<1> SUFFICES ASSUME Init PROVE IInv
  OBVIOUS
<1>1. TypeOK
  BY TypeInit
<1>2. visited = {} /\ DOMAIN queue = {} /\ DOMAIN batch = {} /\ DOMAIN task = {}
  BY DEF Init
<1>3. NodeInv
  BY <1>2 DEF Init, NodeInv, RunsCounted, TaskSteps, TasksDistinct, OnlyVisitedRan,
              ToRunOnPath, OnTakenPath
<1>4. GatherOver /\ ChildrenCancelled /\ VisitedSucceeded
  BY <1>2 DEF Init, GatherOver, ChildrenCancelled, VisitedSucceeded
<1>5. PredecessorsSettled
  BY <1>2 DEF PredecessorsSettled, Active
<1> QED
  BY <1>1, <1>3, <1>4, <1>5 DEF IInv, PhaseInv

\* A path once taken stays taken while no succeeded node changes.
LEMMA OnPathKept ==
  ASSUME wf' = wf, NodesTypeOK,
         \A m \in NodeIds(wf) :
           step[m] = "succeeded" => step'[m] = "succeeded" /\ branch'[m] = branch[m],
         NEW n, OnPath(n)
  PROVE  OnPath(n)'
<1>1. CASE Incoming(n) = {}
  BY <1>1 DEF OnPath, Incoming
<1>2. ASSUME NEW e \in Incoming(n), step[e.source] = "succeeded", ~Mismatch(branch[e.source], e)
      PROVE  OnPath(n)'
  <2>1. e.source \in NodeIds(wf)
    BY WorkflowTyped DEF Incoming, Edges, NodesTypeOK
  <2>2. step'[e.source] = "succeeded" /\ branch'[e.source] = branch[e.source]
    BY <1>2, <2>1
  <2>3. e \in Incoming(n)' /\ ~Mismatch(branch[e.source], e)'
    BY <1>2, <2>2 DEF Incoming, Mismatch
  <2> QED
    BY <2>2, <2>3 DEF OnPath, Mismatch
<1> QED
  BY <1>1, <1>2 DEF OnPath

\* A step that leaves the nodes, the queue and the tasks alone.
LEMMA NodeInvKept ==
  ASSUME NodeInv, NodesTypeOK, UNCHANGED <<wf, nodeVars, queue, batch, task>>
  PROVE  NodeInv'
<1> USE DEF nodeVars
<1>1. RunsCounted' /\ OnlyVisitedRan'
  BY DEF NodeInv, RunsCounted, OnlyVisitedRan, NodeIds
<1>2. TaskSteps' /\ TasksDistinct'
  BY DEF NodeInv, TaskSteps, TasksDistinct, Finished
<1>3. \A n : OnPath(n) => OnPath(n)'
  BY OnPathKept
<1>4. ToRunOnPath'
  BY <1>3 DEF NodeInv, ToRunOnPath
<1>5. OnTakenPath'
  BY DEF NodeInv, OnTakenPath, Incoming, Mismatch
<1> QED
  BY <1>1, <1>2, <1>4, <1>5 DEF NodeInv

\* PredecessorsSettled survives when nothing is committed to and no step changes.
LEMMA SettledKept ==
  ASSUME PredecessorsSettled, UNCHANGED <<wf, nodeVars, queue, batch>>,
         pc' \notin {"final_update", "emit_terminal"} \cup Ended =>
           pc \notin {"final_update", "emit_terminal"} \cup Ended
  PROVE  PredecessorsSettled'
BY DEF PredecessorsSettled, Active, Edges, nodeVars

\* The steps that only move pc, write the record or emit an event.
Quiet ==
  \/ InitialUpdate \/ EmitStarted \/ GatherDone \/ BatchUpdate
  \/ CheckFailed \/ CheckPassed \/ FailUpdate \/ ReturnFailed
  \/ TraverseDone \/ QueueEmpty \/ FinalUpdate \/ EmitTerminal
  \/ RequestCancel \/ DeliverCancel \/ StoreError \/ Crash \/ Sweep
  \/ UNCHANGED vars

\* The steps that change neither the traversal nor a task keep the invariant.
LEMMA QuietStep == IInv /\ Quiet => NodeInv' /\ PhaseInv'
<1> SUFFICES ASSUME IInv, Quiet PROVE NodeInv' /\ PhaseInv'
  OBVIOUS
<1> USE DEF nodeVars, batchVars, outVars, faultVars, vars
<1> DEFINE Moves == InitialUpdate \/ EmitStarted \/ BatchUpdate \/ CheckFailed
                    \/ FailUpdate \/ ReturnFailed \/ TraverseDone \/ QueueEmpty
                    \/ FinalUpdate \/ EmitTerminal
           Faults == RequestCancel \/ DeliverCancel \/ StoreError \/ Crash \/ Sweep
<1>1. UNCHANGED <<wf, nodeVars, queue, batch, task>>
  <2>1. CASE Moves
    BY <2>1 DEF InitialUpdate, EmitStarted, BatchUpdate, CheckFailed, FailUpdate,
                ReturnFailed, TraverseDone, QueueEmpty, FinalUpdate, EmitTerminal
  <2>2. CASE Faults
    BY <2>2 DEF RequestCancel, DeliverCancel, StoreError, Crash, Sweep
  <2>3. CASE GatherDone \/ CheckPassed \/ UNCHANGED vars
    BY <2>3 DEF GatherDone, CheckPassed
  <2> QED
    BY <2>1, <2>2, <2>3 DEF Quiet
<1>2. NodeInv'
  BY <1>1, NodeInvKept DEF IInv, TypeOK
<1>3. PredecessorsSettled'
  <2>1. pc' \notin {"final_update", "emit_terminal"} \cup Ended =>
          pc \notin {"final_update", "emit_terminal"} \cup Ended
    <3>1. CASE Moves
      BY <3>1 DEF InitialUpdate, EmitStarted, BatchUpdate, CheckFailed, FailUpdate,
                  ReturnFailed, TraverseDone, QueueEmpty, FinalUpdate, EmitTerminal, Ended
    <3>2. CASE Faults
      BY <3>2 DEF RequestCancel, DeliverCancel, StoreError, Crash, Sweep, Ended, Body
    <3>3. CASE GatherDone \/ CheckPassed \/ UNCHANGED vars
      BY <3>3 DEF GatherDone, CheckPassed, Ended
    <3> QED
      BY <3>1, <3>2, <3>3 DEF Quiet
  <2> QED
    BY <1>1, <2>1, SettledKept DEF IInv, PhaseInv
<1>4. GatherOver' /\ ChildrenCancelled' /\ VisitedSucceeded'
  <2> USE DEF IInv, PhaseInv, GatherOver, ChildrenCancelled, VisitedSucceeded, Finished
  <2>1. CASE Moves
    BY <1>1, <2>1 DEF InitialUpdate, EmitStarted, BatchUpdate, CheckFailed, FailUpdate,
                ReturnFailed, TraverseDone, QueueEmpty, FinalUpdate, EmitTerminal, Prologue
  <2>2. CASE Faults
    <3>1. CASE RequestCancel
      BY <1>1, <3>1 DEF RequestCancel
    <3>2. CASE DeliverCancel
      <4>1. pc' \in {"finally", "aborted"}
        BY <3>2 DEF DeliverCancel
      <4>2. \A k \in DOMAIN task : Finished(task[k])
        <5>1. pc # "crashed"
          BY <3>2 DEF DeliverCancel, Prologue, Body, Epilogue
        <5> QED
          BY <3>2, <5>1 DEF DeliverCancel
      <4> QED
        BY <1>1, <4>1, <4>2 DEF Prologue
    <3>3. CASE StoreError
      BY <1>1, <3>3 DEF StoreError, Prologue, Body
    <3>4. CASE Crash \/ Sweep
      BY <1>1, <3>4 DEF Crash, Sweep, Prologue
    <3> QED
      BY <2>2, <3>1, <3>2, <3>3, <3>4
  <2>3. CASE GatherDone
    BY <1>1, <2>3 DEF GatherDone, Prologue
  <2>4. CASE CheckPassed
    BY <1>1, <2>4 DEF CheckPassed, Prologue, Bad
  <2>5. CASE UNCHANGED vars
    BY <2>5
  <2> QED
    BY <2>1, <2>2, <2>3, <2>4, <2>5 DEF Quiet
<1> QED
  BY <1>2, <1>3, <1>4 DEF PhaseInv

\* The traversal is entered, or a batch is formed from the queue.
LEMMA BatchStep == IInv /\ (EnterTraversal \/ StartBatch) => NodeInv' /\ PhaseInv'
<1> SUFFICES ASSUME IInv, EnterTraversal \/ StartBatch PROVE NodeInv' /\ PhaseInv'
  OBVIOUS
<1> USE DEF nodeVars, outVars, faultVars, IInv, TypeOK
<1>1. UNCHANGED <<wf, nodeVars>>
  BY DEF EnterTraversal, StartBatch
<1>2. \A n : OnPath(n) => OnPath(n)'
  BY <1>1, OnPathKept
<1>3. RunsCounted' /\ OnlyVisitedRan' /\ OnTakenPath'
  BY <1>1 DEF NodeInv, RunsCounted, OnlyVisitedRan, OnTakenPath, NodeIds, Incoming, Mismatch
<1>4. CASE EnterTraversal
  <2> USE <1>4
  <2>1. \A i \in DOMAIN queue' : Incoming(queue'[i]) = {}
    BY StartQueueTyped DEF EnterTraversal, NodesTypeOK
  <2>2. TaskSteps' /\ TasksDistinct'
    BY DEF EnterTraversal, NodeInv, TaskSteps, TasksDistinct, Finished
  <2>3. ToRunOnPath'
    BY <1>1, <1>2, <2>1 DEF EnterTraversal, NodeInv, ToRunOnPath, OnPath, Incoming
  <2>4. GatherOver' /\ ChildrenCancelled' /\ VisitedSucceeded'
    BY DEF EnterTraversal, PhaseInv, GatherOver, ChildrenCancelled, VisitedSucceeded,
           Finished, Prologue
  <2>5. PredecessorsSettled'
    <3>1. ASSUME NEW e \in Edges(wf), e.target \in Active' PROVE e.target \in Active
      <4>1. \A i \in DOMAIN queue' : queue'[i] # e.target
        BY <2>1 DEF Incoming
      <4> QED
        BY <3>1, <4>1 DEF EnterTraversal, Active
    <3> QED
      BY <1>1, <3>1 DEF EnterTraversal, PhaseInv, PredecessorsSettled, Edges, Ended
  <2> QED
    BY <1>3, <2>2, <2>3, <2>4, <2>5 DEF NodeInv, PhaseInv
<1>5. CASE StartBatch
  <2> USE <1>5
  <2>1. /\ DOMAIN task' = DOMAIN queue /\ DOMAIN batch' = DOMAIN queue
        /\ \A k \in DOMAIN queue : batch'[k] = queue[k] /\ task'[k] = NewTask(k)
        /\ DOMAIN queue' = {}
    BY DEF StartBatch, BatchTypeOK
  <2>2. \A k \in DOMAIN queue : NewTask(k).state \in {"created", "dropped"}
    BY DEF NewTask
  <2>3. \A k \in DOMAIN queue : NewTask(k).state = "created" =>
          queue[k] \notin visited /\ \A j \in 1..(k - 1) : queue[j] # queue[k]
    BY DEF NewTask
  <2>4. TaskSteps'
    BY <1>1, <2>1, <2>2, <2>3 DEF TaskSteps
  <2>5. TasksDistinct'
    <3> SUFFICES ASSUME NEW j \in DOMAIN queue, NEW k \in DOMAIN queue,
                        NewTask(j).state = "created", NewTask(k).state = "created",
                        queue[j] = queue[k]
                 PROVE  j = k
      BY <2>1, <2>2 DEF TasksDistinct, Finished
    <3>1. j \in Nat \ {0} /\ k \in Nat \ {0}
      BY DEF BatchTypeOK
    <3>2. ~(j < k) /\ ~(k < j)
      BY <2>3, <3>1
    <3> QED
      BY <3>1, <3>2
  <2>6. ToRunOnPath'
    BY <1>2, <2>1 DEF NodeInv, ToRunOnPath
  <2>7. pc' \in {"gather", "loop"} /\ pc = "loop"
    BY DEF StartBatch
  <2>8. GatherOver'
    BY <2>1, <2>2, <2>7 DEF StartBatch, GatherOver, Finished
  <2>9. ChildrenCancelled' /\ VisitedSucceeded'
    BY <1>1, <2>1, <2>2, <2>7 DEF PhaseInv, ChildrenCancelled, VisitedSucceeded, Prologue
  <2>10. PredecessorsSettled'
    <3>1. Active' \subseteq Active
      BY <1>1, <2>1 DEF Active
    <3> QED
      BY <1>1, <2>7, <3>1 DEF PhaseInv, PredecessorsSettled, Edges, Ended
  <2> QED
    BY <1>3, <2>4, <2>5, <2>6, <2>8, <2>9, <2>10 DEF NodeInv, PhaseInv
<1> QED
  BY <1>4, <1>5

\* A task's first step.
LEMMA NodeStartStep ==
  ASSUME IInv, NEW k \in DOMAIN batch, NodeStart(k)
  PROVE  NodeInv' /\ PhaseInv'
<1> USE DEF nodeVars, outVars, faultVars, IInv, TypeOK
<1> DEFINE n == batch[k]
<1>1. n \in NodeIds(wf) /\ k \in DOMAIN task /\ DOMAIN task' = DOMAIN task
  <2>1. n \in NodeIds(wf) /\ k \in DOMAIN task
    BY DEF BatchTypeOK
  <2> QED
    BY <2>1 DEF NodeStart
<1>2. task[k].state = "created" /\ n \notin visited /\ OnPath(n)
  BY <1>1 DEF NodeStart, NodeInv, TaskSteps, ToRunOnPath
<1>3. /\ task'[k].state = "executing"
      /\ \A j \in DOMAIN task : j # k => task'[j] = task[j]
  BY <1>1 DEF NodeStart, BatchTypeOK, Task
<1>4. /\ step'[n] = "running"
      /\ \A m \in NodeIds(wf) : m # n => step'[m] = step[m]
  BY <1>1 DEF NodeStart, NodesTypeOK
<1>5. /\ wf' = wf /\ visited' = visited \cup {n} /\ batch' = batch /\ queue' = queue
      /\ branch' = branch /\ pc = "gather" /\ pc' = pc /\ ~cancelled /\ cancelled' = cancelled
  BY DEF NodeStart
<1>6. step[n] \in {"pending", "skipped"}
  BY <1>1, <1>2 DEF NodeInv, OnlyVisitedRan, NodesTypeOK, StepStatus
<1>7. ASSUME NEW j \in DOMAIN task, ~Finished(task[j]), j # k PROVE batch[j] # n
  BY <1>1, <1>2, <1>7 DEF NodeInv, TasksDistinct, Finished
<1>8. \A m : OnPath(m) => OnPath(m)'
  BY <1>4, <1>5, <1>6, OnPathKept
<1> HIDE DEF n
<1>9. RunsCounted'
  <2>1. runs' = [runs EXCEPT ![n] = @ + 1]
    BY DEF NodeStart, n
  <2> QED
    BY <1>1, <1>2, <1>5, <2>1 DEF NodeInv, RunsCounted, NodesTypeOK, NodeIds
<1>10. TaskSteps'
  <2> SUFFICES ASSUME NEW j \in DOMAIN task
               PROVE  /\ task'[j].state = "created" => batch[j] \notin visited'
                      /\ task'[j].state = "executing" => step'[batch[j]] = "running"
                      /\ task'[j].state = "returned" => step'[batch[j]] = "succeeded"
    BY <1>1, <1>5 DEF TaskSteps
  <2>1. batch[j] \in NodeIds(wf)
    BY DEF BatchTypeOK
  <2>2. CASE j = k
    BY <1>3, <1>4, <2>2 DEF n
  <2>3. CASE j # k
    BY <1>3, <1>4, <1>5, <1>6, <1>7, <2>1, <2>3 DEF NodeInv, TaskSteps, Finished
  <2> QED
    BY <2>2, <2>3
<1>11. TasksDistinct'
  BY <1>1, <1>2, <1>3, <1>5 DEF NodeInv, TasksDistinct, Finished
<1>12. OnlyVisitedRan'
  BY <1>4, <1>5 DEF NodeInv, OnlyVisitedRan, NodeIds
<1>13. ToRunOnPath'
  BY <1>1, <1>3, <1>5, <1>8 DEF NodeInv, ToRunOnPath
<1>14. OnTakenPath'
  <2>1. \A m \in visited' : OnPath(m)
    BY <1>2, <1>5 DEF NodeInv, OnTakenPath, OnPath
  <2>2. \A m \in visited' : OnPath(m)'
    BY <1>8, <2>1
  <2> QED
    BY <2>2 DEF OnTakenPath, OnPath
<1>15. GatherOver' /\ ChildrenCancelled'
  BY <1>1, <1>3, <1>5 DEF PhaseInv, GatherOver, ChildrenCancelled
<1>16. VisitedSucceeded'
  <2> SUFFICES ASSUME NEW m \in visited'
               PROVE  \/ step'[m] = "succeeded"
                      \/ \E j \in DOMAIN task :
                           batch[j] = m /\ task'[j].state \in {"executing"} \cup Bad
    BY <1>1, <1>5 DEF VisitedSucceeded, Prologue
  <2>1. CASE m = n
    BY <1>1, <1>3, <2>1 DEF n
  <2>2. CASE m # n
    <3>1. m \in visited /\ m \in NodeIds(wf)
      BY <1>5, <2>2 DEF NodesTypeOK
    <3>2. CASE step[m] = "succeeded"
      BY <1>4, <2>2, <3>1, <3>2
    <3>3. ASSUME NEW j \in DOMAIN task, batch[j] = m, task[j].state \in {"executing"} \cup Bad
          PROVE  task'[j].state \in {"executing"} \cup Bad
      BY <1>3, <2>2, <3>3 DEF n
    <3> QED
      BY <1>5, <3>1, <3>2, <3>3 DEF PhaseInv, VisitedSucceeded
  <2> QED
    BY <2>1, <2>2
<1>17. PredecessorsSettled'
  <2> SUFFICES ASSUME NEW e \in Edges(wf), e.target \in Active
               PROVE  /\ step'[e.source] # "pending"
                      /\ step'[e.source] \in {"running", "failed", "cancelled"} =>
                           e.source \in revived'
    <3>1. Active' = Active
      BY <1>1, <1>5 DEF Active, n, BatchTypeOK
    <3> QED
      BY <1>5, <3>1 DEF PredecessorsSettled, Edges
  <2>1. /\ step[e.source] # "pending"
        /\ step[e.source] \in {"running", "failed", "cancelled"} => e.source \in revived
    BY <1>5 DEF PhaseInv, PredecessorsSettled, Ended
  <2>2. e.source \in NodeIds(wf)
    BY WorkflowTyped DEF Edges, NodesTypeOK
  <2>3. revived' = IF step[n] = "skipped" THEN revived \cup {n} ELSE revived
    BY DEF NodeStart, n
  <2> QED
    BY <1>4, <1>6, <2>1, <2>2, <2>3
<1> QED
  BY <1>9, <1>10, <1>11, <1>12, <1>13, <1>14, <1>15, <1>16, <1>17 DEF NodeInv, PhaseInv

\* A started node ends.
LEMMA NodeEndStep ==
  ASSUME IInv, NEW k \in DOMAIN batch, NEW state, NEW status, NEW label,
         NodeEnd(k, state, status, label),
         \/ state = "returned" /\ status = "succeeded"
         \/ state = "raised" /\ status = "failed"
         \/ state = "wfcancelled" /\ status = "cancelled"
  PROVE  NodeInv' /\ PhaseInv'
<1> USE DEF IInv, TypeOK
<1> DEFINE n == batch[k]
<1>1. n \in NodeIds(wf) /\ k \in DOMAIN task
  BY DEF BatchTypeOK
<1>2. /\ wf' = wf /\ visited' = visited /\ batch' = batch /\ queue' = queue
      /\ runs' = runs /\ revived' = revived
      /\ pc = "gather" /\ pc' = pc /\ cancelled' = cancelled
      /\ task[k].state = "executing" /\ DOMAIN task' = DOMAIN task
  BY DEF NodeEnd, faultVars
<1>3. /\ task'[k].state = state
      /\ \A j \in DOMAIN task : j # k => task'[j] = task[j]
  BY <1>1 DEF NodeEnd, BatchTypeOK, Task
<1>4. /\ step[n] = "running" /\ step'[n] = status
      /\ \A m \in NodeIds(wf) : m # n => step'[m] = step[m] /\ branch'[m] = branch[m]
  BY <1>1, <1>2 DEF NodeEnd, NodesTypeOK, NodeInv, TaskSteps
<1>5. ASSUME NEW j \in DOMAIN task, ~Finished(task[j]), j # k PROVE batch[j] # n
  BY <1>1, <1>2, <1>5 DEF NodeInv, TasksDistinct, Finished
<1>6. \A m : OnPath(m) => OnPath(m)'
  BY <1>2, <1>4, OnPathKept
<1> HIDE DEF n
<1>7. RunsCounted'
  BY <1>2 DEF NodeInv, RunsCounted, NodeIds
<1>8. TaskSteps'
  <2> SUFFICES ASSUME NEW j \in DOMAIN task
               PROVE  /\ task'[j].state = "created" => batch[j] \notin visited
                      /\ task'[j].state = "executing" => step'[batch[j]] = "running"
                      /\ task'[j].state = "returned" => step'[batch[j]] = "succeeded"
    BY <1>2 DEF TaskSteps
  <2>1. batch[j] \in NodeIds(wf)
    BY DEF BatchTypeOK
  <2>2. CASE j = k
    BY <1>3, <1>4, <2>2 DEF n
  <2>3. CASE j # k
    BY <1>3, <1>4, <1>5, <2>1, <2>3 DEF NodeInv, TaskSteps, Finished
  <2> QED
    BY <2>2, <2>3
<1>9. TasksDistinct'
  BY <1>1, <1>2, <1>3 DEF NodeInv, TasksDistinct, Finished
<1>10. OnlyVisitedRan'
  BY <1>1, <1>2, <1>4 DEF NodeInv, OnlyVisitedRan, NodeIds
<1>11. ToRunOnPath'
  BY <1>1, <1>2, <1>3, <1>6 DEF NodeInv, ToRunOnPath
<1>12. OnTakenPath'
  <2>1. \A m \in visited' : OnPath(m)'
    BY <1>2, <1>6 DEF NodeInv, OnTakenPath, OnPath
  <2> QED
    BY <2>1 DEF OnTakenPath, OnPath
<1>13. GatherOver' /\ ChildrenCancelled'
  BY <1>2, <1>3 DEF PhaseInv, GatherOver, ChildrenCancelled
<1>14. VisitedSucceeded'
  <2> SUFFICES ASSUME NEW m \in visited
               PROVE  \/ step'[m] = "succeeded"
                      \/ \E j \in DOMAIN task :
                           batch[j] = m /\ task'[j].state \in {"executing"} \cup Bad
    BY <1>2 DEF VisitedSucceeded, Prologue
  <2>1. CASE m = n
    BY <1>1, <1>3, <1>4, <2>1 DEF n, Bad
  <2>2. CASE m # n
    <3>1. m \in NodeIds(wf)
      BY DEF NodesTypeOK
    <3>2. CASE step[m] = "succeeded"
      BY <1>4, <2>2, <3>1, <3>2
    <3>3. ASSUME NEW j \in DOMAIN task, batch[j] = m, task[j].state \in {"executing"} \cup Bad
          PROVE  task'[j].state \in {"executing"} \cup Bad
      BY <1>3, <2>2, <3>3 DEF n
    <3> QED
      BY <1>2, <3>2, <3>3 DEF PhaseInv, VisitedSucceeded
  <2> QED
    BY <2>1, <2>2
<1>15. PredecessorsSettled'
  <2> SUFFICES ASSUME NEW e \in Edges(wf), e.target \in Active
               PROVE  /\ step'[e.source] # "pending"
                      /\ step'[e.source] \in {"running", "failed", "cancelled"} =>
                           e.source \in revived
    BY <1>2 DEF PredecessorsSettled, Edges, Active
  <2>1. /\ step[e.source] # "pending"
        /\ step[e.source] \in {"running", "failed", "cancelled"} => e.source \in revived
    BY <1>2 DEF PhaseInv, PredecessorsSettled, Ended
  <2>2. e.source \in NodeIds(wf)
    BY WorkflowTyped DEF Edges, NodesTypeOK
  <2> QED
    BY <1>4, <2>1, <2>2
<1> QED
  BY <1>7, <1>8, <1>9, <1>10, <1>11, <1>12, <1>13, <1>14, <1>15 DEF NodeInv, PhaseInv

\* A retry, or a child that the cancellation of the gather ends.
LEMMA TaskOnlyStep ==
  ASSUME IInv, NEW k \in DOMAIN batch, NodeRetry(k) \/ ChildCancelled(k)
  PROVE  NodeInv' /\ PhaseInv'
<1> USE DEF IInv, TypeOK, nodeVars, faultVars
<1>1. k \in DOMAIN task
  BY DEF BatchTypeOK
<1>2. /\ UNCHANGED <<wf, step, branch, visited, runs, revived, queue, batch, pc, cancelled>>
      /\ pc = "gather" /\ DOMAIN task' = DOMAIN task
  BY DEF NodeRetry, ChildCancelled
<1>3. /\ \A j \in DOMAIN task : j # k => task'[j] = task[j]
      /\ \/ task[k].state = "executing" /\ task'[k].state = "executing"
         \/ /\ task[k].state \in {"created", "executing"}
            /\ task'[k].state = "cancelled" /\ cancelled
  BY <1>1 DEF NodeRetry, ChildCancelled, BatchTypeOK, Task
<1>4. \A m : OnPath(m) => OnPath(m)'
  BY <1>2, OnPathKept
<1>5. RunsCounted' /\ OnlyVisitedRan' /\ OnTakenPath'
  BY <1>2 DEF NodeInv, RunsCounted, OnlyVisitedRan, OnTakenPath, NodeIds, Incoming, Mismatch
<1>6. TaskSteps' /\ TasksDistinct'
  BY <1>1, <1>2, <1>3 DEF NodeInv, TaskSteps, TasksDistinct, Finished
<1>7. ToRunOnPath'
  BY <1>2, <1>3, <1>4 DEF NodeInv, ToRunOnPath
<1>8. GatherOver' /\ ChildrenCancelled'
  BY <1>2, <1>3 DEF PhaseInv, GatherOver, ChildrenCancelled
<1>9. VisitedSucceeded'
  <2>1. ASSUME NEW j \in DOMAIN task, task[j].state \in {"executing"} \cup Bad
        PROVE  task'[j].state \in {"executing"} \cup Bad
    BY <1>3, <2>1 DEF Bad
  <2> QED
    BY <1>2, <2>1 DEF PhaseInv, VisitedSucceeded, Prologue
<1>10. PredecessorsSettled'
  BY <1>2, SettledKept DEF PhaseInv
<1> QED
  BY <1>5, <1>6, <1>7, <1>8, <1>9, <1>10 DEF NodeInv, PhaseInv

\* One turn of the edge loop.
LEMMA TraverseStep == IInv /\ Traverse => NodeInv' /\ PhaseInv'
<1> SUFFICES ASSUME IInv, Traverse PROVE NodeInv' /\ PhaseInv'
  OBVIOUS
<1> USE DEF IInv, TypeOK
<1> DEFINE k == cursor[1]
           edge == wf.edges[cursor[2]]
<1>1. /\ UNCHANGED <<wf, visited, batch, task, branch, runs, revived>>
      /\ pc = "traverse" /\ pc' = pc /\ k \in DOMAIN batch /\ k \in DOMAIN task
  BY DEF Traverse, BatchTypeOK
<1>2. \A m \in visited : step[m] = "succeeded"
  BY <1>1 DEF PhaseInv, VisitedSucceeded
<1>3. CASE step' = step /\ queue' = queue
  <2>1. NodeInv'
    BY <1>1, <1>3, NodeInvKept DEF nodeVars
  <2>2. PredecessorsSettled'
    BY <1>1, <1>3, SettledKept DEF PhaseInv, nodeVars
  <2>3. GatherOver' /\ ChildrenCancelled' /\ VisitedSucceeded'
    BY <1>1, <1>3 DEF PhaseInv, GatherOver, ChildrenCancelled, VisitedSucceeded, Finished
  <2> QED
    BY <2>1, <2>2, <2>3 DEF PhaseInv
<1>4. ASSUME NEW t \in NodeIds(wf), step[t] = "pending",
             step' = [step EXCEPT ![t] = "skipped"], queue' = queue
      PROVE  NodeInv' /\ PhaseInv'
  <2>1. /\ step'[t] = "skipped" /\ \A m \in NodeIds(wf) : m # t => step'[m] = step[m]
        /\ \A j \in DOMAIN task : batch[j] \in NodeIds(wf)
        /\ t \notin visited
    BY <1>2, <1>4 DEF NodesTypeOK, BatchTypeOK
  <2>2. \A m : OnPath(m) => OnPath(m)'
    BY <1>1, <1>4, <2>1, OnPathKept
  <2>3. RunsCounted' /\ OnlyVisitedRan'
    BY <1>1, <2>1 DEF NodeInv, RunsCounted, OnlyVisitedRan, NodeIds
  <2>4. TaskSteps'
    BY <1>1, <1>4, <2>1 DEF NodeInv, TaskSteps
  <2>5. TasksDistinct' /\ ToRunOnPath'
    BY <1>1, <1>4, <2>2 DEF NodeInv, TasksDistinct, Finished, ToRunOnPath
  <2>6. OnTakenPath'
    <3>1. \A m \in visited' : OnPath(m)'
      BY <1>1, <2>2 DEF NodeInv, OnTakenPath, OnPath
    <3> QED
      BY <3>1 DEF OnTakenPath, OnPath
  <2>7. GatherOver' /\ ChildrenCancelled'
    BY <1>1 DEF PhaseInv, GatherOver, ChildrenCancelled, Finished
  <2>8. VisitedSucceeded'
    BY <1>1, <1>2, <2>1 DEF PhaseInv, VisitedSucceeded, NodesTypeOK
  <2>9. PredecessorsSettled'
    <3>1. \A e \in Edges(wf) : e.source \in NodeIds(wf)
      BY WorkflowTyped DEF Edges, NodesTypeOK
    <3> QED
      BY <1>1, <1>4, <2>1, <3>1 DEF PhaseInv, PredecessorsSettled, Active, Edges, Ended
  <2> QED
    BY <2>3, <2>4, <2>5, <2>6, <2>7, <2>8, <2>9 DEF NodeInv, PhaseInv
<1>5. ASSUME edge \in Edges(wf), edge.target \in NodeIds(wf),
             task[k].state = "returned", edge.source = batch[k],
             ~Mismatch(branch[batch[k]], edge), DependenciesComplete(edge.target, step),
             step' = step, queue' = Append(queue, edge.target)
      PROVE  NodeInv' /\ PhaseInv'
  <2>1. RunsCounted' /\ OnlyVisitedRan' /\ OnTakenPath' /\ TaskSteps' /\ TasksDistinct'
    BY <1>1, <1>5 DEF NodeInv, RunsCounted, OnlyVisitedRan, OnTakenPath, TaskSteps,
                      TasksDistinct, Finished, NodeIds, Incoming, Mismatch
  <2>2. \A m : OnPath(m) => OnPath(m)'
    BY <1>1, <1>5, OnPathKept
  <2>3. OnPath(edge.target)
    <3>1. step[batch[k]] = "succeeded"
      BY <1>1, <1>5 DEF NodeInv, TaskSteps
    <3> HIDE DEF edge
    <3> QED
      BY <1>5, <3>1 DEF OnPath, Incoming
  <2>4. \A i \in DOMAIN queue' : queue'[i] = edge.target \/ \E j \in DOMAIN queue : queue'[i] = queue[j]
    <3> HIDE DEF edge
    <3> QED
      BY <1>5 DEF BatchTypeOK
  <2>5. ToRunOnPath'
    BY <1>1, <2>2, <2>3, <2>4 DEF NodeInv, ToRunOnPath
  <2>6. GatherOver' /\ ChildrenCancelled' /\ VisitedSucceeded'
    BY <1>1, <1>5 DEF PhaseInv, GatherOver, ChildrenCancelled, VisitedSucceeded, Finished
  <2>7. PredecessorsSettled'
    <3> SUFFICES ASSUME NEW e \in Edges(wf), e.target \in Active'
                 PROVE  /\ step[e.source] # "pending"
                        /\ step[e.source] \in {"running", "failed", "cancelled"} =>
                             e.source \in revived
      BY <1>1, <1>5 DEF PredecessorsSettled, Edges
    <3>1. CASE e.target \in Active
      BY <1>1, <3>1 DEF PhaseInv, PredecessorsSettled, Ended
    <3>2. CASE e.target = edge.target
      <4>1. step[e.source] \notin {"pending", "running", "failed"}
        BY <1>5, <3>2 DEF DependenciesComplete, Incoming
      <4>2. e.source \in NodeIds(wf)
        BY WorkflowTyped DEF Edges, NodesTypeOK
      <4>3. step[e.source] # "cancelled"
        BY <1>2, <4>2 DEF NodeInv, OnlyVisitedRan
      <4> QED
        BY <4>1, <4>3
    <3>3. e.target \in Active \/ e.target = edge.target
      BY <1>1, <2>4 DEF Active
    <3> QED
      BY <3>1, <3>2, <3>3
  <2> QED
    BY <2>1, <2>5, <2>6, <2>7 DEF NodeInv, PhaseInv
<1>6. CASE cursor[2] \in DOMAIN wf.edges
  <2>1. edge \in Edges(wf) /\ edge.target \in NodeIds(wf)
    BY <1>6, WorkflowTyped DEF NodesTypeOK
  <2>2. FollowEdge(k, edge)
    BY <1>6 DEF Traverse
  <2> HIDE DEF k, edge
  <2> QED
    BY <1>3, <1>4, <1>5, <2>1, <2>2, FollowEdgeCases
<1>7. CASE cursor[2] \notin DOMAIN wf.edges
  BY <1>3, <1>7 DEF Traverse
<1> QED
  BY <1>6, <1>7

\* The clean-up of the finally block.
LEMMA FinallyStep == IInv /\ Finally => NodeInv' /\ PhaseInv'
<1> SUFFICES ASSUME IInv, Finally PROVE NodeInv' /\ PhaseInv'
  OBVIOUS
<1> USE DEF IInv, TypeOK
<1>1. /\ UNCHANGED <<wf, visited, queue, batch, task, branch, runs, revived>>
      /\ pc = "finally" /\ pc' = "final_update"
      /\ \A m \in NodeIds(wf) : step'[m] = SettledStatus(step[m])
  BY DEF Finally, batchVars
<1>2. \A j \in DOMAIN task : Finished(task[j]) /\ batch[j] \in NodeIds(wf)
  BY <1>1 DEF PhaseInv, GatherOver, BatchTypeOK
<1>3. \A m : OnPath(m) => OnPath(m)'
  BY <1>1, OnPathKept DEF SettledStatus
<1>4. RunsCounted' /\ OnlyVisitedRan'
  BY <1>1 DEF NodeInv, RunsCounted, OnlyVisitedRan, NodeIds, SettledStatus
<1>5. TaskSteps' /\ TasksDistinct'
  BY <1>1, <1>2 DEF NodeInv, TaskSteps, TasksDistinct, Finished, SettledStatus
<1>6. ToRunOnPath'
  BY <1>1, <1>3 DEF NodeInv, ToRunOnPath
<1>7. OnTakenPath'
  <2>1. \A m \in visited' : OnPath(m)'
    BY <1>1, <1>3 DEF NodeInv, OnTakenPath, OnPath
  <2> QED
    BY <2>1 DEF OnTakenPath, OnPath
<1>8. GatherOver' /\ ChildrenCancelled' /\ VisitedSucceeded'
  BY <1>1, <1>2 DEF GatherOver, ChildrenCancelled, VisitedSucceeded, Finished, Prologue
<1>9. PredecessorsSettled'
  BY <1>1 DEF PredecessorsSettled
<1> QED
  BY <1>4, <1>5, <1>6, <1>7, <1>8, <1>9 DEF NodeInv, PhaseInv

\* Every step keeps the inductive invariant.
LEMMA IInvNext == IInv /\ [Next]_vars => IInv'
<1> SUFFICES ASSUME IInv, [Next]_vars PROVE IInv'
  OBVIOUS
<1>1. TypeOK'
  BY TypeNext DEF IInv
<1> SUFFICES NodeInv' /\ PhaseInv'
  BY <1>1 DEF IInv
<1>2. CASE Quiet
  BY <1>2, QuietStep
<1>3. CASE EnterTraversal \/ StartBatch
  BY <1>3, BatchStep
<1>4. CASE \E k \in DOMAIN batch : NodeStep(k)
  <2> PICK k \in DOMAIN batch : NodeStep(k)
    BY <1>4
  <2>1. CASE NodeStart(k)
    BY <2>1, NodeStartStep
  <2>2. CASE NodeRetry(k) \/ ChildCancelled(k)
    BY <2>2, TaskOnlyStep
  <2>3. CASE NodeSucceed(k)
    BY <2>3, NodeEndStep DEF NodeSucceed
  <2>4. CASE NodeFail(k)
    BY <2>4, NodeEndStep DEF NodeFail
  <2>5. CASE NodeCancel(k)
    BY <2>5, NodeEndStep DEF NodeCancel
  <2> QED
    BY <2>1, <2>2, <2>3, <2>4, <2>5 DEF NodeStep
<1>5. CASE Traverse
  BY <1>5, TraverseStep
<1>6. CASE Finally
  BY <1>6, FinallyStep
<1> QED
  BY <1>2, <1>3, <1>4, <1>5, <1>6 DEF Next, Engine, Quiet

\* The inductive invariant.
LEMMA IInvariant == Spec => []IInv
BY IInvInit, IInvNext, PTL DEF Spec

\* A run executes each node at most once.
THEOREM RunsOnce == Spec => []NodeRunsOnce
<1>1. IInv => NodeRunsOnce
  BY DEF IInv, NodeInv, RunsCounted, NodeRunsOnce
<1> QED
  BY <1>1, IInvariant, PTL

\* A run executes a node only on the path it took.
THEOREM OnlyOnPath == Spec => []OnTakenPath
<1>1. IInv => OnTakenPath
  BY DEF IInv, NodeInv
<1> QED
  BY <1>1, IInvariant, PTL

\* A run commits to a node only when its predecessors are settled.
THEOREM PredecessorsFirst == Spec => []PredecessorsSettled
<1>1. IInv => PredecessorsSettled
  BY DEF IInv, PhaseInv
<1> QED
  BY <1>1, IInvariant, PTL

-----------------------------------------------------------------------------
(* What the record says of a run that is over.                             *)

\* A task that ended badly has left its node's step so.
EndedTasks ==
  \A k \in DOMAIN task :
    /\ task[k].state = "raised" => step[batch[k]] = "failed"
    /\ task[k].state = "wfcancelled" => step[batch[k]] = "cancelled"

\* Once the traversal is left no step is running, but for the nodes a
\* cancelled gather has left behind; in a success none was left or failed.
StepsOver ==
  /\ pc \in {"fail_update", "failed"} \/ (pc = "finally" /\ final # "cancelled") =>
       \A n \in NodeIds(wf) : step[n] # "running"
  /\ pc \in {"final_update", "emit_terminal", "done"} =>
       \A n \in NodeIds(wf) : step[n] \notin {"pending", "running"}
  /\ pc \in {"finally", "final_update", "emit_terminal", "done"} /\ final = "succeeded" =>
       \A n \in NodeIds(wf) : step[n] \notin {"failed", "cancelled"}

\* The places where nothing has decided the run yet.
Undecided == Prologue \cup {"loop", "traverse", "gather", "update", "check"}

\* The record follows the verdict: running until there is one, then the
\* verdict itself or the one a later cancellation replaced.
RecordFollows ==
  /\ pc \in Undecided => final = "succeeded" /\ record.status = "running"
  /\ pc = "fail_update" => final # "succeeded" /\ record.status = "running"
  /\ pc = "failed" => final # "succeeded" /\ record.status = final /\ record.error
  /\ pc \in {"finally", "final_update"} =>
       \/ record.status \in {"running", final}
       \/ record.status = "failed" /\ final = "cancelled"
  /\ pc \in {"emit_terminal", "done"} => record.status = final /\ record.steps = step
  /\ pc \in {"finally", "final_update", "emit_terminal", "done"} /\ final = "failed"
       /\ faults = 0 => record.error

VerdictInv == EndedTasks /\ StepsOver /\ RecordFollows

LEMMA VerdictInit == Init => VerdictInv
BY DEF Init, VerdictInv, EndedTasks, StepsOver, RecordFollows, Undecided, Prologue

\* Between two batches no step is open or bad, and after a gather none runs.
LEMMA StepsSettled ==
  ASSUME IInv, EndedTasks
  PROVE  /\ pc \in {"loop", "traverse"} =>
              \A n \in NodeIds(wf) : step[n] \notin {"running", "failed", "cancelled"}
         /\ pc \in {"update", "check"} => \A n \in NodeIds(wf) : step[n] # "running"
<1> USE DEF IInv, NodeInv, PhaseInv
<1>1. ASSUME pc \in {"loop", "traverse"}, NEW n \in NodeIds(wf)
      PROVE  step[n] \notin {"running", "failed", "cancelled"}
  BY <1>1 DEF OnlyVisitedRan, VisitedSucceeded
<1>2. ASSUME pc \in {"update", "check"}, NEW n \in NodeIds(wf), step[n] = "running"
      PROVE  FALSE
  <2>1. n \in visited
    BY <1>2 DEF OnlyVisitedRan
  <2>2. PICK k \in DOMAIN task : batch[k] = n /\ task[k].state \in {"executing"} \cup Bad
    BY <1>2, <2>1 DEF VisitedSucceeded
  <2>3. task[k].state # "executing"
    BY <1>2 DEF GatherOver, Finished
  <2>4. task[k].state # "cancelled"
    BY <1>2 DEF ChildrenCancelled
  <2> QED
    BY <1>2, <2>2, <2>3, <2>4 DEF Bad, EndedTasks
<1> QED
  BY <1>1, <1>2

\* A node that a task has ended badly is never taken up again.
LEMMA EndedTasksStep == IInv /\ EndedTasks /\ [Next]_vars => EndedTasks'
<1> SUFFICES ASSUME IInv, EndedTasks, [Next]_vars PROVE EndedTasks'
  OBVIOUS
<1> USE DEF IInv, TypeOK, NodeInv
<1>0. /\ step \in [NodeIds(wf) -> StepStatus \ {"interrupted"}]
      /\ batch \in Seq(NodeIds(wf)) /\ task \in [DOMAIN batch -> Task]
  BY DEF NodesTypeOK, BatchTypeOK
<1>1. CASE UNCHANGED <<step, task, batch>>
  BY <1>1 DEF EndedTasks
<1>2. CASE StartBatch
  <2>1. \A k \in DOMAIN task' : task'[k].state \in {"created", "dropped"}
    BY <1>2 DEF StartBatch, NewTask
  <2> QED
    BY <2>1 DEF EndedTasks
<1>3. ASSUME NEW k \in DOMAIN batch, NodeStart(k) PROVE EndedTasks'
  <2>1. /\ batch[k] \notin visited /\ batch[k] \in NodeIds(wf) /\ batch' = batch
        /\ step' = [step EXCEPT ![batch[k]] = "running"]
        /\ task' = [task EXCEPT ![k].state = "executing", ![k].attempt = 1]
    <3>1. k \in DOMAIN task /\ batch[k] \in NodeIds(wf)
      BY <1>0
    <3>2. task[k].state = "created"
      BY <1>3 DEF NodeStart
    <3>3. batch[k] \notin visited
      BY <3>1, <3>2 DEF TaskSteps
    <3> QED
      BY <1>3, <3>1, <3>3 DEF NodeStart
  <2>2. step[batch[k]] \notin {"failed", "cancelled"}
    BY <2>1 DEF OnlyVisitedRan
  <2>3. ASSUME NEW j \in DOMAIN task', task'[j].state \in {"raised", "wfcancelled"}
        PROVE  j \in DOMAIN task /\ task'[j] = task[j] /\ step'[batch[j]] = step[batch[j]]
    <3>1. j # k /\ j \in DOMAIN task /\ task'[j] = task[j]
      BY <1>0, <2>1, <2>3 DEF Task
    <3>2. step[batch[j]] \in {"failed", "cancelled"}
      BY <2>3, <3>1 DEF EndedTasks
    <3> QED
      BY <1>0, <2>1, <2>2, <3>1, <3>2
  <2> QED
    BY <2>1, <2>3 DEF EndedTasks
<1>4. ASSUME NEW k \in DOMAIN batch, NodeRetry(k) \/ ChildCancelled(k) PROVE EndedTasks'
  <2>1. /\ UNCHANGED <<step, batch>> /\ DOMAIN task' = DOMAIN task
        /\ \A j \in DOMAIN task : task'[j].state \in {task[j].state, "cancelled"}
    BY <1>0, <1>4 DEF NodeRetry, ChildCancelled, Task, nodeVars
  <2> QED
    BY <2>1 DEF EndedTasks
<1>5. ASSUME NEW k \in DOMAIN batch, NEW state, NEW status, NEW label,
             NodeEnd(k, state, status, label),
             state = "raised" => status = "failed",
             state = "wfcancelled" => status = "cancelled"
      PROVE  EndedTasks'
  <2>1. /\ step[batch[k]] = "running" /\ batch[k] \in NodeIds(wf) /\ batch' = batch
        /\ step' = [step EXCEPT ![batch[k]] = status]
        /\ task' = [task EXCEPT ![k].state = state]
    <3>1. k \in DOMAIN task /\ batch[k] \in NodeIds(wf)
      BY <1>0
    <3>2. task[k].state = "executing"
      BY <1>5 DEF NodeEnd
    <3>3. step[batch[k]] = "running"
      BY <3>1, <3>2 DEF TaskSteps
    <3> QED
      BY <1>5, <3>1, <3>3 DEF NodeEnd
  <2>2. task'[k].state = state /\ step'[batch[k]] = status
    BY <1>0, <2>1 DEF Task
  <2>3. ASSUME NEW j \in DOMAIN task', j # k, task'[j].state \in {"raised", "wfcancelled"}
        PROVE  j \in DOMAIN task /\ task'[j] = task[j] /\ step'[batch[j]] = step[batch[j]]
    <3>1. j \in DOMAIN task /\ task'[j] = task[j]
      BY <1>0, <2>1, <2>3
    <3>2. step[batch[j]] \in {"failed", "cancelled"}
      BY <2>3, <3>1 DEF EndedTasks
    <3> QED
      BY <1>0, <2>1, <3>1, <3>2
  <2> QED
    BY <1>5, <2>1, <2>2, <2>3 DEF EndedTasks
<1>6. CASE Traverse
  <2>1. UNCHANGED <<task, batch>>
    BY <1>6 DEF Traverse
  <2>2. ASSUME NEW n, step[n] \in {"failed", "cancelled"} PROVE step'[n] = step[n]
    <3>1. CASE step' = step
      BY <3>1
    <3>2. CASE step' # step
      <4>1. step[wf.edges[cursor[2]].target] = "pending"
            /\ step' = [step EXCEPT ![wf.edges[cursor[2]].target] = "skipped"]
        BY <1>6, <3>2 DEF Traverse, FollowEdge
      <4> QED
        BY <1>0, <2>2, <4>1
    <3> QED
      BY <3>1, <3>2
  <2> QED
    BY <2>1, <2>2 DEF EndedTasks
<1>7. CASE Finally
  <2>1. UNCHANGED <<task, batch>> /\ step' = [n \in NodeIds(wf) |-> SettledStatus(step[n])]
    BY <1>7 DEF Finally, batchVars
  <2>2. \A k \in DOMAIN task : batch[k] \in NodeIds(wf)
    BY <1>0
  <2> QED
    BY <2>1, <2>2 DEF EndedTasks, SettledStatus
<1>8. CASE EnterTraversal
  BY <1>1, <1>8 DEF EnterTraversal, nodeVars
<1>9. CASE Quiet
  <2>1. UNCHANGED <<step, task, batch>>
    BY <1>9 DEF Quiet, InitialUpdate, EmitStarted, BatchUpdate, CheckFailed, FailUpdate,
                ReturnFailed, TraverseDone, QueueEmpty, FinalUpdate, EmitTerminal, RequestCancel,
                DeliverCancel, StoreError, Crash, Sweep, GatherDone, CheckPassed, nodeVars,
                batchVars, vars
  <2> QED
    BY <1>1, <2>1
<1>10. ASSUME NEW k \in DOMAIN batch, NodeStep(k) PROVE EndedTasks'
  <2>1. CASE NodeSucceed(k)
    BY <1>5, <2>1 DEF NodeSucceed
  <2>2. CASE NodeFail(k) \/ NodeCancel(k)
    BY <1>5, <2>2 DEF NodeFail, NodeCancel
  <2> QED
    BY <1>3, <1>4, <1>10, <2>1, <2>2 DEF NodeStep
<1> QED
  BY <1>2, <1>6, <1>7, <1>8, <1>9, <1>10 DEF Next, Engine, Quiet

\* What the coroutine leaves open when it moves on.
LEMMA StepsOverStep == IInv /\ EndedTasks /\ StepsOver /\ RecordFollows /\ [Next]_vars => StepsOver'
<1> SUFFICES ASSUME IInv, EndedTasks, StepsOver, RecordFollows, [Next]_vars PROVE StepsOver'
  OBVIOUS
<1>0. /\ step \in [NodeIds(wf) -> StepStatus \ {"interrupted"}] /\ wf' = wf
  <2>1. wf' = wf
    BY DEF Next, Engine, NodeStep, InitialUpdate, EmitStarted, EnterTraversal, StartBatch, GatherDone, BatchUpdate,
           CheckFailed, CheckPassed, FailUpdate, ReturnFailed, Traverse, TraverseDone, QueueEmpty,
           Finally, FinalUpdate, EmitTerminal, DeliverCancel, NodeStart, NodeRetry, NodeSucceed,
           NodeFail, NodeCancel, NodeEnd, ChildCancelled, RequestCancel, StoreError, Crash, Sweep, vars
  <2> QED
    BY <2>1 DEF IInv, TypeOK, NodesTypeOK
<1>1. CASE pc' \notin {"fail_update", "failed", "finally", "final_update", "emit_terminal", "done"}
  BY <1>1 DEF StepsOver
<1>2. CASE CheckFailed
  <2>1. pc = "check" /\ pc' = "fail_update" /\ step' = step
    BY <1>2 DEF CheckFailed, nodeVars
  <2> QED
    BY <1>0, <2>1, StepsSettled DEF StepsOver
<1>3. CASE QueueEmpty
  <2>1. pc = "loop" /\ pc' = "finally" /\ step' = step /\ final' = final
    BY <1>3 DEF QueueEmpty, nodeVars
  <2> QED
    BY <1>0, <2>1, StepsSettled DEF StepsOver
<1>4. CASE FailUpdate \/ ReturnFailed \/ FinalUpdate \/ EmitTerminal \/ RequestCancel
            \/ UNCHANGED vars
  <2>1. /\ step' = step /\ final' = final
        /\ \/ pc' = pc
           \/ pc = "fail_update" /\ pc' = "failed"
           \/ pc = "failed" /\ pc' = "finally"
           \/ pc = "final_update" /\ pc' = "emit_terminal"
           \/ pc = "emit_terminal" /\ pc' = "done"
    BY <1>4 DEF FailUpdate, ReturnFailed, FinalUpdate, EmitTerminal, RequestCancel, vars, nodeVars
  <2> QED
    BY <1>0, <2>1 DEF StepsOver, RecordFollows
<1>5. CASE DeliverCancel
  <2>1. step' = step /\ pc' \in {"finally", "aborted"} /\ (pc' = "finally" => final' = "cancelled")
    BY <1>5 DEF DeliverCancel, nodeVars
  <2> QED
    BY <1>0, <2>1 DEF StepsOver
<1>6. CASE StoreError
  <2>1. /\ step' = step
        /\ \/ pc' = "aborted"
           \/ pc \in {"update", "fail_update"} /\ pc' = "finally" /\ final' = "failed"
    BY <1>6 DEF StoreError, nodeVars, Body
  <2> QED
    BY <1>0, <2>1, StepsSettled DEF StepsOver
<1>7. CASE Finally
  <2>1. /\ pc = "finally" /\ pc' = "final_update" /\ final' = final
        /\ step' = [n \in NodeIds(wf) |-> SettledStatus(step[n])]
    BY <1>7 DEF Finally
  <2> QED
    BY <1>0, <2>1 DEF StepsOver, SettledStatus
<1>8. CASE \E k \in DOMAIN batch : NodeStep(k)
  <2>1. pc' = "gather"
    BY <1>8 DEF NodeStep, NodeStart, NodeRetry, NodeSucceed, NodeFail, NodeCancel, NodeEnd,
                ChildCancelled
  <2> QED
    BY <1>1, <2>1
<1>9. CASE InitialUpdate \/ EmitStarted \/ EnterTraversal \/ StartBatch \/ GatherDone
            \/ BatchUpdate \/ CheckPassed \/ TraverseDone \/ Traverse \/ Crash \/ Sweep
  <2>1. pc' \in {"emit_started", "started", "loop", "gather", "update", "check", "traverse", "crashed"}
    BY <1>9 DEF InitialUpdate, EmitStarted, EnterTraversal, StartBatch, GatherDone, BatchUpdate,
                CheckPassed, TraverseDone, Traverse, Crash, Sweep
  <2> QED
    BY <1>1, <2>1
<1> QED
  BY <1>2, <1>3, <1>4, <1>5, <1>6, <1>7, <1>8, <1>9 DEF Next, Engine

\* Every write of the record is one of the verdict.
LEMMA RecordStep ==
  ASSUME IInv, RecordFollows, [Next]_vars
  PROVE  /\ RecordFollows'
         /\ record.status # "running" =>
              \/ record'.status = record.status
              \/ record.status = "failed" /\ record'.status = "cancelled"
<1>0. final \in {"succeeded", "failed", "cancelled"} /\ faults \in Nat
  BY BoundsAssumption DEF IInv, TypeOK, NodesTypeOK, ControlTypeOK
<1> USE DEF RecordFollows, Undecided, Prologue
<1>1. CASE InitialUpdate \/ BatchUpdate
  <2>1. /\ pc \in {"init_update", "update"} /\ pc' \in {"emit_started", "check"}
        /\ final' = final /\ record'.status = "running"
    BY <1>1 DEF InitialUpdate, BatchUpdate, UpdateRun
  <2> QED
    BY <2>1
<1>2. CASE FailUpdate
  <2>1. /\ pc = "fail_update" /\ pc' = "failed" /\ final' = final
        /\ record'.status = final /\ record'.error
    BY <1>2 DEF FailUpdate, UpdateRun
  <2> QED
    BY <2>1
<1>3. CASE FinalUpdate
  <2>1. /\ pc = "final_update" /\ pc' = "emit_terminal" /\ final' = final /\ faults' = faults
        /\ record'.status = final /\ record'.steps = step /\ step' = step
        /\ final = "failed" /\ record.error => record'.error
    BY <1>3 DEF FinalUpdate, UpdateRun, nodeVars, faultVars
  <2> QED
    BY <2>1
<1>4. CASE Sweep
  <2>1. pc' = "crashed" /\ record.status = "running"
    BY <1>4 DEF Sweep
  <2> QED
    BY <2>1
<1>5. CASE EmitStarted \/ EnterTraversal \/ GatherDone \/ CheckPassed \/ TraverseDone \/ StartBatch
  <2>1. pc \in Undecided /\ pc' \in Undecided /\ final' = final /\ record' = record
    BY <1>5 DEF EmitStarted, EnterTraversal, GatherDone, CheckPassed, TraverseDone, StartBatch, outVars
  <2> QED
    BY <2>1
<1>6. CASE Traverse \/ \E k \in DOMAIN batch : NodeStep(k)
  <2>1. /\ pc \in {"traverse", "gather"} /\ pc' = pc /\ final' = final /\ record' = record
    BY <1>6 DEF Traverse, NodeStep, NodeStart, NodeRetry, NodeSucceed, NodeFail, NodeCancel,
                NodeEnd, ChildCancelled, outVars
  <2> QED
    BY <2>1
<1>7. CASE CheckFailed \/ QueueEmpty \/ ReturnFailed
  <2>1. /\ record' = record /\ faults' = faults
        /\ \/ pc = "check" /\ pc' = "fail_update" /\ final' \in {"cancelled", "failed"}
           \/ pc = "loop" /\ pc' = "finally" /\ final' = final
           \/ pc = "failed" /\ pc' = "finally" /\ final' = final
    BY <1>7 DEF CheckFailed, QueueEmpty, ReturnFailed, outVars, faultVars
  <2> QED
    BY <2>1
<1>8. CASE Finally
  <2>1. /\ pc = "finally" /\ pc' = "final_update" /\ final' = final
        /\ record' = record /\ faults' = faults
    BY <1>8 DEF Finally, outVars, faultVars
  <2> QED
    BY <2>1
<1>9. CASE EmitTerminal
  <2>1. /\ pc = "emit_terminal" /\ pc' = "done" /\ final' = final /\ step' = step
        /\ record' = record /\ faults' = faults
    BY <1>9 DEF EmitTerminal, nodeVars, faultVars
  <2> QED
    BY <2>1
<1>10. CASE RequestCancel
  <2>1. /\ pc' = pc /\ final' = final /\ step' = step /\ record' = record /\ faults' = faults + 1
    BY <1>10 DEF RequestCancel, nodeVars, outVars
  <2> QED
    BY <1>0, <2>1
<1>11. CASE DeliverCancel
  <2>1. /\ record' = record /\ faults' = faults
        /\ \/ pc' = "aborted"
           \/ pc \in Body /\ pc' = "finally" /\ final' = "cancelled"
    BY <1>11 DEF DeliverCancel, outVars
  <2> QED
    BY <1>0, <2>1 DEF Body
<1>12. CASE StoreError
  <2>1. /\ record' = record /\ faults' = faults + 1
        /\ \/ pc' = "aborted"
           \/ pc \in {"update", "fail_update"} /\ pc' = "finally" /\ final' = "failed"
    BY <1>12 DEF StoreError, outVars, Body
  <2> QED
    BY <1>0, <2>1
<1>13. CASE Crash
  <2>1. pc' = "crashed" /\ record' = record
    BY <1>13 DEF Crash, outVars
  <2> QED
    BY <2>1
<1>14. CASE UNCHANGED vars
  BY <1>14 DEF vars, outVars, faultVars, nodeVars
<1> QED
  BY <1>1, <1>2, <1>3, <1>4, <1>5, <1>6, <1>7, <1>8, <1>9, <1>10, <1>11, <1>12, <1>13, <1>14
  DEF Next, Engine

LEMMA VerdictInvariant == Spec => []VerdictInv
<1>1. IInv /\ VerdictInv /\ [Next]_vars => VerdictInv'
  BY EndedTasksStep, StepsOverStep, RecordStep DEF VerdictInv
<1> QED
  BY <1>1, VerdictInit, IInvariant, PTL DEF Spec

\* The record of a run that ended by itself is the truth about its steps.
THEOREM RecordTruthful == Spec => []FinalRecordTruthful
<1>1. IInv /\ VerdictInv => FinalRecordTruthful
  <2> SUFFICES ASSUME IInv, VerdictInv, pc = "done"
               PROVE  FinalRecordTruthful
    BY DEF FinalRecordTruthful
  <2>1. \A n \in NodeIds(wf) : step[n] \in StepStatus \ {"interrupted"}
    BY DEF IInv, TypeOK, NodesTypeOK
  <2>2. \A n \in NodeIds(wf) : step[n] \notin {"pending", "running"}
    BY DEF VerdictInv, StepsOver
  <2>3. final = "succeeded" => \A n \in NodeIds(wf) : step[n] \in {"succeeded", "skipped"}
    BY <2>1, <2>2 DEF VerdictInv, StepsOver, StepStatus
  <2> QED
    BY <2>2, <2>3 DEF VerdictInv, RecordFollows, FinalRecordTruthful
<1> QED
  BY <1>1, IInvariant, VerdictInvariant, PTL

\* A finished run never shows as running again; only a cancellation during
\* the clean-up changes what it shows.
THEOREM VerdictKept == Spec => VerdictStable
<1>1. IInv /\ VerdictInv /\ [Next]_vars =>
        [record.status # "running" =>
           \/ record'.status = record.status
           \/ record.status = "failed" /\ record'.status = "cancelled"]_vars
  BY RecordStep DEF VerdictInv
<1> QED
  BY <1>1, IInvariant, VerdictInvariant, PTL DEF Spec, VerdictStable

-----------------------------------------------------------------------------
(* No join is lost.                                                        *)

JoinReady(n) ==
  \A e \in Incoming(n) : step[e.source] = "succeeded" /\ ~Mismatch(branch[e.source], e)

Queued(n) == \E i \in DOMAIN queue : queue[i] = n

\* A result of the batch has an edge to n that is still to be followed.
Ahead(n) ==
  \E k \in DOMAIN batch, j \in DOMAIN wf.edges :
    /\ wf.edges[j].source = batch[k] /\ wf.edges[j].target = n
    /\ task[k].state = "returned"
    /\ pc = "traverse" => k > cursor[1] \/ (k = cursor[1] /\ j >= cursor[2])

Created(n) == \E k \in DOMAIN batch : batch[k] = n /\ task[k].state = "created"

\* Nothing has run yet, and a queue holds a node once.
NothingRun == pc \in Prologue => \A n \in NodeIds(wf) : step[n] = "pending"
QueueDistinct == \A i, j \in DOMAIN queue : queue[i] = queue[j] => i = j

\* A node that all its predecessors lead to has been taken up, or the edge
\* that will take it up is still ahead of the cursor.  A gather that is being
\* cancelled takes up nothing.
JoinKept ==
  /\ pc = "loop" => \A n \in NodeIds(wf) : JoinReady(n) => n \in visited \/ Queued(n)
  /\ pc \in {"gather", "update", "check", "traverse"} =>
       \A n \in NodeIds(wf) :
         JoinReady(n) => \/ n \in visited \/ Queued(n) \/ Ahead(n)
                         \/ pc = "gather" /\ (Created(n) \/ cancelled)
  /\ pc \in {"finally", "final_update", "emit_terminal", "done"} /\ final = "succeeded" =>
       \A n \in NodeIds(wf) : JoinReady(n) => step[n] = "succeeded"

JoinInv == NothingRun /\ QueueDistinct /\ JoinKept

LEMMA JoinInit == Init => JoinInv
BY DEF Init, JoinInv, NothingRun, QueueDistinct, JoinKept, Prologue

\* Every start node is in the start queue, once.
LEMMA StartQueueFull ==
  ASSUME wf \in Workflows, NEW q, IsStartQueue(q)
  PROVE  /\ \A i, j \in DOMAIN q : q[i] = q[j] => i = j
         /\ \A n \in NodeIds(wf) : Incoming(n) = {} => \E i \in DOMAIN q : q[i] = n
<1> DEFINE N == Cardinality(StartPositions)
<1>1. DOMAIN wf.nodes = 1..Len(wf.nodes) /\ Len(wf.nodes) \in Nat
  BY WorkflowTyped
<1>2. IsFiniteSet(StartPositions) /\ N \in Nat /\ StartPositions \subseteq Nat
  <2>1. IsFiniteSet(1..Len(wf.nodes))
    BY <1>1, FS_Interval
  <2>2. StartPositions \subseteq 1..Len(wf.nodes)
    BY <1>1 DEF StartPositions
  <2> QED
    <3>1. IsFiniteSet(StartPositions)
      BY <2>1, <2>2, FS_Subset
    <3>2. N \in Nat
      BY <3>1, FS_CardinalityType
    <3>3. StartPositions \subseteq Nat
      BY <1>1, <2>2
    <3> QED
      BY <3>1, <3>2, <3>3
<1>3. PICK at \in [1..N -> StartPositions] :
        /\ \A i, j \in DOMAIN at : i < j => at[i] < at[j]
        /\ q = [i \in DOMAIN at |-> wf.nodes[at[i]]]
  BY DEF IsStartQueue
<1> HIDE DEF N
<1>4. ASSUME NEW i \in 1..N, NEW j \in 1..N, at[i] = at[j] PROVE i = j
  <2>1. at[i] \in Nat /\ at[j] \in Nat
    BY <1>2, <1>3
  <2>2. ~(i < j) /\ ~(j < i)
    BY <1>3, <1>4, <2>1
  <2> QED
    BY <1>2, <2>2
<1>5. at \in Injection(1..N, StartPositions)
  BY <1>3, <1>4 DEF Injection, IsInjective
<1>6. at \in Surjection(1..N, StartPositions)
  <2>1. Cardinality(1..N) = N
    BY <1>2, FS_Interval
  <2> QED
    BY <1>2, <1>5, <2>1, FS_Injection DEF N
<1>7. ASSUME NEW n \in NodeIds(wf), Incoming(n) = {} PROVE \E i \in DOMAIN q : q[i] = n
  <2>1. PICK p \in DOMAIN wf.nodes : n = wf.nodes[p]
    BY DEF NodeIds
  <2>2. p \in StartPositions
    BY <1>7, <2>1 DEF StartPositions
  <2>3. PICK i \in 1..N : at[i] = p
    BY <1>6, <2>2 DEF Surjection
  <2> QED
    BY <1>3, <2>1, <2>3
<1>8. ASSUME NEW i \in DOMAIN q, NEW j \in DOMAIN q, q[i] = q[j] PROVE i = j
  <2>1. i \in 1..N /\ j \in 1..N /\ wf.nodes[at[i]] = wf.nodes[at[j]]
    BY <1>3, <1>8
  <2>2. at[i] \in DOMAIN wf.nodes /\ at[j] \in DOMAIN wf.nodes
    BY <1>3, <2>1 DEF StartPositions
  <2>3. at[i] = at[j]
    BY <2>1, <2>2, WorkflowsAssumption DEF ValidWorkflow
  <2> QED
    BY <1>4, <2>1, <2>3
<1> QED
  BY <1>7, <1>8

\* Nothing new is ready as long as no step becomes succeeded.
LEMMA ReadyBefore ==
  ASSUME IInv, wf' = wf, NEW n \in NodeIds(wf), JoinReady(n)',
         \A m \in NodeIds(wf) : step'[m] = "succeeded" =>
           step[m] = "succeeded" /\ branch'[m] = branch[m]
  PROVE  JoinReady(n)
<1>1. \A e \in Edges(wf) : e.source \in NodeIds(wf)
  BY WorkflowTyped DEF IInv, TypeOK, NodesTypeOK, Edges
<1> QED
  BY <1>1 DEF JoinReady, Incoming, Mismatch

LEMMA QueueDistinctStep == IInv /\ QueueDistinct /\ [Next]_vars => QueueDistinct'
<1> SUFFICES ASSUME IInv, QueueDistinct, [Next]_vars PROVE QueueDistinct'
  OBVIOUS
<1>0. wf \in Workflows /\ queue \in Seq(NodeIds(wf)) /\ wf' = wf
  BY DEF IInv, TypeOK, NodesTypeOK, BatchTypeOK, Next, Engine, NodeStep, InitialUpdate, EmitStarted,
         EnterTraversal, StartBatch, GatherDone, BatchUpdate, CheckFailed, CheckPassed, FailUpdate,
         ReturnFailed, Traverse, TraverseDone, QueueEmpty, Finally, FinalUpdate, EmitTerminal,
         DeliverCancel, NodeStart, NodeRetry, NodeSucceed, NodeFail, NodeCancel, NodeEnd,
         ChildCancelled, RequestCancel, StoreError, Crash, Sweep, vars
<1>1. CASE queue' = queue
  BY <1>1 DEF QueueDistinct
<1>2. CASE EnterTraversal
  <2>1. PICK q : q = queue' /\ IsStartQueue(q)
    BY <1>2 DEF EnterTraversal
  <2>2. \A i, j \in DOMAIN q : q[i] = q[j] => i = j
    BY <1>0, <2>1, StartQueueFull
  <2> QED
    BY <2>1, <2>2 DEF QueueDistinct
<1>3. CASE StartBatch
  BY <1>3 DEF StartBatch, QueueDistinct
<1>4. CASE Traverse
  <2> DEFINE target == wf.edges[cursor[2]].target
             Added == queue' = Append(queue, target) /\ \A j \in DOMAIN queue : queue[j] # target
  <2>1. Added \/ queue' = queue
    BY <1>4 DEF Traverse, FollowEdge
  <2> HIDE DEF target
  <2>2. CASE Added
    <3>1. /\ DOMAIN queue' = 1..(Len(queue) + 1) /\ DOMAIN queue = 1..Len(queue)
          /\ Len(queue) \in Nat /\ queue'[Len(queue) + 1] = target
          /\ \A i \in DOMAIN queue : queue'[i] = queue[i]
      BY <1>0, <2>2
    <3> QED
      BY <2>2, <3>1 DEF QueueDistinct
  <2> QED
    BY <1>1, <2>1, <2>2
<1>5. CASE Engine /\ ~EnterTraversal /\ ~StartBatch /\ ~Traverse
  <2>1. queue' = queue
    BY <1>5 DEF Engine, InitialUpdate, EmitStarted, GatherDone, BatchUpdate, CheckFailed, CheckPassed,
           FailUpdate, ReturnFailed, TraverseDone, QueueEmpty, Finally, FinalUpdate, EmitTerminal,
           DeliverCancel, batchVars
  <2> QED
    BY <1>1, <2>1
<1>6. CASE ~Engine
  <2>1. queue' = queue
    BY <1>6 DEF Next, NodeStep, NodeStart, NodeRetry, NodeSucceed, NodeFail, NodeCancel, NodeEnd,
           ChildCancelled, RequestCancel, StoreError, Crash, Sweep, batchVars, vars
  <2> QED
    BY <1>1, <2>1
<1> QED
  BY <1>2, <1>3, <1>4, <1>5, <1>6

LEMMA NothingRunStep == NothingRun /\ [Next]_vars => NothingRun'
<1> SUFFICES ASSUME NothingRun, [Next]_vars PROVE NothingRun'
  OBVIOUS
<1>1. CASE InitialUpdate \/ EmitStarted \/ RequestCancel \/ UNCHANGED vars
  <2>1. step' = step /\ wf' = wf /\ (pc' \in Prologue => pc \in Prologue)
    BY <1>1 DEF InitialUpdate, EmitStarted, RequestCancel, vars, nodeVars, Prologue
  <2> QED
    BY <2>1 DEF NothingRun
<1>2. CASE ~(InitialUpdate \/ EmitStarted \/ RequestCancel \/ UNCHANGED vars)
  <2>1. pc' \notin Prologue
    BY <1>2 DEF Next, Engine, NodeStep, EnterTraversal, StartBatch, GatherDone, BatchUpdate,
           CheckFailed, CheckPassed, FailUpdate, ReturnFailed, Traverse, TraverseDone, QueueEmpty,
           Finally, FinalUpdate, EmitTerminal, DeliverCancel, NodeStart, NodeRetry, NodeSucceed,
           NodeFail, NodeCancel, NodeEnd, ChildCancelled, StoreError, Crash, Sweep, Prologue
  <2> QED
    BY <2>1 DEF NothingRun
<1> QED
  BY <1>1, <1>2

\* A batch takes up what is queued.
LEMMA JoinBatch == IInv /\ JoinInv /\ (EnterTraversal \/ StartBatch) => JoinKept'
<1> SUFFICES ASSUME IInv, JoinInv, EnterTraversal \/ StartBatch PROVE JoinKept'
  OBVIOUS
<1>0. /\ wf \in Workflows /\ queue \in Seq(NodeIds(wf)) /\ wf' = wf
      /\ UNCHANGED nodeVars
  BY DEF IInv, TypeOK, NodesTypeOK, BatchTypeOK, EnterTraversal, StartBatch
<1>1. \A n \in NodeIds(wf) : JoinReady(n)' => JoinReady(n)
  BY <1>0 DEF JoinReady, Incoming, nodeVars
<1>2. CASE EnterTraversal
  <2>1. pc = "started" /\ pc' = "loop" /\ IsStartQueue(queue')
    BY <1>2 DEF EnterTraversal
  <2>2. ASSUME NEW n \in NodeIds(wf), JoinReady(n) PROVE Incoming(n) = {}
    <3>1. \A e \in Edges(wf) : step[e.source] = "pending"
      BY <1>0, <2>1, WorkflowTyped DEF JoinInv, NothingRun, Prologue, Edges
    <3> QED
      BY <2>2, <3>1 DEF JoinReady, Incoming
  <2>3. \A n \in NodeIds(wf) : JoinReady(n)' => Queued(n)'
    BY <1>0, <1>1, <2>1, <2>2, StartQueueFull DEF Queued
  <2> QED
    BY <1>0, <2>1, <2>3 DEF JoinKept
<1>3. CASE StartBatch
  <2>1. /\ pc = "loop" /\ batch' = queue /\ task' = [k \in 1..Len(queue) |-> NewTask(k)]
        /\ pc' = IF \E k \in DOMAIN queue : NewTask(k).state = "created" THEN "gather" ELSE "loop"
    BY <1>3 DEF StartBatch
  <2>2. DOMAIN queue = 1..Len(queue)
    BY <1>0
  <2>3. ASSUME NEW n \in NodeIds(wf), JoinReady(n)', n \notin visited
        PROVE  pc' = "gather" /\ Created(n)'
    <3>1. PICK i \in DOMAIN queue : queue[i] = n
      BY <1>1, <2>1, <2>3 DEF JoinInv, JoinKept, Queued
    <3>2. \A j \in 1..(i - 1) : queue[j] # queue[i]
      BY <2>2, <3>1 DEF JoinInv, QueueDistinct
    <3>3. NewTask(i).state = "created"
      BY <2>3, <3>1, <3>2 DEF NewTask
    <3> QED
      BY <2>1, <2>2, <3>1, <3>3 DEF Created
  <2>4. visited' = visited /\ pc' \in {"gather", "loop"}
    BY <1>0, <2>1 DEF nodeVars
  <2> QED
    BY <1>0, <2>3, <2>4 DEF JoinKept
<1> QED
  BY <1>2, <1>3

\* A task takes its node up, and when it succeeds its edges are ahead.
LEMMA JoinTask ==
  ASSUME IInv, JoinInv, NEW k \in DOMAIN batch, NodeStep(k)
  PROVE  JoinKept'
<1> USE DEF IInv, TypeOK
<1>0. /\ step \in [NodeIds(wf) -> StepStatus \ {"interrupted"}]
      /\ branch \in [NodeIds(wf) -> Label \cup {NoLabel}]
      /\ batch \in Seq(NodeIds(wf)) /\ task \in [DOMAIN batch -> Task]
      /\ batch[k] \in NodeIds(wf) /\ k \in DOMAIN task
  BY DEF NodesTypeOK, BatchTypeOK
<1>1. /\ pc = "gather" /\ pc' = "gather" /\ UNCHANGED <<wf, queue, batch, cursor>>
      /\ visited \subseteq visited'
  BY DEF NodeStep, NodeStart, NodeRetry, NodeSucceed, NodeFail, NodeCancel, NodeEnd,
         ChildCancelled, nodeVars
<1>2. ASSUME \A n \in NodeIds(wf) :
               JoinReady(n)' => \/ n \in visited' \/ Queued(n) \/ Ahead(n)'
                                \/ Created(n)' \/ cancelled'
      PROVE  JoinKept'
  BY <1>1, <1>2 DEF JoinKept, Queued
<1>3. \A n \in NodeIds(wf) :
        JoinReady(n) => n \in visited \/ Queued(n) \/ Ahead(n) \/ Created(n) \/ cancelled
  BY <1>1 DEF JoinInv, JoinKept
<1>4. ASSUME NEW n \in NodeIds(wf), Ahead(n), task[k].state # "returned",
             \A j \in DOMAIN task : j # k => task'[j] = task[j]
      PROVE  Ahead(n)'
  <2>1. PICK i \in DOMAIN batch, j \in DOMAIN wf.edges :
          /\ wf.edges[j].source = batch[i] /\ wf.edges[j].target = n
          /\ task[i].state = "returned"
    BY <1>4 DEF Ahead
  <2>2. task'[i] = task[i]
    BY <1>0, <1>4, <2>1
  <2> QED
    BY <1>1, <2>1, <2>2 DEF Ahead
<1>5. ASSUME NEW n \in NodeIds(wf), Created(n), batch[k] # n,
             \A j \in DOMAIN task : j # k => task'[j] = task[j]
      PROVE  Created(n)'
  <2>1. PICK i \in DOMAIN batch : batch[i] = n /\ task[i].state = "created"
    BY <1>5 DEF Created
  <2>2. task'[i] = task[i]
    BY <1>0, <1>5, <2>1
  <2> QED
    BY <1>1, <2>1, <2>2 DEF Created
<1>6. CASE NodeStart(k)
  <2>1. /\ task[k].state = "created" /\ visited' = visited \cup {batch[k]}
        /\ step' = [step EXCEPT ![batch[k]] = "running"] /\ branch' = branch
        /\ cancelled' = cancelled
        /\ task' = [task EXCEPT ![k].state = "executing", ![k].attempt = 1]
    BY <1>6 DEF NodeStart, faultVars
  <2>2. \A j \in DOMAIN task : j # k => task'[j] = task[j]
    BY <1>0, <2>1
  <2>3. \A m \in NodeIds(wf) : step'[m] = "succeeded" =>
           step[m] = "succeeded" /\ branch'[m] = branch[m]
    BY <1>0, <2>1
  <2>4. \A n \in NodeIds(wf) : JoinReady(n)' => JoinReady(n)
    BY <1>1, <2>3, ReadyBefore
  <2>5. ASSUME NEW n \in NodeIds(wf), JoinReady(n)'
        PROVE  n \in visited' \/ Queued(n) \/ Ahead(n)' \/ Created(n)' \/ cancelled'
    <3>1. n \in visited \/ Queued(n) \/ Ahead(n) \/ Created(n) \/ cancelled
      BY <1>3, <2>4, <2>5
    <3> QED
      BY <1>4, <1>5, <2>1, <2>2, <3>1
  <2> QED
    BY <1>2, <2>5
<1>7. CASE NodeRetry(k)
  <2>1. /\ task[k].state = "executing" /\ UNCHANGED <<step, branch, visited, cancelled>>
        /\ task' = [task EXCEPT ![k].attempt = @ + 1]
    BY <1>7 DEF NodeRetry, faultVars, nodeVars
  <2>2. \A j \in DOMAIN task : j # k => task'[j] = task[j]
    BY <1>0, <2>1
  <2>3. \A n \in NodeIds(wf) : JoinReady(n)' => JoinReady(n)
    BY <1>1, <2>1 DEF JoinReady, Incoming
  <2>4. ASSUME NEW n \in NodeIds(wf), Created(n) PROVE Created(n)'
    <3>1. PICK i \in DOMAIN batch : batch[i] = n /\ task[i].state = "created"
      BY <2>4 DEF Created
    <3>2. task'[i] = task[i]
      BY <1>0, <2>1, <2>2, <3>1
    <3> QED
      BY <1>1, <3>1, <3>2 DEF Created
  <2>5. ASSUME NEW n \in NodeIds(wf), JoinReady(n)'
        PROVE  n \in visited' \/ Queued(n) \/ Ahead(n)' \/ Created(n)' \/ cancelled'
    <3>1. n \in visited \/ Queued(n) \/ Ahead(n) \/ Created(n) \/ cancelled
      BY <1>3, <2>3, <2>5
    <3> QED
      BY <1>4, <2>1, <2>2, <2>4, <3>1
  <2> QED
    BY <1>2, <2>5
<1>8. CASE ChildCancelled(k)
  <2>1. cancelled'
    BY <1>8 DEF ChildCancelled, faultVars
  <2> QED
    BY <1>2, <2>1
<1>9. ASSUME NEW state, NEW status, NEW label, NodeEnd(k, state, status, label),
             cancelled' = cancelled, status = "succeeded" => state = "returned"
      PROVE  JoinKept'
  <2>1. /\ task[k].state = "executing" /\ visited' = visited
        /\ step' = [step EXCEPT ![batch[k]] = status]
        /\ task' = [task EXCEPT ![k].state = state]
        /\ branch' = [branch EXCEPT ![batch[k]] = label]
    BY <1>9 DEF NodeEnd
  <2>2. /\ \A j \in DOMAIN task : j # k => task'[j] = task[j]
        /\ task'[k].state = state /\ step'[batch[k]] = status
    BY <1>0, <2>1 DEF Task
  <2>3. ASSUME NEW n \in NodeIds(wf), JoinReady(n)'
        PROVE  n \in visited' \/ Queued(n) \/ Ahead(n)' \/ Created(n)' \/ cancelled'
    <3>1. CASE \E e \in Incoming(n) : e.source = batch[k]
      <4>1. PICK j \in DOMAIN wf.edges : wf.edges[j] \in Incoming(n) /\ wf.edges[j].source = batch[k]
        BY <3>1 DEF Incoming, Edges
      <4>2. wf.edges[j].target = n /\ step'[batch[k]] = "succeeded"
        BY <1>1, <2>3, <4>1 DEF JoinReady, Incoming
      <4>3. task'[k].state = "returned"
        BY <1>9, <2>2, <4>2
      <4> QED
        BY <1>1, <4>1, <4>2, <4>3 DEF Ahead
    <3>2. CASE \A e \in Incoming(n) : e.source # batch[k]
      <4>1. \A e \in Incoming(n) : e.source \in NodeIds(wf)
        BY WorkflowTyped DEF NodesTypeOK, Incoming, Edges
      <4>2. \A e \in Incoming(n) : step'[e.source] = step[e.source] /\ branch'[e.source] = branch[e.source]
        BY <1>0, <2>1, <3>2, <4>1
      <4>3. JoinReady(n)
        BY <1>1, <2>3, <4>2 DEF JoinReady, Incoming, Mismatch
      <4>4. n \in visited \/ Queued(n) \/ Ahead(n) \/ Created(n) \/ cancelled
        BY <1>3, <4>3
      <4>5. ASSUME Created(n) PROVE Created(n)'
        <5>1. PICK i \in DOMAIN batch : batch[i] = n /\ task[i].state = "created"
          BY <4>5 DEF Created
        <5>2. task'[i] = task[i]
          BY <1>0, <2>1, <2>2, <5>1
        <5> QED
          BY <1>1, <5>1, <5>2 DEF Created
      <4> QED
        BY <1>4, <1>9, <2>1, <2>2, <4>4, <4>5
    <3> QED
      BY <3>1, <3>2
  <2> QED
    BY <1>2, <2>3
<1>10. CASE NodeSucceed(k) \/ NodeFail(k) \/ NodeCancel(k)
  <2>1. cancelled' = cancelled
    BY <1>10 DEF NodeSucceed, NodeFail, NodeCancel, NodeEnd, faultVars
  <2> QED
    BY <1>9, <1>10, <2>1 DEF NodeSucceed, NodeFail, NodeCancel
<1> QED
  BY <1>6, <1>7, <1>8, <1>10 DEF NodeStep

\* The edge at the cursor is followed, the others stay ahead.
LEMMA JoinTraverse == IInv /\ JoinInv /\ Traverse => JoinKept'
<1> SUFFICES ASSUME IInv, JoinInv, Traverse PROVE JoinKept'
  OBVIOUS
<1> USE DEF IInv, TypeOK
<1> DEFINE c == cursor[1]
           d == cursor[2]
<1>0. /\ wf \in Workflows /\ step \in [NodeIds(wf) -> StepStatus \ {"interrupted"}]
      /\ queue \in Seq(NodeIds(wf)) /\ batch \in Seq(NodeIds(wf))
      /\ c \in Nat \ {0} /\ d \in Nat \ {0}
      /\ DOMAIN wf.edges = 1..Len(wf.edges) /\ Len(wf.edges) \in Nat
      /\ DOMAIN batch \subseteq Nat
  BY WorkflowTyped DEF NodesTypeOK, BatchTypeOK
<1>1. /\ pc = "traverse" /\ pc' = "traverse" /\ c \in DOMAIN batch
      /\ UNCHANGED <<wf, visited, batch, task, branch>>
      /\ IF d \in DOMAIN wf.edges
         THEN FollowEdge(c, wf.edges[d]) /\ cursor' = <<c, d + 1>>
         ELSE UNCHANGED <<step, queue>> /\ cursor' = <<c + 1, 1>>
  BY DEF Traverse
<1>2. /\ \A m \in NodeIds(wf) : step'[m] = "succeeded" => step[m] = "succeeded"
      /\ \A n : Queued(n) => Queued(n)'
  <2>1. CASE d \in DOMAIN wf.edges
    <3>1. \/ step' = step /\ queue' = queue
          \/ step' = [step EXCEPT ![wf.edges[d].target] = "skipped"] /\ queue' = queue
          \/ step' = step /\ queue' = Append(queue, wf.edges[d].target)
      BY <1>1, <2>1, FollowEdgeCases
    <3>2. CASE queue' = queue
      BY <1>0, <3>1, <3>2 DEF Queued
    <3>3. CASE step' = step /\ queue' = Append(queue, wf.edges[d].target)
      <4>1. wf.edges[d].target \in NodeIds(wf)
        BY <1>0, <2>1, WorkflowTyped
      <4>2. \A i \in DOMAIN queue : i \in DOMAIN queue' /\ queue'[i] = queue[i]
        BY <1>0, <3>3, <4>1
      <4> QED
        BY <3>3, <4>2 DEF Queued
    <3> QED
      BY <3>1, <3>2, <3>3
  <2>2. CASE d \notin DOMAIN wf.edges
    BY <1>1, <2>2 DEF Queued
  <2> QED
    BY <2>1, <2>2
<1>3. \A n \in NodeIds(wf) : JoinReady(n)' => JoinReady(n)
  BY <1>1, <1>2, ReadyBefore
<1>4. ASSUME NEW n \in NodeIds(wf), JoinReady(n), Ahead(n) PROVE n \in visited \/ Queued(n)' \/ Ahead(n)'
  <2>1. PICK k \in DOMAIN batch, j \in DOMAIN wf.edges :
          /\ wf.edges[j].source = batch[k] /\ wf.edges[j].target = n
          /\ task[k].state = "returned"
          /\ k > c \/ (k = c /\ j >= d)
    BY <1>1, <1>4 DEF Ahead
  <2>2. CASE k = c /\ j = d
    <3>1. FollowEdge(k, wf.edges[j])
      BY <1>1, <2>2
    <3>2. wf.edges[j] \in Incoming(n)
      BY <2>1 DEF Incoming, Edges
    <3>3. ~Mismatch(branch[batch[k]], wf.edges[j])
      BY <1>4, <2>1, <3>2 DEF JoinReady
    <3>4. DependenciesComplete(n, step)
      BY <1>4 DEF JoinReady, DependenciesComplete
    <3>5. queue' = IF n \notin visited /\ \A i \in DOMAIN queue : queue[i] # n
                   THEN Append(queue, n) ELSE queue
      BY <2>1, <3>1, <3>3, <3>4 DEF FollowEdge
    <3>6. CASE n \notin visited /\ \A i \in DOMAIN queue : queue[i] # n
      <4>1. queue' = Append(queue, n)
        BY <3>5, <3>6
      <4>2. Len(queue) + 1 \in DOMAIN queue' /\ queue'[Len(queue) + 1] = n
        BY <1>0, <4>1
      <4> QED
        BY <4>2 DEF Queued
    <3> QED
      BY <1>2, <3>6 DEF Queued
  <2>3. CASE ~(k = c /\ j = d)
    <3>1. k > cursor'[1] \/ (k = cursor'[1] /\ j >= cursor'[2])
      <4>1. CASE d \in DOMAIN wf.edges
        BY <1>0, <1>1, <2>1, <2>3, <4>1
      <4>2. CASE d \notin DOMAIN wf.edges
        BY <1>0, <1>1, <2>1, <2>3, <4>2
      <4> QED
        BY <4>1, <4>2
    <3> QED
      BY <1>1, <2>1, <3>1 DEF Ahead
  <2> QED
    BY <2>2, <2>3
<1>5. ASSUME NEW n \in NodeIds(wf), JoinReady(n)'
      PROVE  n \in visited' \/ Queued(n)' \/ Ahead(n)'
  <2>1. n \in visited \/ Queued(n) \/ Ahead(n)
    BY <1>1, <1>3, <1>5 DEF JoinInv, JoinKept
  <2> QED
    BY <1>1, <1>2, <1>3, <1>4, <1>5, <2>1
<1> QED
  BY <1>1, <1>5 DEF JoinKept

\* The other steps only move on.
LEMMA JoinMoves ==
  ASSUME IInv, VerdictInv, JoinInv, [Next]_vars,
         ~(EnterTraversal \/ StartBatch \/ Traverse \/ \E k \in DOMAIN batch : NodeStep(k))
  PROVE  JoinKept'
<1> USE DEF IInv, TypeOK
<1>0. wf \in Workflows /\ step \in [NodeIds(wf) -> StepStatus \ {"interrupted"}]
      /\ batch \in Seq(NodeIds(wf)) /\ DOMAIN task = DOMAIN batch
  BY DEF NodesTypeOK, BatchTypeOK
<1>1. CASE Finally
  <2>1. /\ pc = "finally" /\ pc' = "final_update" /\ wf' = wf /\ final' = final /\ branch' = branch
        /\ step' = [n \in NodeIds(wf) |-> SettledStatus(step[n])]
    BY <1>1 DEF Finally
  <2>2. \A m \in NodeIds(wf) : step'[m] = "succeeded" <=> step[m] = "succeeded"
    BY <1>0, <2>1 DEF SettledStatus
  <2>3. \A n \in NodeIds(wf) : JoinReady(n)' => JoinReady(n)
    BY <2>1, <2>2, ReadyBefore
  <2> QED
    BY <2>1, <2>2, <2>3 DEF JoinInv, JoinKept
<1>2. CASE ~Finally
  <2> DEFINE Same == UNCHANGED <<wf, nodeVars, queue, batch, task>>
  <2>1. Same
    BY <1>2 DEF Next, Engine, InitialUpdate, EmitStarted, GatherDone, BatchUpdate,
           CheckFailed, CheckPassed, FailUpdate, ReturnFailed, TraverseDone, QueueEmpty,
           FinalUpdate, EmitTerminal, DeliverCancel, RequestCancel, StoreError, Crash, Sweep,
           vars, batchVars
  <2>2. \A n : (JoinReady(n)' <=> JoinReady(n)) /\ (Queued(n)' <=> Queued(n))
    BY <2>1 DEF JoinReady, Incoming, Queued, nodeVars
  <2>3. visited' = visited /\ step' = step /\ wf' = wf
    BY <2>1 DEF nodeVars
  <2>4. CASE pc' \in {"init_update", "emit_started", "started", "fail_update", "failed", "aborted", "crashed"}
    BY <2>4 DEF JoinKept
  <2>5. CASE GatherDone \/ BatchUpdate
    <3>1. /\ ~cancelled /\ pc' \in {"update", "check"}
          /\ \/ pc = "gather" /\ \A k \in DOMAIN task : Finished(task[k])
             \/ pc = "update"
      BY <2>5 DEF GatherDone, BatchUpdate
    <3>2. ASSUME NEW n, pc = "gather" PROVE ~Created(n)
      BY <1>0, <3>1, <3>2 DEF Created, Finished
    <3>3. \A n : Ahead(n) => Ahead(n)'
      BY <2>1, <3>1 DEF Ahead
    <3>4. \A n \in NodeIds(wf) : JoinReady(n) => n \in visited \/ Queued(n) \/ Ahead(n)
      BY <3>1, <3>2 DEF JoinInv, JoinKept
    <3> QED
      BY <2>2, <2>3, <3>1, <3>3, <3>4 DEF JoinKept
  <2>6. CASE CheckPassed
    <3>1. pc = "check" /\ pc' = "traverse" /\ cursor' = <<1, 1>>
      BY <2>6 DEF CheckPassed
    <3>2. ASSUME NEW n, Ahead(n) PROVE Ahead(n)'
      <4>1. PICK k \in DOMAIN batch, j \in DOMAIN wf.edges :
              /\ wf.edges[j].source = batch[k] /\ wf.edges[j].target = n
              /\ task[k].state = "returned"
        BY <3>2 DEF Ahead
      <4>2. k > 1 \/ (k = 1 /\ j >= 1)
        BY <1>0, WorkflowTyped DEF NodesTypeOK
      <4> QED
        BY <2>1, <3>1, <4>1, <4>2 DEF Ahead
    <3>3. \A n \in NodeIds(wf) : JoinReady(n) => n \in visited \/ Queued(n) \/ Ahead(n)
      BY <3>1 DEF JoinInv, JoinKept
    <3> QED
      BY <2>2, <2>3, <3>1, <3>2, <3>3 DEF JoinKept
  <2>7. CASE TraverseDone
    <3>1. pc = "traverse" /\ pc' = "loop" /\ cursor[1] \notin DOMAIN batch
      BY <2>7 DEF TraverseDone
    <3>2. \A n : ~Ahead(n)
      BY <1>0, <3>1 DEF Ahead, BatchTypeOK
    <3>3. \A n \in NodeIds(wf) : JoinReady(n) => n \in visited \/ Queued(n)
      BY <3>1, <3>2 DEF JoinInv, JoinKept
    <3> QED
      BY <2>2, <2>3, <3>1, <3>3 DEF JoinKept
  <2>8. CASE QueueEmpty
    <3>1. pc = "loop" /\ queue = <<>> /\ pc' = "finally"
      BY <2>8 DEF QueueEmpty
    <3>2. \A n \in NodeIds(wf) : JoinReady(n) => n \in visited
      BY <3>1 DEF JoinInv, JoinKept, Queued
    <3>3. \A n \in visited : step[n] = "succeeded"
      BY <3>1 DEF PhaseInv, VisitedSucceeded
    <3> QED
      BY <2>2, <2>3, <3>1, <3>2, <3>3 DEF JoinKept
  <2>9. CASE ReturnFailed
    <3>1. pc = "failed" /\ pc' = "finally" /\ final' = final
      BY <2>9 DEF ReturnFailed
    <3>2. final # "succeeded"
      BY <3>1 DEF VerdictInv, RecordFollows
    <3> QED
      BY <3>1, <3>2 DEF JoinKept
  <2>10. CASE FinalUpdate \/ EmitTerminal
    <3>1. /\ pc \in {"final_update", "emit_terminal"} /\ pc' \in {"emit_terminal", "done"}
          /\ final' = final
      BY <2>10 DEF FinalUpdate, EmitTerminal
    <3> QED
      BY <2>2, <2>3, <3>1 DEF JoinInv, JoinKept
  <2>11. CASE DeliverCancel \/ StoreError
    <3>1. pc' = "aborted" \/ (pc' = "finally" /\ final' # "succeeded")
      BY <2>11 DEF DeliverCancel, StoreError
    <3> QED
      BY <3>1 DEF JoinKept
  <2>12. CASE RequestCancel
    <3>1. pc' = pc /\ final' = final /\ cursor' = cursor /\ cancelled'
      BY <2>12 DEF RequestCancel, batchVars
    <3>2. \A n : (Ahead(n)' <=> Ahead(n)) /\ (Created(n)' <=> Created(n))
      BY <2>1, <3>1 DEF Ahead, Created
    <3> QED
      BY <2>2, <2>3, <3>1, <3>2 DEF JoinInv, JoinKept
  <2>13. CASE UNCHANGED vars
    <3>1. pc' = pc /\ final' = final /\ cursor' = cursor /\ cancelled' = cancelled
      BY <2>13 DEF vars, batchVars, faultVars
    <3>2. \A n : (Ahead(n)' <=> Ahead(n)) /\ (Created(n)' <=> Created(n))
      BY <2>1, <3>1 DEF Ahead, Created
    <3> QED
      BY <2>2, <2>3, <3>1, <3>2 DEF JoinInv, JoinKept
  <2>14. CASE InitialUpdate \/ EmitStarted \/ CheckFailed \/ FailUpdate \/ Crash \/ Sweep
    <3>1. pc' \in {"emit_started", "started", "fail_update", "failed", "crashed"}
      BY <2>14 DEF InitialUpdate, EmitStarted, CheckFailed, FailUpdate, Crash, Sweep
    <3> QED
      BY <2>4, <3>1
  <2> QED
    BY <1>2, <2>5, <2>6, <2>7, <2>8, <2>9, <2>10, <2>11, <2>12, <2>13, <2>14 DEF Next, Engine
<1> QED
  BY <1>1, <1>2

LEMMA JoinInvariant == Spec => []JoinInv
<1>1. IInv /\ VerdictInv /\ JoinInv /\ [Next]_vars => JoinInv'
  BY NothingRunStep, QueueDistinctStep, JoinBatch, JoinTask, JoinTraverse, JoinMoves DEF JoinInv
<1> QED
  BY <1>1, JoinInit, IInvariant, VerdictInvariant, PTL DEF Spec

\* A run that succeeds has executed every node its predecessors lead to.
THEOREM NoJoinLost == Spec => []NoLostJoin
<1>1. IInv /\ JoinInv => NoLostJoin
  <2> SUFFICES ASSUME IInv, JoinInv, pc = "done", final = "succeeded" PROVE NoLostJoin
    BY DEF NoLostJoin
  <2> QED
    BY DEF JoinInv, JoinKept, JoinReady, NoLostJoin
<1> QED
  BY <1>1, IInvariant, JoinInvariant, PTL

-----------------------------------------------------------------------------
(* Every run comes to an end *)

\* A gather has at least one task.
GatherStarts == pc = "gather" => \E k \in DOMAIN task : task[k].state # "dropped"

\* The places of a run, the last ones lowest.
Stage ==
  IF pc \in Ended THEN IF record.status = "running" THEN 1 ELSE 0
  ELSE [init_update |-> 10, emit_started |-> 9, started |-> 8,
        loop |-> 7, gather |-> 7, update |-> 7, check |-> 7, traverse |-> 7,
        fail_update |-> 6, failed |-> 5, finally |-> 4, final_update |-> 3,
        emit_terminal |-> 2][pc]

\* No node of the batch has been started.
Fresh == \A k \in DOMAIN task : task[k].state \in {"dropped", "created", "cancelled"}

\* From the first start of a batch to the first start of the next one.
Round ==
  IF pc = "gather" THEN IF Fresh THEN 0 ELSE 5
  ELSE IF pc = "update" THEN 4 ELSE IF pc = "check" THEN 3
  ELSE IF pc = "traverse" THEN 2 ELSE IF pc = "loop" THEN 1 ELSE 0

Open == {k \in DOMAIN task : ~Finished(task[k])}
Attempts == {ka \in (DOMAIN task) \X (1..(Retries[wf] + 1)) : task[ka[1]].attempt < ka[2]}

\* What is left of a run: the faults that may still come or are on their way,
\* its places, the nodes not visited, the round, and within a round the open
\* tasks and their attempts, or the results and the edges to go through.
Troubles == 2 * (MaxFaults[wf] - faults) + (IF cancelled THEN 1 ELSE 0)
Unvisited == Cardinality(NodeIds(wf) \ visited)
Width ==
  IF pc = "gather" THEN Cardinality(Open)
  ELSE IF pc = "traverse" THEN Left(cursor[1], Len(batch))
  ELSE IF pc = "loop" /\ queue # <<>> THEN 1 ELSE 0
Depth ==
  IF pc = "gather" THEN Cardinality(Attempts)
  ELSE IF pc = "traverse" THEN Left(cursor[2], Len(wf.edges)) ELSE 0

WorkLeft == <<Troubles, Stage, Unvisited, Round, Width, Depth>>

LEMMA GatherStartsStep == TypeOK /\ GatherStarts /\ [Next]_vars => GatherStarts'
<1> SUFFICES ASSUME TypeOK, GatherStarts, [Next]_vars, pc' = "gather"
             PROVE  \E k \in DOMAIN task' : task'[k].state # "dropped"
  BY DEF GatherStarts
<1>1. CASE StartBatch
  <2>1. PICK k \in DOMAIN queue : NewTask(k).state = "created" BY <1>1 DEF StartBatch
  <2>2. queue \in Seq(NodeIds(wf)) BY DEF TypeOK, BatchTypeOK
  <2>3. task' = [j \in 1..Len(queue) |-> NewTask(j)] BY <1>1 DEF StartBatch
  <2>4. k \in DOMAIN task' /\ task'[k] = NewTask(k) BY <2>1, <2>2, <2>3
  <2> QED BY <2>1, <2>4
<1>2. CASE \E k \in DOMAIN batch : NodeStep(k)
  <2>1. PICK k \in DOMAIN batch : NodeStep(k) BY <1>2
  <2>2. task \in [DOMAIN batch -> Task] BY DEF TypeOK, BatchTypeOK
  <2>3. pc = "gather" /\ DOMAIN task' = DOMAIN task
    BY <2>1, <2>2 DEF NodeStep, NodeStart, NodeRetry, NodeSucceed, NodeFail, NodeCancel, NodeEnd,
                      ChildCancelled
  <2>4. PICK j \in DOMAIN task : task[j].state # "dropped" BY <2>3 DEF GatherStarts
  <2>5. task'[j].state = task[j].state \/ task'[j].state \in TaskState \ {"dropped"}
    <3>1. task[j] \in Task BY <2>2, <2>4
    <3> QED
      BY <2>1, <2>2, <3>1 DEF NodeStep, NodeStart, NodeRetry, NodeSucceed, NodeFail, NodeCancel,
                              NodeEnd, ChildCancelled, Task, TaskState
  <2> QED BY <2>3, <2>4, <2>5
<1>3. CASE UNCHANGED <<pc, task>> BY <1>3 DEF GatherStarts
<1> QED
  BY <1>1, <1>2, <1>3 DEF Next, Engine, InitialUpdate, EmitStarted, EnterTraversal, GatherDone,
     BatchUpdate, CheckFailed, CheckPassed, FailUpdate, ReturnFailed, Traverse, TraverseDone,
     QueueEmpty, Finally, FinalUpdate, EmitTerminal, DeliverCancel, RequestCancel, StoreError, Crash,
     Sweep, Prologue, Body, Epilogue, vars, nodeVars, batchVars, outVars, faultVars

LEMMA WorkFinite ==
  ASSUME TypeOK
  PROVE  /\ IsFiniteSet(NodeIds(wf)) /\ IsFiniteSet(DOMAIN task)
         /\ IsFiniteSet(Open) /\ IsFiniteSet(Attempts)
         /\ MaxFaults[wf] \in Nat /\ Retries[wf] \in Nat /\ faults \in 0..MaxFaults[wf]
         /\ Len(wf.edges) \in Nat /\ DOMAIN wf.edges = 1..Len(wf.edges)
         /\ Len(batch) \in Nat /\ DOMAIN batch = 1..Len(batch) /\ DOMAIN task = DOMAIN batch
         /\ cursor \in (Nat \ {0}) \X (Nat \ {0})
         /\ pc \in Prologue \cup Body \cup Epilogue \cup Synchronous \cup Ended
         /\ cancelled \in BOOLEAN
<1>1. wf \in Workflows BY DEF TypeOK, NodesTypeOK
<1>2. wf.nodes \in Seq(NodeIds(wf)) /\ wf.edges \in Seq(Edge) BY <1>1, WorkflowTyped
<1>3. IsFiniteSet(NodeIds(wf))
  <2>1. DOMAIN wf.nodes = 1..Len(wf.nodes) /\ Len(wf.nodes) \in Nat BY <1>2
  <2>2. IsFiniteSet(DOMAIN wf.nodes) BY <2>1, FS_Interval
  <2>3. wf.nodes \in Surjection(DOMAIN wf.nodes, NodeIds(wf))
    BY <1>2, <2>1 DEF NodeIds, Surjection
  <2> QED BY <2>2, <2>3, FS_Surjection
<1>4. batch \in Seq(NodeIds(wf)) /\ DOMAIN task = DOMAIN batch BY DEF TypeOK, BatchTypeOK
<1>5. IsFiniteSet(DOMAIN task)
  <2>1. DOMAIN task = 1..Len(batch) /\ Len(batch) \in Nat BY <1>4
  <2> QED BY <2>1, FS_Interval
<1>6. IsFiniteSet(Open) BY <1>5, FS_Subset DEF Open
<1>7. MaxFaults[wf] \in Nat /\ Retries[wf] \in Nat BY <1>1, BoundsAssumption
<1>8. IsFiniteSet(Attempts)
  <2>1. IsFiniteSet(1..(Retries[wf] + 1)) BY <1>7, FS_Interval
  <2>2. IsFiniteSet((DOMAIN task) \X (1..(Retries[wf] + 1))) BY <1>5, <2>1, FS_Product
  <2> QED BY <2>2, FS_Subset DEF Attempts
<1> QED
  BY <1>2, <1>3, <1>4, <1>5, <1>6, <1>7, <1>8 DEF TypeOK, BatchTypeOK, ControlTypeOK

\* Fewer members, a smaller number.
LEMMA FewerMembers ==
  ASSUME NEW S, IsFiniteSet(S), NEW T, T \subseteq S, NEW x \in S, x \notin T
  PROVE  Cardinality(T) < Cardinality(S)
<1>1. T # S OBVIOUS
<1>2. Cardinality(T) <= Cardinality(S) /\ Cardinality(T) # Cardinality(S) /\ IsFiniteSet(T)
  BY <1>1, FS_Subset
<1>3. Cardinality(T) \in Nat /\ Cardinality(S) \in Nat BY <1>2, FS_CardinalityType
<1> QED BY <1>2, <1>3

LEMMA WorkTyped ==
  ASSUME TypeOK
  PROVE  /\ Troubles \in Nat /\ Stage \in Nat /\ Unvisited \in Nat
         /\ Round \in Nat /\ Width \in Nat /\ Depth \in Nat
         /\ WorkLeft \in Ranks(6)
<1>1. Troubles \in Nat
  <2>1. MaxFaults[wf] - faults \in Nat BY WorkFinite
  <2> QED BY <2>1 DEF Troubles
<1>2. Stage \in Nat
  BY WorkFinite DEF Stage, Prologue, Body, Epilogue, Synchronous, Ended
<1>3. Unvisited \in Nat
  <2>1. IsFiniteSet(NodeIds(wf) \ visited) BY WorkFinite, FS_Subset
  <2> QED BY <2>1, FS_CardinalityType DEF Unvisited
<1>4. Round \in Nat BY DEF Round
<1>5. \A a, b \in Nat : Left(a, b) \in Nat BY DEF Left
<1>6. cursor[1] \in Nat /\ cursor[2] \in Nat /\ Len(batch) \in Nat /\ Len(wf.edges) \in Nat
  BY WorkFinite
<1>7. Cardinality(Open) \in Nat /\ Cardinality(Attempts) \in Nat
  BY WorkFinite, FS_CardinalityType
<1>8. Width \in Nat BY <1>5, <1>6, <1>7 DEF Width
<1>9. Depth \in Nat BY <1>5, <1>6, <1>7 DEF Depth
<1> QED BY <1>1, <1>2, <1>3, <1>4, <1>8, <1>9 DEF WorkLeft, Ranks

\* The first part that changes gets smaller.
LEMMA WorkLower ==
  ASSUME \/ Troubles' < Troubles
         \/ /\ Troubles' = Troubles
            /\ \/ Stage' < Stage
               \/ /\ Stage' = Stage
                  /\ \/ Unvisited' < Unvisited
                     \/ /\ Unvisited' = Unvisited
                        /\ \/ Round' < Round
                           \/ /\ Round' = Round
                              /\ Width' < Width \/ (Width' = Width /\ Depth' < Depth)
  PROVE  Lower(WorkLeft', WorkLeft)
<1>1. DOMAIN WorkLeft = 1..6 BY DEF WorkLeft
<1>2. /\ WorkLeft[1] = Troubles /\ WorkLeft[2] = Stage /\ WorkLeft[3] = Unvisited
      /\ WorkLeft[4] = Round /\ WorkLeft[5] = Width /\ WorkLeft[6] = Depth
      /\ WorkLeft'[1] = Troubles' /\ WorkLeft'[2] = Stage' /\ WorkLeft'[3] = Unvisited'
      /\ WorkLeft'[4] = Round' /\ WorkLeft'[5] = Width' /\ WorkLeft'[6] = Depth'
  BY DEF WorkLeft
<1> QED BY <1>1, <1>2 DEF Lower

LEMMA FaultsFall ==
  ASSUME TypeOK, RequestCancel \/ DeliverCancel \/ StoreError \/ Crash
  PROVE  Troubles' < Troubles
<1>1. /\ MaxFaults[wf] \in Nat /\ faults \in 0..MaxFaults[wf] /\ wf' = wf /\ cancelled \in BOOLEAN
  BY WorkFinite DEF RequestCancel, DeliverCancel, StoreError, Crash
<1>2. PICK m \in Nat : m = MaxFaults[wf] BY <1>1
<1>3. PICK f \in 0..m : f = faults BY <1>1, <1>2
<1>4. CASE DeliverCancel
  BY <1>1, <1>2, <1>3, <1>4 DEF DeliverCancel, Troubles
<1>5. CASE RequestCancel
  BY <1>1, <1>2, <1>3, <1>5 DEF RequestCancel, Troubles
<1>6. CASE StoreError
  BY <1>1, <1>2, <1>3, <1>6 DEF StoreError, Troubles
<1>7. CASE Crash
  BY <1>1, <1>2, <1>3, <1>7 DEF Crash, Troubles
<1> QED BY <1>4, <1>5, <1>6, <1>7

\* The steps that leave a place for good.
Moves ==
  \/ InitialUpdate \/ EmitStarted \/ EnterTraversal \/ CheckFailed \/ FailUpdate \/ ReturnFailed
  \/ QueueEmpty \/ Finally \/ FinalUpdate \/ EmitTerminal \/ Sweep

LEMMA MovesFall == ASSUME Moves PROVE Stage' < Stage
<1>1. CASE InitialUpdate BY <1>1 DEF InitialUpdate, Stage, Ended
<1>2. CASE EmitStarted BY <1>2 DEF EmitStarted, Stage, Ended
<1>3. CASE EnterTraversal BY <1>3 DEF EnterTraversal, Stage, Ended
<1>4. CASE CheckFailed BY <1>4 DEF CheckFailed, Stage, Ended
<1>5. CASE FailUpdate BY <1>5 DEF FailUpdate, Stage, Ended
<1>6. CASE ReturnFailed BY <1>6 DEF ReturnFailed, Stage, Ended
<1>7. CASE QueueEmpty BY <1>7 DEF QueueEmpty, Stage, Ended
<1>8. CASE Finally BY <1>8 DEF Finally, Stage, Ended
<1>9. CASE FinalUpdate BY <1>9 DEF FinalUpdate, Stage, Ended
<1>10. CASE EmitTerminal BY <1>10 DEF EmitTerminal, Stage, Ended
<1>11. CASE Sweep BY <1>11 DEF Sweep, Stage, Ended
<1> QED
  BY <1>1, <1>2, <1>3, <1>4, <1>5, <1>6, <1>7, <1>8, <1>9, <1>10, <1>11 DEF Moves

\* A batch is handed over, and its edges are gone through.
LEMMA BatchFalls ==
  ASSUME IInv, GatherStarts, GatherDone \/ BatchUpdate \/ CheckPassed \/ TraverseDone
  PROVE  Stage' = Stage /\ Round' < Round
<1>1. CASE GatherDone
  <2>1. PICK k \in DOMAIN task : task[k].state # "dropped"
    BY <1>1 DEF GatherDone, GatherStarts
  <2>2. task[k].state \notin {"created", "executing"} BY <1>1 DEF GatherDone, Finished
  <2>3. task[k].state # "cancelled"
    BY <1>1 DEF GatherDone, IInv, PhaseInv, ChildrenCancelled
  <2>4. ~Fresh BY <2>1, <2>2, <2>3 DEF Fresh
  <2> QED BY <1>1, <2>4 DEF GatherDone, Round, Stage, Ended
<1>2. CASE BatchUpdate BY <1>2 DEF BatchUpdate, Round, Stage, Ended
<1>3. CASE CheckPassed BY <1>3 DEF CheckPassed, Round, Stage, Ended
<1>4. CASE TraverseDone BY <1>4 DEF TraverseDone, Round, Stage, Ended
<1> QED BY <1>1, <1>2, <1>3, <1>4

\* A batch is started: fresh, or nothing of the queue was left to do.
LEMMA StartFalls ==
  ASSUME IInv, StartBatch
  PROVE  /\ Stage' = Stage
         /\ Round' < Round \/ (Round' = Round /\ Width' < Width)
<1>0. pc = "loop" /\ queue # <<>> /\ Round = 1 /\ Width = 1 /\ Stage = 7
  BY DEF StartBatch, Round, Width, Stage, Ended
<1>1. CASE pc' = "gather"
  <2>1. task' = [k \in 1..Len(queue) |-> NewTask(k)] BY DEF StartBatch
  <2>2. \A k \in DOMAIN task' : task'[k].state \in {"created", "dropped"} BY <2>1 DEF NewTask
  <2>3. Fresh' BY <2>2 DEF Fresh
  <2> QED BY <1>0, <1>1, <2>3 DEF Round, Stage, Ended
<1>2. CASE pc' # "gather"
  <2>1. pc' = "loop" /\ queue' = <<>> BY <1>2 DEF StartBatch
  <2> QED BY <1>0, <2>1 DEF Round, Width, Stage, Ended
<1> QED BY <1>1, <1>2

\* The first step of a task visits one more node.
LEMMA StartNodeFalls ==
  ASSUME IInv, NEW k \in DOMAIN batch, NodeStart(k)
  PROVE  Stage' = Stage /\ Unvisited' < Unvisited
<1>1. TypeOK /\ TaskSteps BY DEF IInv, NodeInv
<1>2. DOMAIN task = DOMAIN batch /\ batch \in Seq(NodeIds(wf)) BY <1>1 DEF TypeOK, BatchTypeOK
<1>3. batch[k] \in NodeIds(wf) /\ batch[k] \notin visited
  BY <1>1, <1>2 DEF NodeStart, TaskSteps
<1>4. wf' = wf /\ visited' = visited \cup {batch[k]} BY DEF NodeStart
<1>5. IsFiniteSet(NodeIds(wf) \ visited) BY <1>1, WorkFinite, FS_Subset
<1>6. Cardinality(NodeIds(wf) \ (visited \cup {batch[k]})) < Cardinality(NodeIds(wf) \ visited)
  BY <1>3, <1>5, FewerMembers
<1> QED BY <1>4, <1>6 DEF Unvisited, NodeStart, Stage, Ended

\* A task ends.
LEMMA EndFalls ==
  ASSUME IInv, NEW k \in DOMAIN batch, NEW s \in {"returned", "raised", "wfcancelled"},
         NEW status, NEW label, NodeEnd(k, s, status, label)
  PROVE  Stage' = Stage /\ Unvisited' = Unvisited /\ Round' = Round /\ Width' < Width
<1>1. TypeOK BY DEF IInv
<1>2. DOMAIN task = DOMAIN batch /\ task \in [DOMAIN batch -> Task]
  BY <1>1 DEF TypeOK, BatchTypeOK
<1>3. /\ pc = "gather" /\ pc' = "gather" /\ wf' = wf /\ visited' = visited
      /\ task[k].state = "executing" /\ task' = [task EXCEPT ![k].state = s]
  BY DEF NodeEnd
<1>4. /\ DOMAIN task' = DOMAIN task /\ task'[k].state = s
      /\ \A j \in DOMAIN task : j # k => task'[j] = task[j]
  BY <1>2, <1>3 DEF Task
<1>5. ~Fresh /\ ~Fresh' BY <1>2, <1>3, <1>4 DEF Fresh
<1>6. Open' \subseteq Open /\ k \in Open /\ k \notin Open'
  BY <1>2, <1>3, <1>4 DEF Open, Finished
<1>7. Cardinality(Open') < Cardinality(Open) BY <1>1, <1>6, WorkFinite, FewerMembers
<1> QED BY <1>3, <1>5, <1>7 DEF Stage, Ended, Unvisited, Round, Width

\* A cancellation reaches a task.
LEMMA ChildFalls ==
  ASSUME IInv, NEW k \in DOMAIN batch, ChildCancelled(k)
  PROVE  /\ Stage' = Stage /\ Unvisited' = Unvisited
         /\ Round' < Round \/ (Round' = Round /\ Width' < Width)
<1>1. TypeOK BY DEF IInv
<1>2. DOMAIN task = DOMAIN batch /\ task \in [DOMAIN batch -> Task]
  BY <1>1 DEF TypeOK, BatchTypeOK
<1>3. /\ pc = "gather" /\ pc' = "gather" /\ wf' = wf /\ visited' = visited
      /\ task[k].state \in {"created", "executing"}
      /\ task' = [task EXCEPT ![k].state = "cancelled"]
  BY DEF ChildCancelled, nodeVars
<1>4. /\ DOMAIN task' = DOMAIN task /\ task'[k].state = "cancelled"
      /\ \A j \in DOMAIN task : j # k => task'[j] = task[j]
  BY <1>2, <1>3 DEF Task
<1>5. Fresh => Fresh' BY <1>2, <1>4 DEF Fresh
<1>6. Open' \subseteq Open /\ k \in Open /\ k \notin Open'
  BY <1>2, <1>3, <1>4 DEF Open, Finished
<1>7. Cardinality(Open') < Cardinality(Open) BY <1>1, <1>6, WorkFinite, FewerMembers
<1> QED BY <1>3, <1>5, <1>7 DEF Stage, Ended, Unvisited, Round, Width

\* An attempt is repeated.
LEMMA RetryFalls ==
  ASSUME IInv, NEW k \in DOMAIN batch, NodeRetry(k)
  PROVE  /\ Stage' = Stage /\ Unvisited' = Unvisited /\ Round' = Round /\ Width' = Width
         /\ Depth' < Depth
<1>1. TypeOK BY DEF IInv
<1>2. DOMAIN task = DOMAIN batch /\ task \in [DOMAIN batch -> Task]
  BY <1>1 DEF TypeOK, BatchTypeOK
<1>3. /\ pc = "gather" /\ pc' = "gather" /\ wf' = wf /\ visited' = visited
      /\ task[k].state = "executing" /\ task[k].attempt <= Retries[wf]
      /\ task' = [task EXCEPT ![k].attempt = @ + 1]
  BY DEF NodeRetry, nodeVars
<1>4. PICK a \in Nat : a = task[k].attempt BY <1>2 DEF Task
<1>5. PICK m \in Nat : m = Retries[wf] BY <1>1, WorkFinite
<1>6. /\ DOMAIN task' = DOMAIN task /\ task'[k].state = "executing" /\ task'[k].attempt = a + 1
      /\ \A j \in DOMAIN task : j # k => task'[j] = task[j]
  BY <1>2, <1>3, <1>4 DEF Task
<1>7. ~Fresh /\ ~Fresh' BY <1>2, <1>3, <1>6 DEF Fresh
<1>8. Open' = Open BY <1>2, <1>3, <1>6 DEF Open, Finished
<1>9. Attempts = {ka \in (DOMAIN task) \X (1..(m + 1)) : task[ka[1]].attempt < ka[2]}
  BY <1>5 DEF Attempts
<1>10. Attempts' = {ka \in (DOMAIN task) \X (1..(m + 1)) : task'[ka[1]].attempt < ka[2]}
  BY <1>3, <1>5, <1>6 DEF Attempts
<1>11. Attempts' \subseteq Attempts
  <2> SUFFICES ASSUME NEW j \in DOMAIN task, NEW b \in 1..(m + 1), task'[j].attempt < b
               PROVE  task[j].attempt < b
    BY <1>9, <1>10
  <2>1. CASE j = k BY <2>1, <1>4, <1>6
  <2>2. CASE j # k BY <2>2, <1>6
  <2> QED BY <2>1, <2>2
<1>12. <<k, a + 1>> \in Attempts
  <2>1. k \in DOMAIN task /\ a + 1 \in 1..(m + 1) BY <1>2, <1>3, <1>4, <1>5
  <2> QED BY <2>1, <1>4, <1>9
<1>13. <<k, a + 1>> \notin Attempts' BY <1>6, <1>10
<1>14. Cardinality(Attempts') < Cardinality(Attempts)
  BY <1>1, <1>11, <1>12, <1>13, WorkFinite, FewerMembers
<1> QED BY <1>3, <1>7, <1>8, <1>14 DEF Stage, Ended, Unvisited, Round, Width, Depth

\* One more edge, or one more result.
LEMMA TraverseFalls ==
  ASSUME IInv, Traverse
  PROVE  /\ Stage' = Stage /\ Unvisited' = Unvisited /\ Round' = Round
         /\ Width' < Width \/ (Width' = Width /\ Depth' < Depth)
<1>1. TypeOK BY DEF IInv
<1>2. PICK a, b, m, n \in Nat : /\ a = cursor[1] /\ b = cursor[2]
                                /\ m = Len(batch) /\ n = Len(wf.edges)
  BY <1>1, WorkFinite
<1>3. /\ pc = "traverse" /\ pc' = "traverse" /\ wf' = wf /\ batch' = batch /\ visited' = visited
      /\ a \in 1..m
  BY <1>1, <1>2, WorkFinite DEF Traverse
<1>4. /\ Width = Left(a, m) /\ Depth = Left(b, n)
      /\ Width' = Left(cursor'[1], m) /\ Depth' = Left(cursor'[2], n)
  BY <1>2, <1>3 DEF Width, Depth
<1>5. CASE b \in 1..n
  <2>1. cursor' = <<a, b + 1>> BY <1>1, <1>2, <1>5, WorkFinite DEF Traverse
  <2>2. Left(b + 1, n) < Left(b, n) BY <1>5 DEF Left
  <2> QED BY <1>3, <1>4, <2>1, <2>2 DEF Stage, Ended, Unvisited, Round
<1>6. CASE b \notin 1..n
  <2>1. cursor' = <<a + 1, 1>> BY <1>1, <1>2, <1>6, WorkFinite DEF Traverse
  <2>2. Left(a + 1, m) < Left(a, m) BY <1>3 DEF Left
  <2> QED BY <1>3, <1>4, <2>1, <2>2 DEF Stage, Ended, Unvisited, Round
<1> QED BY <1>5, <1>6

LEMMA WorkStep == IInv /\ GatherStarts /\ Next => Lower(WorkLeft', WorkLeft)
<1> SUFFICES ASSUME IInv, GatherStarts, Next PROVE Lower(WorkLeft', WorkLeft)
  OBVIOUS
<1>1. TypeOK BY DEF IInv
<1>2. CASE RequestCancel \/ DeliverCancel \/ StoreError \/ Crash
  BY <1>1, <1>2, FaultsFall, WorkLower
<1>3. CASE Moves
  <2>1. wf' = wf /\ faults' = faults /\ cancelled' = cancelled
    BY <1>3 DEF Moves, InitialUpdate, EmitStarted, EnterTraversal, CheckFailed, FailUpdate,
       ReturnFailed, QueueEmpty, Finally, FinalUpdate, EmitTerminal, Sweep, faultVars
  <2>2. Troubles' = Troubles BY <2>1 DEF Troubles
  <2> QED BY <1>3, <2>2, MovesFall, WorkLower
<1>4. CASE GatherDone \/ BatchUpdate \/ CheckPassed \/ TraverseDone
  <2>1. wf' = wf /\ faults' = faults /\ cancelled' = cancelled /\ visited' = visited
    BY <1>4 DEF GatherDone, BatchUpdate, CheckPassed, TraverseDone, faultVars, nodeVars
  <2>2. Troubles' = Troubles /\ Unvisited' = Unvisited BY <2>1 DEF Troubles, Unvisited
  <2> QED BY <1>4, <2>2, BatchFalls, WorkLower
<1>5. CASE StartBatch
  <2>1. Troubles' = Troubles /\ Unvisited' = Unvisited
    BY <1>5 DEF Troubles, Unvisited, StartBatch, faultVars, nodeVars
  <2> QED BY <1>5, <2>1, StartFalls, WorkLower
<1>6. CASE Traverse
  <2>1. Troubles' = Troubles BY <1>6 DEF Troubles, Traverse, faultVars
  <2> QED BY <1>6, <2>1, TraverseFalls, WorkLower
<1>7. CASE \E k \in DOMAIN batch : NodeStep(k)
  <2> PICK k \in DOMAIN batch : NodeStep(k) BY <1>7
  <2>1. Troubles' = Troubles
    BY DEF Troubles, NodeStep, NodeStart, NodeRetry, NodeSucceed, NodeFail, NodeCancel, NodeEnd,
       ChildCancelled, faultVars
  <2>2. CASE NodeStart(k) BY <2>1, <2>2, StartNodeFalls, WorkLower
  <2>3. CASE NodeRetry(k) BY <2>1, <2>3, RetryFalls, WorkLower
  <2>4. CASE ChildCancelled(k) BY <2>1, <2>4, ChildFalls, WorkLower
  <2>5. CASE NodeSucceed(k)
    <3>1. PICK label : NodeEnd(k, "returned", "succeeded", label) BY <2>5 DEF NodeSucceed
    <3> QED BY <2>1, <3>1, EndFalls, WorkLower
  <2>6. CASE NodeFail(k) BY <2>1, <2>6, EndFalls, WorkLower DEF NodeFail
  <2>7. CASE NodeCancel(k) BY <2>1, <2>7, EndFalls, WorkLower DEF NodeCancel
  <2> QED BY <2>2, <2>3, <2>4, <2>5, <2>6, <2>7 DEF NodeStep
<1> QED BY <1>2, <1>3, <1>4, <1>5, <1>6, <1>7 DEF Next, Engine, Moves

\* Every step of a run leaves less of it: however nodes fail, are retried and
\* are cancelled, whichever writes fail, and whatever joins and duplicate
\* queue entries the graph has (the while queue loop, the retry loop of a
\* node, the clean-up).  With RanksWellFounded no run goes on for ever, so
\* RunEnds asks only that a run that has not ended can take a step.
THEOREM RunShrinks == Spec => [](WorkLeft \in Ranks(6)) /\ [][Lower(WorkLeft', WorkLeft)]_vars
<1>1. Init => GatherStarts BY DEF Init, GatherStarts
<1>2. IInv /\ GatherStarts /\ [Next]_vars => GatherStarts' BY GatherStartsStep DEF IInv
<1>3. IInv => WorkLeft \in Ranks(6) BY WorkTyped DEF IInv
<1>4. IInv /\ GatherStarts /\ [Next]_vars => [Lower(WorkLeft', WorkLeft)]_vars BY WorkStep
<1> QED BY <1>1, <1>2, <1>3, <1>4, IInvariant, PTL DEF Spec

-----------------------------------------------------------------------------
(* No run is stuck *)

\* The nodes without an incoming edge can be put in order: the k-th one is the
\* one that has k of them up to it.
LEMMA StartQueueExists == ASSUME wf \in Workflows PROVE \E q : IsStartQueue(q)
<1> DEFINE S == StartPositions
           N == Cardinality(S)
           UpTo(i) == {x \in S : x <= i}
           rank == [i \in S |-> Cardinality(UpTo(i))]
<1>1. IsFiniteSet(S) /\ S \subseteq Nat
  <2>1. DOMAIN wf.nodes = 1..Len(wf.nodes) /\ Len(wf.nodes) \in Nat BY WorkflowTyped
  <2>2. IsFiniteSet(1..Len(wf.nodes)) BY <2>1, FS_Interval
  <2>3. S \subseteq 1..Len(wf.nodes) BY <2>1 DEF StartPositions
  <2>4. IsFiniteSet(S) BY <2>2, <2>3, FS_Subset
  <2> QED BY <2>1, <2>3, <2>4
<1> HIDE DEF S
<1>2. N \in Nat BY <1>1, FS_CardinalityType
<1>3. ASSUME NEW i \in S PROVE IsFiniteSet(UpTo(i)) /\ rank[i] \in 1..N
  <2>1. IsFiniteSet(UpTo(i)) /\ Cardinality(UpTo(i)) <= N BY <1>1, FS_Subset
  <2>2. i \in UpTo(i) BY <1>1
  <2>3. Cardinality(UpTo(i)) \in Nat /\ Cardinality(UpTo(i)) # 0
    BY <2>1, <2>2, FS_CardinalityType, FS_EmptySet
  <2>4. rank[i] = Cardinality(UpTo(i)) OBVIOUS
  <2> HIDE DEF rank, N
  <2> QED BY <1>2, <2>1, <2>3, <2>4
<1>4. ASSUME NEW i \in S, NEW j \in S, i < j PROVE rank[i] < rank[j]
  <2>1. UpTo(i) \subseteq UpTo(j) /\ j \in UpTo(j) /\ j \notin UpTo(i)
    <3>1. i \in Nat /\ j \in Nat /\ \A x \in S : x \in Nat BY <1>1
    <3>2. \A x \in S : x <= i => x <= j BY <1>4, <3>1
    <3>3. j <= j /\ ~(j <= i) BY <1>4, <3>1
    <3> QED BY <3>2, <3>3
  <2>2. Cardinality(UpTo(i)) < Cardinality(UpTo(j)) BY <1>3, <2>1, FewerMembers
  <2> QED BY <2>2
<1>5. rank \in [S -> 1..N] BY <1>3
<1> HIDE DEF rank, N
<1>6. rank \in Injection(S, 1..N)
  <2>1. ASSUME NEW i \in S, NEW j \in S, rank[i] = rank[j] PROVE i = j
    <3>1. i \in Nat /\ j \in Nat /\ rank[i] \in Nat /\ rank[j] \in Nat BY <1>1, <1>5
    <3>2. ~(i < j) /\ ~(j < i) BY <1>4, <2>1, <3>1
    <3> QED BY <3>1, <3>2
  <2> QED BY <1>5, <2>1 DEF Injection, IsInjective
<1>7. rank \in Surjection(S, 1..N)
  <2>1. IsFiniteSet(1..N) /\ Cardinality(1..N) = N BY <1>2, FS_Interval
  <2> QED BY <1>1, <1>6, <2>1, FS_Injection DEF N
<1> DEFINE at == [k \in 1..N |-> CHOOSE i \in S : rank[i] = k]
<1>8. ASSUME NEW k \in 1..N PROVE at[k] \in S /\ rank[at[k]] = k
  BY <1>7 DEF Surjection
<1>9. at \in [1..N -> S] BY <1>8
<1>10. ASSUME NEW k \in 1..N, NEW l \in 1..N, k < l PROVE at[k] < at[l]
  <2>1. at[k] \in Nat /\ at[l] \in Nat BY <1>1, <1>8
  <2>2. at[k] # at[l] /\ ~(at[l] < at[k])
    <3>1. rank[at[k]] = k /\ rank[at[l]] = l BY <1>8
    <3>2. at[l] < at[k] => rank[at[l]] < rank[at[k]] BY <1>4, <1>8
    <3> HIDE DEF at
    <3> QED BY <1>2, <1>10, <3>1, <3>2
  <2> HIDE DEF at
  <2> QED BY <2>1, <2>2
<1> HIDE DEF at
<1>11. IsStartQueue([i \in DOMAIN at |-> wf.nodes[at[i]]])
  BY <1>9, <1>10 DEF IsStartQueue, S, N
<1> QED BY <1>11

\* Of the bad results of a batch one is the first.
LEMMA FirstBadExists ==
  ASSUME TypeOK, NEW k \in DOMAIN task, task[k].state \in {"raised", "wfcancelled"}
  PROVE  \E j \in DOMAIN task : FirstBad(j)
<1> DEFINE L == {ss \in Nat \X Nat : ss[1] < ss[2]}
           S == {j \in DOMAIN task : task[j].state \in {"raised", "wfcancelled"}}
<1>1. IsWellFoundedOn(L, Nat) BY NatLessThanWellFounded, Zenon DEF OpToRel
<1>2. DOMAIN task = 1..Len(batch) /\ Len(batch) \in Nat BY WorkFinite
<1>3. S \subseteq Nat /\ S # {} BY <1>2
<1>4. PICK j \in S : \A y \in S : ~ (<<y, j>> \in L)
  <2> HIDE DEF S, L
  <2> QED BY <1>1, <1>3, WFMin
<1>5. \A i \in 1..(j - 1) : i \in DOMAIN task /\ <<i, j>> \in L BY <1>2, <1>4
<1>6. \A i \in 1..(j - 1) : task[i].state \notin {"raised", "wfcancelled"} BY <1>4, <1>5
<1> QED BY <1>4, <1>6 DEF FirstBad

\* The guard of a step of the engine or of one of its tasks holds.
Ready ==
  \/ cancelled /\ pc \in Prologue \cup Body \cup Epilogue
       /\ (pc = "gather" => \A k \in DOMAIN task : Finished(task[k]))
  \/ ~cancelled /\ pc \in {"init_update", "emit_started", "update", "fail_update", "failed",
                           "final_update", "emit_terminal"}
  \/ ~cancelled /\ pc = "started" /\ \E q : IsStartQueue(q)
  \/ ~cancelled /\ pc = "gather" /\ \A k \in DOMAIN task : Finished(task[k])
  \/ ~cancelled /\ pc = "check" /\ \E k \in DOMAIN task : FirstBad(k)
  \/ ~cancelled /\ pc = "check" /\ \A k \in DOMAIN task : task[k].state \notin {"raised", "wfcancelled"}
  \/ pc = "gather" /\ \E k \in DOMAIN batch : task[k].state \in {"created", "executing"}
  \/ pc \in Synchronous

\* A run that has not ended always has a step to take: a gather waits for a
\* task that is not over or is over itself, a batch with a bad result has a
\* first one, and the start nodes can be listed (the awaits of execute()).
THEOREM RunReady == Spec => [](pc \notin Ended => Ready)
<1>1. TypeOK => (pc \notin Ended => Ready)
  <2> SUFFICES ASSUME TypeOK, pc \notin Ended PROVE Ready OBVIOUS
  <2>1. pc \in Prologue \cup Body \cup Epilogue \cup Synchronous /\ DOMAIN task = DOMAIN batch
    BY WorkFinite
  <2>2. CASE pc = "gather"
    BY <2>1, <2>2 DEF Ready, Finished, Body
  <2>3. CASE pc = "check" BY <2>3, FirstBadExists DEF Ready, Body
  <2>4. CASE pc = "started"
    <3>1. \E q : IsStartQueue(q) BY StartQueueExists DEF TypeOK, NodesTypeOK
    <3> QED BY <2>4, <3>1 DEF Ready, Prologue
  <2>5. CASE pc \notin {"gather", "check", "started"}
    BY <2>1, <2>5 DEF Ready, Prologue, Body, Epilogue
  <2> QED BY <2>2, <2>3, <2>4, <2>5
<1> QED BY <1>1, TypeCorrect, PTL

=============================================================================
