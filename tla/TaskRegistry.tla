---------------------------- MODULE TaskRegistry ----------------------------
(***************************************************************************)
(* A background CLI task of core/task_registry.py: the create_task tool,   *)
(* the runner TaskRegistry._run_cli_task with its subprocess, and          *)
(* concurrent calls of stop_task.  Tasks do not meet: each has its own     *)
(* field of the hash ninko:core:tasks and its own handle in _live.         *)
(*                                                                         *)
(* The runner and every stop_task work on a copy of the record they have   *)
(* read and write it back as a whole.  cancel() is delivered at the        *)
(* runner's next await.                                                    *)
(***************************************************************************)
EXTENDS Naturals

CONSTANTS
  Stopper,    \* slots for calls of stop_task
  MaxStops,   \* bound on these calls
  MaxFaults   \* bound on crashes and failing Redis calls

ASSUME TaskAssumption == MaxStops \in Nat /\ MaxFaults \in Nat

VARIABLES
  store,     \* the record in Redis
  live,      \* the handle in _live: none, with the task only, with the process
  pc,        \* the await the runner is at
  local,     \* the runner's copy of the record
  signalled, \* cancel() was called on the runner and not yet delivered
  process,   \* the subprocess: none, running, or how it exited
  stop,      \* what each stop_task is doing, and its copy of the record
  stops, faults,
  \* History, read by the properties only:
  cut,       \* the runner ended without having saved a verdict
  outlived   \* a stop_task has given up waiting for the process

registry == <<store, live>>
runner == <<pc, local, signalled>>
bounds == <<stops, faults>>
history == <<cut, outlived>>
vars == <<store, live, pc, local, signalled, process, stop, stops, faults, cut, outlived>>

Terminal == {"completed", "failed", "stopped"}
Status == {"none", "created", "running"} \cup Terminal
Exited == {"success", "failure"}

Record == [status : Status, finished : BOOLEAN]
NoRecord == [status |-> "none", finished |-> FALSE]

\* What a call of stop_task is doing, with its copy of the record.
StopCall == [pc : {"idle", "decide", "wait", "save"}, copy : Record]
Idle == [pc |-> "idle", copy |-> NoRecord]

Init ==
  /\ store = NoRecord /\ live = "none"
  /\ pc = "idle" /\ local = NoRecord /\ signalled = FALSE
  /\ process = "none"
  /\ stop = [s \in Stopper |-> Idle]
  /\ stops = 0 /\ faults = 0
  /\ cut = FALSE /\ outlived = FALSE

-----------------------------------------------------------------------------
(* create_task, _run_cli_task *)

Create ==
  /\ pc = "idle"
  /\ store' = [status |-> "created", finished |-> FALSE]
  /\ pc' = "created"
  /\ UNCHANGED <<live, local, signalled, process, stop, bounds, history>>

\* start_cli_task: the handle has no process yet.
Start ==
  /\ pc = "created"
  /\ live' = "task" /\ pc' = "begin"
  /\ UNCHANGED <<store, local, signalled, process, stop, bounds, history>>

\* The runner reads the record, whatever its status is by now.
ReadTask ==
  /\ pc = "begin" /\ ~signalled
  /\ local' = [store EXCEPT !.status = "running"]
  /\ pc' = "save"
  /\ UNCHANGED <<registry, signalled, process, stop, bounds, history>>

SaveRunning ==
  /\ pc = "save"
  /\ store' = local /\ pc' = "spawn"
  /\ UNCHANGED <<live, local, signalled, process, stop, bounds, history>>

Spawn ==
  /\ pc = "spawn" /\ ~signalled
  /\ process' = "running" /\ live' = "process" /\ pc' = "communicate"
  /\ UNCHANGED <<store, local, signalled, stop, bounds, history>>

\* create_subprocess_exec raises before the try block.
SpawnFails ==
  /\ pc = "spawn"
  /\ pc' = "ended" /\ cut' = TRUE
  /\ UNCHANGED <<registry, local, signalled, process, stop, bounds, outlived>>

\* The process exits by itself or because of a SIGTERM.
Exit(result) ==
  /\ process = "running"
  /\ process' = result
  /\ UNCHANGED <<registry, runner, stop, bounds, history>>

\* Mutant: the status is only set for a process that succeeded.
CommunicatedMutant ==
  /\ pc = "communicate" /\ process \in Exited /\ ~signalled
  /\ local' = [status |-> IF process = "success" THEN "completed" ELSE local.status,
               finished |-> TRUE]
  /\ pc' = "save_final"
  /\ UNCHANGED <<registry, signalled, process, stop, bounds, history>>

\* communicate() returns; the finally clause goes on to the last save.
Communicated ==
  /\ pc = "communicate" /\ process \in Exited /\ ~signalled
  /\ local' = [status |-> IF process = "success" THEN "completed" ELSE "failed",
               finished |-> TRUE]
  /\ pc' = "save_final"
  /\ UNCHANGED <<registry, signalled, process, stop, bounds, history>>

\* communicate() raises CancelledError: the finally clause saves the copy
\* with its finished_at, and with the status it had.
CancelledInside ==
  /\ pc = "communicate" /\ signalled
  /\ signalled' = FALSE
  /\ local' = [local EXCEPT !.finished = TRUE]
  /\ pc' = "save_final" /\ cut' = TRUE
  /\ UNCHANGED <<registry, process, stop, bounds, outlived>>

\* A cancellation at any other await ends the runner; in create_subprocess_exec
\* it takes the new process with it.
CancelledOutside ==
  /\ pc \in {"begin", "save", "spawn", "save_final"} /\ signalled
  /\ signalled' = FALSE /\ pc' = "ended" /\ cut' = TRUE
  /\ UNCHANGED <<registry, local, process, stop, bounds, outlived>>

SaveFinal ==
  /\ pc = "save_final"
  /\ store' = local /\ pc' = "ended"
  /\ UNCHANGED <<live, local, signalled, process, stop, bounds, history>>

\* The done callback: _finalize_handle.  It swallows a cancellation and an
\* OSError of the runner, not a Redis error: then the handle stays in _live.
Finalize ==
  /\ pc = "ended" /\ live # "none"
  /\ live' = "none"
  /\ UNCHANGED <<store, runner, process, stop, bounds, history>>

-----------------------------------------------------------------------------
(* stop_task *)

StopGoes(s, l) == stop' = [stop EXCEPT ![s] = l]

\* A terminal record is refused.
StopRead(s) ==
  /\ stop[s].pc = "idle" /\ stops < MaxStops
  /\ store.status \in Status \ (Terminal \cup {"none"})
  /\ stops' = stops + 1
  /\ StopGoes(s, [pc |-> "decide", copy |-> store])
  /\ UNCHANGED <<registry, runner, process, faults, history>>

\* cancel() on a runner that is not done; the handle may have none.
CancelRunner ==
  signalled' = (signalled \/ (live # "none" /\ pc \notin {"ended", "raised"}))

\* Mutant: the runner is cancelled before the process is told to end.
StopDecideMutant(s) ==
  /\ stop[s].pc = "decide"
  /\ StopGoes(s, [stop[s] EXCEPT !.pc = "save"]) /\ CancelRunner
  /\ UNCHANGED <<registry, pc, local, process, bounds, history>>

\* A running process is sent SIGTERM and waited for.
StopDecide(s) ==
  /\ stop[s].pc = "decide"
  /\ IF live = "process" /\ process = "running"
       THEN StopGoes(s, [stop[s] EXCEPT !.pc = "wait"]) /\ UNCHANGED signalled
       ELSE StopGoes(s, [stop[s] EXCEPT !.pc = "save"]) /\ CancelRunner
  /\ UNCHANGED <<registry, pc, local, process, bounds, history>>

\* The process has exited, or five seconds have passed.
StopWaited(s) ==
  /\ stop[s].pc = "wait"
  /\ outlived' = (outlived \/ process = "running")
  /\ StopGoes(s, [stop[s] EXCEPT !.pc = "save"]) /\ CancelRunner
  /\ UNCHANGED <<registry, pc, local, process, bounds, cut>>

\* Mutant: finished_at is left to the runner.
StopSaveMutant(s) ==
  /\ stop[s].pc = "save"
  /\ store' = [stop[s].copy EXCEPT !.status = "stopped"]
  /\ StopGoes(s, Idle)
  /\ UNCHANGED <<live, runner, process, bounds, history>>

StopSave(s) ==
  /\ stop[s].pc = "save"
  /\ store' = [status |-> "stopped", finished |-> TRUE]
  /\ StopGoes(s, Idle)
  /\ UNCHANGED <<live, runner, process, bounds, history>>

-----------------------------------------------------------------------------
(* Faults *)

\* A Redis call of the runner fails: nothing catches it, not even in finally.
StoreError ==
  /\ pc \in {"begin", "save", "save_final"}
  /\ faults < MaxFaults /\ faults' = faults + 1
  /\ pc' = "raised" /\ cut' = TRUE
  /\ UNCHANGED <<registry, local, signalled, process, stop, stops, outlived>>

\* A Redis call of stop_task fails.
StopError(s) ==
  /\ stop[s].pc \in {"decide", "save"}
  /\ faults < MaxFaults /\ faults' = faults + 1
  /\ StopGoes(s, Idle)
  /\ UNCHANGED <<registry, runner, process, stops, history>>

\* The backend dies, and the process with its pipes.  Nothing sweeps the
\* records at the next start.
Crash ==
  /\ pc \notin {"idle", "crashed"}
  /\ faults < MaxFaults /\ faults' = faults + 1
  /\ pc' = "crashed" /\ cut' = TRUE /\ signalled' = FALSE
  /\ live' = "none"
  /\ process' = IF process = "running" THEN "failure" ELSE process
  /\ stop' = [s \in Stopper |-> Idle]
  /\ UNCHANGED <<store, local, stops, outlived>>

-----------------------------------------------------------------------------

Runner ==
  \/ Create \/ Start \/ ReadTask \/ SaveRunning \/ Spawn \/ SpawnFails
  \/ Communicated \/ CancelledInside \/ CancelledOutside \/ SaveFinal \/ Finalize
Stop(s) == StopRead(s) \/ StopDecide(s) \/ StopWaited(s) \/ StopSave(s)
Faults == StoreError \/ Crash \/ \E s \in Stopper : StopError(s)

Next ==
  \/ Runner
  \/ \E result \in Exited : Exit(result)
  \/ \E s \in Stopper : Stop(s)
  \/ Faults

Spec == Init /\ [][Next]_vars

\* asyncio runs what is ready and Redis answers.  Nothing makes a process exit
\* or a user stop it.
Fairness ==
  /\ WF_vars(Runner)
  /\ \A s \in Stopper : WF_vars(StopDecide(s) \/ StopWaited(s) \/ StopSave(s))
FairSpec == Spec /\ Fairness

-----------------------------------------------------------------------------
(* Properties *)

TypeOK ==
  /\ store \in Record /\ local \in Record
  /\ live \in {"none", "task", "process"}
  /\ pc \in {"idle", "created", "begin", "save", "spawn", "communicate", "save_final",
             "ended", "raised", "crashed"}
  /\ signalled \in BOOLEAN
  /\ process \in {"none", "running"} \cup Exited
  /\ stop \in [Stopper -> StopCall]
  /\ stops \in 0..MaxStops /\ faults \in 0..MaxFaults
  /\ cut \in BOOLEAN /\ outlived \in BOOLEAN

\* A running process has a runner that reads its output and will save its
\* verdict, however many stop_task calls race with its start and its end.
\* Only a process that ignores SIGTERM for five seconds loses it.
ProcessWatched == process = "running" => pc = "communicate" \/ outlived

\* A record that still claims an open task once the runner is gone is the trace
\* of a cancelled or failed runner, never of one that came to its end: whatever
\* stop_task calls wrote over it, a verdict stays a verdict.
OpenExplained ==
  pc \in {"ended", "raised", "crashed"} /\ store.status \notin Terminal => cut

\* Once the process has exited the record gets its finished_at, through
\* whichever of the runner and the stop_task calls comes last; only a fault
\* can prevent it.
Settles == process \in Exited ~> (store.finished \/ faults > 0)

=============================================================================
