------------------------------ MODULE AgentJobs ------------------------------
(***************************************************************************)
(* AgentJobManager (backend/core/agent_jobs.py): one-shot background runs  *)
(* of an agent, their record in Redis, and cancel requests racing with     *)
(* them.  Each job is one request (start_job) followed by one asyncio task *)
(* (_run_job); pc[j] names the await that job is at.  Each canceller is a  *)
(* request inside cancel_job.  A coroutine is only interrupted at awaits:  *)
(* task.cancel() sets signalled[j] and CancelledError is raised when the   *)
(* task is next scheduled.                                                 *)
(***************************************************************************)
EXTENDS Naturals, Sequences

CONSTANTS
  Job,         \* job ids
  Canceller,   \* concurrent cancel_job requests
  IndexSize,   \* MAX_JOBS_PER_AGENT
  MaxCancels,  \* bound: calls of cancel_job
  MaxFaults    \* bound: crashes, shutdowns and failing Redis writes

ASSUME IndexAssumption == IndexSize \in Nat \ {0}
ASSUME BoundsAssumption == MaxCancels \in Nat /\ MaxFaults \in Nat

Terminal == {"succeeded", "failed", "cancelled"}
Status == {"none", "pending", "running"} \cup Terminal
Reason == {"none", "completed", "approval_required", "cancelled", "failed"}
Entry == [status : Status, reason : Reason]
NoEntry == [status |-> "none", reason |-> "none"]
Pending == [status |-> "pending", reason |-> "none"]
Running == [status |-> "running", reason |-> "none"]
Failed == [status |-> "failed", reason |-> "failed"]
Cancelled == [status |-> "cancelled", reason |-> "cancelled"]

Starting == {"lpush", "ltrim"}
\* The awaits in the try block of _run_job, and those of _finalize.
InTry == {"persist_running", "emit_started", "agent", "discard"}
InFinalize == {"persist_final", "emit_terminal", "publish"}
JobPc == {"idle", "created", "done"} \cup Starting \cup InTry \cup InFinalize

VARIABLES
  store,      \* the record of each job in Redis
  index,      \* the job index of the agent, newest first
  running,    \* _running: jobs with a task not yet reaped by its callback
  local,      \* the job dict each task works on
  pc,         \* where each job is
  signalled,  \* jobs whose task has an undelivered cancel()
  cpc,        \* where each cancel request is
  target,     \* the job each cancel request is about
  snapshot,   \* the record each cancel request has read
  events,     \* the agent events emitted for each job
  stopping,   \* shutdown() has been called
  cancels, faults,  \* how many cancel requests and faults there were
  touched,    \* history: jobs whose task was ever cancelled
  promised,   \* history: jobs a signalling cancel_job answered "cancelled" for
  caught,     \* history: jobs that took the CancelledError branch
  cut,        \* history: jobs whose _finalize was interrupted
  hit         \* history: jobs a crash or a failing write has hit

jobVars == <<local, pc, signalled, caught, cut>>
cancelVars == <<cpc, target, snapshot>>
boundVars == <<cancels, faults>>
vars == <<store, index, running, jobVars, cancelVars, events, stopping,
          boundVars, touched, promised, hit>>

Init ==
  /\ store = [j \in Job |-> NoEntry]
  /\ index = <<>>
  /\ running = {}
  /\ local = [j \in Job |-> NoEntry]
  /\ pc = [j \in Job |-> "idle"]
  /\ signalled = {}
  /\ cpc = [c \in Canceller |-> "idle"]
  /\ target \in [Canceller -> Job]
  /\ snapshot = [c \in Canceller |-> NoEntry]
  /\ events = [j \in Job |-> <<>>]
  /\ stopping = FALSE
  /\ cancels = 0 /\ faults = 0
  /\ touched = {} /\ promised = {} /\ caught = {} /\ cut = {} /\ hit = {}

Goto(j, next) == pc' = [pc EXCEPT ![j] = next]

Emit(j, type) == events' = [events EXCEPT ![j] = Append(@, type)]

-----------------------------------------------------------------------------
(* start_job: the record, the index, then the task.                        *)

StartPersist(j) ==
  /\ pc[j] = "idle" /\ ~stopping
  /\ store' = [store EXCEPT ![j] = Pending]
  /\ local' = [local EXCEPT ![j] = Pending]
  /\ Goto(j, "lpush")
  /\ UNCHANGED <<index, running, signalled, caught, cut, cancelVars, events, stopping,
                 boundVars, touched, promised, hit>>

StartIndex(j) ==
  /\ pc[j] = "lpush"
  /\ index' = <<j>> \o index
  /\ Goto(j, "ltrim")
  /\ UNCHANGED <<store, running, local, signalled, caught, cut, cancelVars, events,
                 stopping, boundVars, touched, promised, hit>>

\* Mutant: the task is not entered in _running.
StartTaskMutant(j) ==
  /\ pc[j] = "ltrim"
  /\ index' = SubSeq(index, 1, IF Len(index) < IndexSize THEN Len(index) ELSE IndexSize)
  /\ Goto(j, "created")
  /\ UNCHANGED <<store, running, local, signalled, caught, cut, cancelVars, events,
                 stopping, boundVars, touched, promised, hit>>

\* ltrim, then without a further await create_task and _running[job_id].
StartTask(j) ==
  /\ pc[j] = "ltrim"
  /\ index' = SubSeq(index, 1, IF Len(index) < IndexSize THEN Len(index) ELSE IndexSize)
  /\ running' = running \cup {j}
  /\ Goto(j, "created")
  /\ UNCHANGED <<store, local, signalled, caught, cut, cancelVars, events, stopping,
                 boundVars, touched, promised, hit>>

-----------------------------------------------------------------------------
(* _run_job and _finalize.                                                 *)

Step(j, at) == pc[j] = at /\ j \notin signalled

TaskBegin(j) ==
  /\ Step(j, "created")
  /\ local' = [local EXCEPT ![j] = Running]
  /\ Goto(j, "persist_running")
  /\ UNCHANGED <<store, index, running, signalled, caught, cut, cancelVars, events,
                 stopping, boundVars, touched, promised, hit>>

PersistRunning(j) ==
  /\ Step(j, "persist_running")
  /\ store' = [store EXCEPT ![j] = local[j]]
  /\ Goto(j, "emit_started")
  /\ UNCHANGED <<index, running, local, signalled, caught, cut, cancelVars, events,
                 stopping, boundVars, touched, promised, hit>>

EmitStarted(j) ==
  /\ Step(j, "emit_started")
  /\ Emit(j, "started")
  /\ Goto(j, "agent")
  /\ UNCHANGED <<store, index, running, local, signalled, caught, cut, cancelVars,
                 stopping, boundVars, touched, promised, hit>>

\* The agent answers within JOB_TIMEOUT_SECONDS, or wait_for gives up, or it
\* raises; an approval nobody can give here is discarded first.
AgentEnds(j) ==
  /\ Step(j, "agent")
  /\ \E e \in {[status |-> "succeeded", reason |-> "completed"], Failed, Cancelled} :
       local' = [local EXCEPT ![j] = e]
  /\ Goto(j, "persist_final")
  /\ UNCHANGED <<store, index, running, signalled, caught, cut, cancelVars, events,
                 stopping, boundVars, touched, promised, hit>>

AgentWantsApproval(j) ==
  /\ Step(j, "agent")
  /\ local' = [local EXCEPT ![j].reason = "approval_required"]
  /\ Goto(j, "discard")
  /\ UNCHANGED <<store, index, running, signalled, caught, cut, cancelVars, events,
                 stopping, boundVars, touched, promised, hit>>

\* Mutant: the status is left as it was.
DiscardApprovalNoStatus(j) ==
  /\ Step(j, "discard")
  /\ Goto(j, "persist_final")
  /\ UNCHANGED <<store, index, running, local, signalled, caught, cut, cancelVars,
                 events, stopping, boundVars, touched, promised, hit>>

DiscardApproval(j) ==
  /\ Step(j, "discard")
  /\ local' = [local EXCEPT ![j].status = "failed"]
  /\ Goto(j, "persist_final")
  /\ UNCHANGED <<store, index, running, signalled, caught, cut, cancelVars, events,
                 stopping, boundVars, touched, promised, hit>>

PersistFinal(j) ==
  /\ Step(j, "persist_final")
  /\ store' = [store EXCEPT ![j] = local[j]]
  /\ Goto(j, "emit_terminal")
  /\ UNCHANGED <<index, running, local, signalled, caught, cut, cancelVars, events,
                 stopping, boundVars, touched, promised, hit>>

TerminalEvent(reason) == IF reason \in {"none", "failed"} THEN "failed" ELSE reason

\* Mutant: every outcome but completed is announced as failed.
EmitTerminalMutant(j) ==
  /\ Step(j, "emit_terminal")
  /\ Emit(j, IF local[j].reason = "completed" THEN "completed" ELSE "failed")
  /\ Goto(j, "publish")
  /\ UNCHANGED <<store, index, running, local, signalled, caught, cut, cancelVars,
                 stopping, boundVars, touched, promised, hit>>

EmitTerminal(j) ==
  /\ Step(j, "emit_terminal")
  /\ Emit(j, TerminalEvent(local[j].reason))
  /\ Goto(j, "publish")
  /\ UNCHANGED <<store, index, running, local, signalled, caught, cut, cancelVars,
                 stopping, boundVars, touched, promised, hit>>

\* Mutant: the publication is repeated until Redis takes it, which it never does.
PublishMutant(j) == Step(j, "publish") /\ UNCHANGED vars

\* agent_job_finished; a failure to publish is only logged.
Publish(j) ==
  /\ Step(j, "publish")
  /\ Goto(j, "done")
  /\ UNCHANGED <<store, index, running, local, signalled, caught, cut, cancelVars,
                 events, stopping, boundVars, touched, promised, hit>>

Signalled(j) == j \in signalled /\ signalled' = signalled \ {j}

\* Mutant: the try block does not turn the exception into a cancelled job.
CatchCancelMutant(j) ==
  /\ pc[j] \in InTry /\ Signalled(j)
  /\ caught' = caught \cup {j}
  /\ Goto(j, "persist_final")
  /\ UNCHANGED <<store, index, running, local, cut, cancelVars, events, stopping,
                 boundVars, touched, promised, hit>>

\* CancelledError in the try block makes it a cancelled job.
CatchCancel(j) ==
  /\ pc[j] \in InTry /\ Signalled(j)
  /\ local' = [local EXCEPT ![j] = Cancelled]
  /\ caught' = caught \cup {j}
  /\ Goto(j, "persist_final")
  /\ UNCHANGED <<store, index, running, cut, cancelVars, events, stopping, boundVars,
                 touched, promised, hit>>

\* A coroutine never entered does not run at all, and _finalize is cut short.
CancelledOutside(j) ==
  /\ pc[j] \in {"created"} \cup InFinalize /\ Signalled(j)
  /\ cut' = cut \cup (IF pc[j] \in InFinalize THEN {j} ELSE {})
  /\ Goto(j, "done")
  /\ UNCHANGED <<store, index, running, local, caught, cancelVars, events, stopping,
                 boundVars, touched, promised, hit>>

\* The done callback, scheduled after the task has ended.
Reap(j) ==
  /\ pc[j] = "done" /\ j \in running
  /\ running' = running \ {j}
  /\ UNCHANGED <<store, index, jobVars, cancelVars, events, stopping, boundVars,
                 touched, promised, hit>>

JobStep(j) ==
  \/ StartIndex(j) \/ StartTask(j)
  \/ TaskBegin(j) \/ PersistRunning(j) \/ EmitStarted(j)
  \/ AgentEnds(j) \/ AgentWantsApproval(j) \/ DiscardApproval(j)
  \/ PersistFinal(j) \/ EmitTerminal(j) \/ Publish(j)
  \/ CatchCancel(j) \/ CancelledOutside(j) \/ Reap(j)

-----------------------------------------------------------------------------
(* cancel_job.                                                             *)

\* A client knows a job from list_jobs or from the answer of start_job.
Known(j) ==
  \/ \E i \in DOMAIN index : index[i] = j
  \/ pc[j] \notin {"idle"} \cup Starting

CancelRead(c, j) ==
  /\ cpc[c] = "idle" /\ ~stopping
  /\ cancels < MaxCancels
  /\ Known(j)
  /\ store[j].status \notin {"none"} \cup Terminal
  /\ cancels' = cancels + 1
  /\ cpc' = [cpc EXCEPT ![c] = "decide"]
  /\ target' = [target EXCEPT ![c] = j]
  /\ snapshot' = [snapshot EXCEPT ![c] = store[j]]
  /\ UNCHANGED <<store, index, running, jobVars, events, stopping, faults,
                 touched, promised, hit>>

\* task.cancel() has no effect on a task that is already over.
Signal(S) ==
  /\ signalled' = signalled \cup {j \in S : pc[j] # "done"}
  /\ touched' = touched \cup S

CancelSignal(c) ==
  /\ cpc[c] = "decide" /\ target[c] \in running
  /\ Signal({target[c]})
  /\ promised' = promised \cup {target[c]}
  /\ cpc' = [cpc EXCEPT ![c] = "idle"]
  /\ UNCHANGED <<store, index, running, local, pc, caught, cut, target, snapshot, events,
                 stopping, boundVars, hit>>

\* Mutant: the record is written back as it was read.
CancelDirectMutant(c) ==
  /\ cpc[c] = "decide" /\ target[c] \notin running
  /\ cpc' = [cpc EXCEPT ![c] = "persist"]
  /\ UNCHANGED <<store, index, running, jobVars, target, snapshot, events, stopping,
                 boundVars, touched, promised, hit>>

CancelDirect(c) ==
  /\ cpc[c] = "decide" /\ target[c] \notin running
  /\ snapshot' = [snapshot EXCEPT ![c] = Cancelled]
  /\ cpc' = [cpc EXCEPT ![c] = "persist"]
  /\ UNCHANGED <<store, index, running, jobVars, target, events, stopping,
                 boundVars, touched, promised, hit>>

CancelPersist(c) ==
  /\ cpc[c] = "persist"
  /\ store' = [store EXCEPT ![target[c]] = snapshot[c]]
  /\ cpc' = [cpc EXCEPT ![c] = "emit"]
  /\ UNCHANGED <<index, running, jobVars, target, snapshot, events, stopping,
                 boundVars, touched, promised, hit>>

CancelEmit(c) ==
  /\ cpc[c] = "emit"
  /\ Emit(target[c], TerminalEvent(snapshot[c].reason))
  /\ cpc' = [cpc EXCEPT ![c] = "idle"]
  /\ UNCHANGED <<store, index, running, jobVars, target, snapshot, stopping,
                 boundVars, touched, promised, hit>>

CancelStep(c) ==
  CancelSignal(c) \/ CancelDirect(c) \/ CancelPersist(c) \/ CancelEmit(c)

-----------------------------------------------------------------------------
(* Faults and the end of the process.                                      *)

\* A SET, LPUSH or LTRIM raises: start_job fails, or _finalize is lost.
StoreError(j) ==
  /\ faults < MaxFaults
  /\ pc[j] \in Starting \cup {"persist_final"} /\ j \notin signalled
  /\ faults' = faults + 1
  /\ hit' = hit \cup {j}
  /\ Goto(j, "done")
  /\ UNCHANGED <<store, index, running, local, signalled, caught, cut, cancelVars, events,
                 stopping, cancels, touched, promised>>

\* The SET of the running record raises: the try block makes it a failed job.
BeginError(j) ==
  /\ faults < MaxFaults
  /\ Step(j, "persist_running")
  /\ faults' = faults + 1
  /\ hit' = hit \cup {j}
  /\ local' = [local EXCEPT ![j] = Failed]
  /\ Goto(j, "persist_final")
  /\ UNCHANGED <<store, index, running, signalled, caught, cut, cancelVars, events,
                 stopping, cancels, touched, promised>>

\* discard_pending_approval raises: caught by the try block.
DiscardError(j) ==
  /\ faults < MaxFaults
  /\ Step(j, "discard")
  /\ faults' = faults + 1
  /\ local' = [local EXCEPT ![j] = Failed]
  /\ Goto(j, "persist_final")
  /\ UNCHANGED <<store, index, running, signalled, caught, cut, cancelVars, events,
                 stopping, cancels, touched, promised, hit>>

\* The process dies and is started again: Redis survives, tasks do not.
Crash ==
  /\ faults < MaxFaults
  /\ faults' = faults + 1
  /\ hit' = hit \cup {j \in Job : pc[j] \notin {"idle", "done"}}
                \cup {target[c] : c \in {x \in Canceller : cpc[x] # "idle"}}
  /\ pc' = [j \in Job |-> IF pc[j] = "idle" THEN "idle" ELSE "done"]
  /\ running' = {} /\ signalled' = {}
  /\ cpc' = [c \in Canceller |-> "idle"]
  /\ stopping' = FALSE
  /\ UNCHANGED <<store, index, local, caught, cut, target, snapshot, events, cancels,
                 touched, promised>>

\* shutdown(): no new requests; every local task is cancelled and awaited.
Shutdown ==
  /\ ~stopping
  /\ \A j \in Job : pc[j] \notin Starting
  /\ \A c \in Canceller : cpc[c] = "idle"
  /\ faults < MaxFaults
  /\ faults' = faults + 1
  /\ stopping' = TRUE
  /\ Signal(running)
  /\ UNCHANGED <<store, index, running, local, pc, caught, cut, cancelVars, events,
                 cancels, promised, hit>>

Next ==
  \/ \E j \in Job : StartPersist(j) \/ JobStep(j)
                   \/ StoreError(j) \/ BeginError(j) \/ DiscardError(j)
  \/ \E c \in Canceller : (\E j \in Job : CancelRead(c, j)) \/ CancelStep(c)
  \/ Crash \/ Shutdown

Spec == Init /\ [][Next]_vars

\* Every ready coroutine is run; an agent run is bounded by wait_for.
Fairness ==
  /\ \A j \in Job : WF_vars(JobStep(j))
  /\ \A c \in Canceller : WF_vars(CancelStep(c))

FairSpec == Spec /\ Fairness

-----------------------------------------------------------------------------
(* Properties.                                                             *)

TypeOK ==
  /\ store \in [Job -> Entry]
  /\ index \in Seq(Job)
  /\ running \subseteq Job
  /\ local \in [Job -> Entry]
  /\ pc \in [Job -> JobPc]
  /\ signalled \subseteq Job
  /\ cpc \in [Canceller -> {"idle", "decide", "persist", "emit"}]
  /\ target \in [Canceller -> Job]
  /\ snapshot \in [Canceller -> Entry]
  /\ events \in [Job -> Seq({"started", "completed", "approval_required",
                             "cancelled", "failed"})]
  /\ stopping \in BOOLEAN
  /\ cancels \in 0..MaxCancels /\ faults \in 0..MaxFaults
  /\ touched \subseteq Job /\ promised \subseteq Job
  /\ caught \subseteq Job /\ cut \subseteq Job /\ hit \subseteq Job

\* A record that stays open although nothing works on the job any more is
\* always the trace of a cancel(), a crash or a failing write: in every other
\* interleaving of requests the finally block closes it.
OrphanExplained ==
  \A j \in Job :
    pc[j] = "done" /\ store[j].status \notin Terminal => j \in touched \cup hit

\* A cancellation the try block caught is what the record ends up saying,
\* unless a second cancel(), a crash or a failing write cut _finalize short:
\* no late write of the job, nor one of a request with a stale copy, hides it.
CaughtCancelRecorded ==
  \A j \in caught \ (hit \cup cut) :
    pc[j] = "done" => store[j].status = "cancelled"

\* Whatever terminal record a job is left with was also announced by the
\* event of that outcome, once no cancel request is under way: the record and
\* the event stream are written by separate awaits, from separate copies.
VerdictAnnounced ==
  \A j \in Job \ (hit \cup cut) :
    /\ pc[j] = "done" /\ store[j].status \in Terminal
    /\ \A c \in Canceller : cpc[c] # "idle" => target[c] # j
    => \E i \in DOMAIN events[j] : events[j][i] = TerminalEvent(store[j].reason)

\* Every job the manager still holds a task for can still be cancelled, and
\* only those: _running and the tasks agree.
RunningHasTask ==
  \A j \in Job :
    /\ pc[j] \in {"created"} \cup InTry \cup InFinalize => j \in running
    /\ j \in running => pc[j] \notin {"idle"} \cup Starting
    /\ j \in signalled => j \in running /\ pc[j] # "done"

\* The records implement what clients are promised about them.
Record == INSTANCE JobRecord WITH status <- [j \in Job |-> store[j].status]
ImplementsRecord == Record!Spec

\* A job that was launched ends, whatever is cancelled when.
JobEnds == \A j \in Job : pc[j] = "created" ~> pc[j] = "done"

-----------------------------------------------------------------------------
(* A statement of the sources the code does not keep.                     *)

\* agent_jobs.py: after running.cancel() "_run_job persists the cancelled
\* status in the CancelledError path", so the answer "cancelled" comes true.
CancelPromiseKept ==
  \A j \in promised \ hit : pc[j] = "done" => store[j].status = "cancelled"
=============================================================================
