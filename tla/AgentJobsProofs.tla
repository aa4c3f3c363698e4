---------------------------- MODULE AgentJobsProofs ----------------------------
(***************************************************************************)
(* Proofs about AgentJobs for every set of jobs and cancel requests and    *)
(* every bound: types, the safety properties of the record, and that the   *)
(* records implement JobRecord.  IInv is the inductive invariant.          *)
(***************************************************************************)
EXTENDS AgentJobs, TLAPS

\* How far the record of a job has come, given where the job is.
RecordStage ==
  \A j \in Job :
    /\ pc[j] = "idle" <=> store[j].status = "none"
    /\ pc[j] \in Starting \cup {"created", "persist_running"} =>
         store[j].status \in {"pending", "cancelled"}
    /\ pc[j] \in {"emit_started", "agent", "discard"} =>
         store[j].status \in {"running", "cancelled"}
    /\ pc[j] = "persist_final" => store[j].status \in {"pending", "running", "cancelled"}
    /\ pc[j] \in {"emit_terminal", "publish"} => store[j].status \in Terminal

\* What the job is about to write.
LocalStage ==
  \A j \in Job :
    /\ pc[j] = "persist_running" => local[j].status = "running"
    /\ pc[j] = "persist_final" =>
         /\ local[j].status \in Terminal
         /\ local[j].status = "succeeded" => store[j].status # "pending"

\* A cancel request is about an existing record and writes one thing only.
CancelStage ==
  \A c \in Canceller :
    /\ cpc[c] # "idle" => pc[target[c]] # "idle"
    /\ cpc[c] \in {"persist", "emit"} => snapshot[c] = Cancelled

\* Only a task that was cancelled has an undelivered cancel().
SignalsTouched == signalled \subseteq touched

\* A caught cancellation is on its way to the record, or there.
CaughtStage ==
  \A j \in caught \ (hit \cup cut) :
    /\ pc[j] \in InFinalize \cup {"done"}
    /\ pc[j] = "persist_final" => local[j] = Cancelled
    /\ pc[j] # "persist_final" => store[j].status = "cancelled"

\* The event has been emitted for the job.
Announced(j, type) == \E i \in DOMAIN events[j] : events[j][i] = type

\* A terminal record was announced, or its writer is about to do so.
AnnouncedStage ==
  \A j \in Job \ (hit \cup cut) :
    store[j].status \in Terminal =>
      \/ Announced(j, TerminalEvent(store[j].reason))
      \/ store[j] = Cancelled /\ \E c \in Canceller : cpc[c] = "emit" /\ target[c] = j
      \/ store[j] = local[j] /\ pc[j] = "emit_terminal"

\* The inductive invariant without the types: the properties and what they rest on.
Inv ==
  /\ RunningHasTask /\ RecordStage /\ LocalStage /\ CancelStage
  /\ SignalsTouched /\ OrphanExplained /\ CaughtStage /\ AnnouncedStage

\* Every step of the requests, the tasks and the environment keeps the types.
LEMMA TypeNext == TypeOK /\ [Next]_vars => TypeOK'
<1> SUFFICES ASSUME TypeOK, [Next]_vars PROVE TypeOK'
  OBVIOUS
<1> USE DEF TypeOK, jobVars, cancelVars, boundVars, Goto, Emit, Step, Entry, Status,
            Terminal, Reason, Pending, Running, Failed, Cancelled, JobPc, Starting,
            InTry, InFinalize
<1>1. ASSUME NEW j \in Job, StartPersist(j) PROVE TypeOK'
  BY <1>1 DEF StartPersist
<1>2. ASSUME NEW j \in Job, StartIndex(j) PROVE TypeOK'
  BY <1>2 DEF StartIndex
<1>3. ASSUME NEW j \in Job, StartTask(j) PROVE TypeOK'
  BY <1>3, IndexAssumption DEF StartTask
<1>4. ASSUME NEW j \in Job, TaskBegin(j) PROVE TypeOK'
  BY <1>4 DEF TaskBegin
<1>5. ASSUME NEW j \in Job, PersistRunning(j) PROVE TypeOK'
  BY <1>5 DEF PersistRunning
<1>6. ASSUME NEW j \in Job, EmitStarted(j) PROVE TypeOK'
  BY <1>6 DEF EmitStarted
<1>7. ASSUME NEW j \in Job, AgentEnds(j) PROVE TypeOK'
  BY <1>7 DEF AgentEnds
<1>8. ASSUME NEW j \in Job, AgentWantsApproval(j) PROVE TypeOK'
  BY <1>8 DEF AgentWantsApproval
<1>9. ASSUME NEW j \in Job, DiscardApproval(j) PROVE TypeOK'
  BY <1>9 DEF DiscardApproval
<1>10. ASSUME NEW j \in Job, PersistFinal(j) PROVE TypeOK'
  BY <1>10 DEF PersistFinal
<1>11. ASSUME NEW j \in Job, EmitTerminal(j) PROVE TypeOK'
  BY <1>11 DEF EmitTerminal, TerminalEvent
<1>12. ASSUME NEW j \in Job, Publish(j) PROVE TypeOK'
  BY <1>12 DEF Publish
<1>13. ASSUME NEW j \in Job, CatchCancel(j) PROVE TypeOK'
  BY <1>13 DEF CatchCancel, Signalled
<1>14. ASSUME NEW j \in Job, CancelledOutside(j) PROVE TypeOK'
  BY <1>14 DEF CancelledOutside, Signalled
<1>15. ASSUME NEW j \in Job, Reap(j) PROVE TypeOK'
  BY <1>15 DEF Reap
<1>16. ASSUME NEW j \in Job, StoreError(j) PROVE TypeOK'
  BY <1>16, BoundsAssumption DEF StoreError
<1>17. ASSUME NEW j \in Job, BeginError(j) PROVE TypeOK'
  BY <1>17, BoundsAssumption DEF BeginError
<1>18. ASSUME NEW j \in Job, DiscardError(j) PROVE TypeOK'
  BY <1>18, BoundsAssumption DEF DiscardError
<1>19. ASSUME NEW c \in Canceller, NEW j \in Job, CancelRead(c, j) PROVE TypeOK'
  BY <1>19, BoundsAssumption DEF CancelRead
<1>20. ASSUME NEW c \in Canceller, CancelSignal(c) PROVE TypeOK'
  BY <1>20 DEF CancelSignal, Signal
<1>21. ASSUME NEW c \in Canceller, CancelDirect(c) PROVE TypeOK'
  BY <1>21 DEF CancelDirect
<1>22. ASSUME NEW c \in Canceller, CancelPersist(c) PROVE TypeOK'
  BY <1>22 DEF CancelPersist
<1>23. ASSUME NEW c \in Canceller, CancelEmit(c) PROVE TypeOK'
  BY <1>23 DEF CancelEmit, TerminalEvent
<1>24. CASE Crash
  <2>1. hit' \subseteq Job
    BY <1>24 DEF Crash
  <2>2. faults' \in 0..MaxFaults
    BY <1>24, BoundsAssumption DEF Crash
  <2> QED
    BY <1>24, <2>1, <2>2 DEF Crash
<1>25. CASE Shutdown
  BY <1>25, BoundsAssumption DEF Shutdown, Signal
<1>26. CASE UNCHANGED vars
  BY <1>26 DEF vars
<1> QED
  BY <1>1, <1>2, <1>3, <1>4, <1>5, <1>6, <1>7, <1>8, <1>9, <1>10, <1>11, <1>12, <1>13,
     <1>14, <1>15, <1>16, <1>17, <1>18, <1>19, <1>20, <1>21, <1>22, <1>23, <1>24,
     <1>25, <1>26
  DEF Next, JobStep, CancelStep

\* What AgentEventBus.emit is called with for a job.
EventType == {"started", "completed", "approval_required", "cancelled", "failed"}

\* An emitted event is announced, and no earlier announcement is lost: the
\* event stream of a job only grows.
LEMMA EmitAnnounces ==
  ASSUME TypeOK, NEW j \in Job, NEW type \in EventType, Emit(j, type)
  PROVE  /\ Announced(j, type)'
         /\ \A k \in Job, t \in EventType : Announced(k, t) => Announced(k, t)'
<1>1. events[j] \in Seq(EventType) /\ events' = [events EXCEPT ![j] = Append(@, type)]
  BY DEF TypeOK, EventType, Emit
<1>2. events'[j] = Append(events[j], type)
  BY <1>1 DEF TypeOK
<1>3. DOMAIN events'[j] = 1..(Len(events[j]) + 1) /\ events'[j][Len(events[j]) + 1] = type
  BY <1>1, <1>2
<1>4. \A i \in DOMAIN events[j] : i \in DOMAIN events'[j] /\ events'[j][i] = events[j][i]
  BY <1>1, <1>2
<1>5. Announced(j, type)'
  BY <1>1, <1>3 DEF Announced
<1>6. ASSUME NEW k \in Job, NEW t \in EventType, Announced(k, t) PROVE Announced(k, t)'
  BY <1>1, <1>4, <1>6 DEF Announced, TypeOK
<1> QED
  BY <1>5, <1>6

\* Every await of start_job, _run_job, _finalize and cancel_job, and every
\* fault, keeps the invariant.
LEMMA InvNext == TypeOK /\ TypeOK' /\ Inv /\ [Next]_vars => Inv'
<1> SUFFICES ASSUME TypeOK /\ TypeOK' /\ Inv, [Next]_vars PROVE Inv'
  OBVIOUS
<1> USE DEF Inv, RunningHasTask, RecordStage, LocalStage, CancelStage, SignalsTouched,
            OrphanExplained, CaughtStage, AnnouncedStage, TypeOK, jobVars, cancelVars,
            boundVars, Goto, Step, Entry, Status, Terminal, Reason, NoEntry, Pending,
            Running, Failed, Cancelled, JobPc, Starting, InTry, InFinalize
<1>1. ASSUME NEW j \in Job, StartPersist(j) PROVE Inv'
  BY <1>1 DEF StartPersist, Announced
<1>2. ASSUME NEW j \in Job, StartIndex(j) PROVE Inv'
  BY <1>2 DEF StartIndex, Announced
<1>3. ASSUME NEW j \in Job, StartTask(j) PROVE Inv'
  BY <1>3 DEF StartTask, Announced
<1>4. ASSUME NEW j \in Job, TaskBegin(j) PROVE Inv'
  BY <1>4 DEF TaskBegin, Announced
<1>5. ASSUME NEW j \in Job, PersistRunning(j) PROVE Inv'
  BY <1>5 DEF PersistRunning, Announced
<1>6. ASSUME NEW j \in Job, EmitStarted(j) PROVE Inv'
  <2>1. "started" \in EventType
    BY DEF EventType
  <2>2. /\ Announced(j, "started")'
        /\ \A k \in Job, t \in EventType : Announced(k, t) => Announced(k, t)'
    BY <1>6, <2>1, EmitAnnounces DEF EmitStarted
  <2>3. \A k \in Job : TerminalEvent(store[k].reason) \in EventType
    BY DEF TerminalEvent, EventType
  <2>4. AnnouncedStage'
    BY <1>6, <2>2, <2>3 DEF EmitStarted
  <2> QED
    BY <1>6, <2>4 DEF EmitStarted
<1>7. ASSUME NEW j \in Job, AgentEnds(j) PROVE Inv'
  BY <1>7 DEF AgentEnds, Announced
<1>8. ASSUME NEW j \in Job, AgentWantsApproval(j) PROVE Inv'
  BY <1>8 DEF AgentWantsApproval, Announced
<1>9. ASSUME NEW j \in Job, DiscardApproval(j) PROVE Inv'
  BY <1>9 DEF DiscardApproval, Announced
<1>10. ASSUME NEW j \in Job, PersistFinal(j) PROVE Inv'
  BY <1>10 DEF PersistFinal, Announced
<1>11. ASSUME NEW j \in Job, EmitTerminal(j) PROVE Inv'
  <2>1. TerminalEvent(local[j].reason) \in EventType
    BY DEF EventType, TerminalEvent
  <2>2. /\ Announced(j, TerminalEvent(local[j].reason))'
        /\ \A k \in Job, t \in EventType : Announced(k, t) => Announced(k, t)'
    BY <1>11, <2>1, EmitAnnounces DEF EmitTerminal
  <2>3. \A k \in Job : TerminalEvent(store[k].reason) \in EventType
    BY DEF TerminalEvent, EventType
  <2>4. AnnouncedStage'
    BY <1>11, <2>2, <2>3 DEF EmitTerminal
  <2> QED
    BY <1>11, <2>4 DEF EmitTerminal
<1>12. ASSUME NEW j \in Job, Publish(j) PROVE Inv'
  BY <1>12 DEF Publish, Announced
<1>13. ASSUME NEW j \in Job, CatchCancel(j) PROVE Inv'
  BY <1>13 DEF CatchCancel, Signalled, Announced
<1>14. ASSUME NEW j \in Job, CancelledOutside(j) PROVE Inv'
  BY <1>14 DEF CancelledOutside, Signalled, Announced
<1>15. ASSUME NEW j \in Job, Reap(j) PROVE Inv'
  BY <1>15 DEF Reap, Announced
<1>16. ASSUME NEW j \in Job, StoreError(j) PROVE Inv'
  BY <1>16 DEF StoreError, Announced
<1>17. ASSUME NEW j \in Job, BeginError(j) PROVE Inv'
  BY <1>17 DEF BeginError, Announced
<1>18. ASSUME NEW j \in Job, DiscardError(j) PROVE Inv'
  BY <1>18 DEF DiscardError, Announced
<1>19. ASSUME NEW c \in Canceller, NEW j \in Job, CancelRead(c, j) PROVE Inv'
  BY <1>19 DEF CancelRead, Announced
<1>20. ASSUME NEW c \in Canceller, CancelSignal(c) PROVE Inv'
  BY <1>20 DEF CancelSignal, Signal, Announced
<1>21. ASSUME NEW c \in Canceller, CancelDirect(c) PROVE Inv'
  BY <1>21 DEF CancelDirect, Announced
<1>22. ASSUME NEW c \in Canceller, CancelPersist(c) PROVE Inv'
  BY <1>22 DEF CancelPersist, Announced
<1>23. ASSUME NEW c \in Canceller, CancelEmit(c) PROVE Inv'
  <2>1. TerminalEvent(snapshot[c].reason) \in EventType
    BY DEF EventType, TerminalEvent
  <2>2. /\ Announced(target[c], TerminalEvent(snapshot[c].reason))'
        /\ \A k \in Job, t \in EventType : Announced(k, t) => Announced(k, t)'
    BY <1>23, <2>1, EmitAnnounces DEF CancelEmit
  <2>3. \A k \in Job : TerminalEvent(store[k].reason) \in EventType
    BY DEF TerminalEvent, EventType
  <2>4. AnnouncedStage'
    BY <1>23, <2>2, <2>3 DEF CancelEmit
  <2> QED
    BY <1>23, <2>4 DEF CancelEmit
<1>24. CASE Crash
  <2>1. hit \subseteq hit' /\ {j \in Job : pc[j] \notin {"idle", "done"}} \subseteq hit'
        /\ \A c \in Canceller : cpc[c] # "idle" => target[c] \in hit'
    BY <1>24 DEF Crash
  <2>2. RecordStage' /\ LocalStage' /\ RunningHasTask' /\ CancelStage' /\ SignalsTouched'
    BY <1>24 DEF Crash
  <2>3. OrphanExplained'
    BY <1>24, <2>1 DEF Crash
  <2>4. CaughtStage'
    BY <1>24, <2>1 DEF Crash
  <2>5. AnnouncedStage'
    BY <1>24, <2>1 DEF Crash, Announced
  <2> QED
    BY <2>2, <2>3, <2>4, <2>5
<1>25. CASE Shutdown
  BY <1>25 DEF Shutdown, Signal, Announced
<1>26. CASE UNCHANGED vars
  BY <1>26 DEF vars, Announced
<1> QED
  BY <1>1, <1>2, <1>3, <1>4, <1>5, <1>6, <1>7, <1>8, <1>9, <1>10, <1>11, <1>12, <1>13,
     <1>14, <1>15, <1>16, <1>17, <1>18, <1>19, <1>20, <1>21, <1>22, <1>23, <1>24,
     <1>25, <1>26
  DEF Next, JobStep, CancelStep

\* The inductive invariant.
IInv == TypeOK /\ Inv

\* A manager that has just been created satisfies it.
LEMMA IInvInit == Init => IInv
<1> SUFFICES ASSUME Init PROVE IInv
  OBVIOUS
<1>1. TypeOK
  <2>1. NoEntry \in Entry
    BY DEF NoEntry, Entry, Status, Reason
  <2>2. /\ store \in [Job -> Entry] /\ local \in [Job -> Entry]
        /\ snapshot \in [Canceller -> Entry]
    BY <2>1 DEF Init
  <2>3. index \in Seq(Job) /\ events \in [Job -> Seq(EventType)]
    BY DEF Init
  <2>4. pc \in [Job -> JobPc] /\ stopping \in BOOLEAN
    BY DEF Init, JobPc
  <2>5. cancels \in 0..MaxCancels /\ faults \in 0..MaxFaults
    BY BoundsAssumption DEF Init
  <2> QED
    BY <2>2, <2>3, <2>4, <2>5 DEF Init, TypeOK, EventType
<1>2. Inv
  BY DEF Init, Inv, RunningHasTask, RecordStage, LocalStage, CancelStage, SignalsTouched,
         OrphanExplained, CaughtStage, AnnouncedStage, NoEntry, Starting, InTry,
         InFinalize, Terminal
<1> QED
  BY <1>1, <1>2 DEF IInv

\* It holds in every reachable state of the job manager.
LEMMA IInvariant == Spec => []IInv
<1>1. IInv /\ [Next]_vars => IInv'
  BY TypeNext, InvNext DEF IInv
<1> QED
  BY <1>1, IInvInit, PTL DEF Spec

\* Every variable has its type in every reachable state.
THEOREM TypeCorrect == Spec => []TypeOK
BY IInvariant, PTL DEF IInv

\* Every job with a task is in _running, so that cancel_job finds it, from
\* create_task to the done callback.
THEOREM TasksCancellable == Spec => []RunningHasTask
<1>1. IInv => RunningHasTask
  BY DEF IInv, Inv
<1> QED
  BY <1>1, IInvariant, PTL

\* A record left open by an ended run was left so by a cancel(), a crash or
\* a failing write: the finally block of _run_job closes all others.
THEOREM OrphansExplained == Spec => []OrphanExplained
<1>1. IInv => OrphanExplained
  BY DEF IInv, Inv
<1> QED
  BY <1>1, IInvariant, PTL

\* A CancelledError the try block caught is what the record ends up saying,
\* whatever cancel_job wrote from a stale copy in between.
THEOREM CaughtCancelsRecorded == Spec => []CaughtCancelRecorded
<1>1. IInv => CaughtCancelRecorded
  BY DEF IInv, Inv, TypeOK, CaughtStage, CaughtCancelRecorded
<1> QED
  BY <1>1, IInvariant, PTL

\* A terminal record was announced by the event of the same outcome, once no
\* cancel_job is under way, although both are written from different copies.
THEOREM VerdictsAnnounced == Spec => []VerdictAnnounced
<1>1. IInv => VerdictAnnounced
  BY DEF IInv, Inv, AnnouncedStage, VerdictAnnounced, Announced
<1> QED
  BY <1>1, IInvariant, PTL

-----------------------------------------------------------------------------

\* What JobRecord calls status.
RecordStatus == [j \in Job |-> store[j].status]

\* Only four of the awaits write the record of a job.
LEMMA StoreWriters ==
  ASSUME [Next]_vars
  PROVE  \/ UNCHANGED store
         \/ \E j \in Job : StartPersist(j) \/ PersistRunning(j) \/ PersistFinal(j)
         \/ \E c \in Canceller : CancelPersist(c)
<1>1. ASSUME NEW j \in Job, JobStep(j), ~PersistRunning(j), ~PersistFinal(j)
      PROVE  UNCHANGED store
  BY <1>1 DEF JobStep, StartIndex, StartTask, TaskBegin, EmitStarted, AgentEnds,
              AgentWantsApproval, DiscardApproval, EmitTerminal, Publish, CatchCancel,
              CancelledOutside, Reap
<1>2. ASSUME NEW j \in Job, StoreError(j) \/ BeginError(j) \/ DiscardError(j)
      PROVE  UNCHANGED store
  BY <1>2 DEF StoreError, BeginError, DiscardError
<1>3. ASSUME NEW c \in Canceller, CancelStep(c), ~CancelPersist(c)
      PROVE  UNCHANGED store
  BY <1>3 DEF CancelStep, CancelSignal, CancelDirect, CancelEmit
<1>4. ASSUME NEW c \in Canceller, NEW j \in Job, CancelRead(c, j) PROVE UNCHANGED store
  BY <1>4 DEF CancelRead
<1>5. Crash \/ Shutdown \/ UNCHANGED vars => UNCHANGED store
  BY DEF Crash, Shutdown, vars
<1> QED
  BY <1>1, <1>2, <1>3, <1>4, <1>5 DEF Next

\* Every write of a record is a change a client may observe.
LEMMA RecordNext == IInv /\ [Next]_vars => [Record!Next]_RecordStatus
<1> SUFFICES ASSUME IInv, [Next]_vars PROVE [Record!Next]_RecordStatus
  OBVIOUS
<1> USE DEF IInv, Inv, TypeOK, RecordStatus, RecordStage, Terminal
<1>1. CASE UNCHANGED store
  BY <1>1
<1>2. ASSUME NEW j \in Job, StartPersist(j) PROVE Record!Accept(j)
  BY <1>2 DEF StartPersist, Record!Accept, Record!Change, Pending
<1>3. ASSUME NEW j \in Job, PersistRunning(j) PROVE Record!Begin(j)
  BY <1>3 DEF PersistRunning, Step, Record!Begin, Record!Change, LocalStage
<1>4. ASSUME NEW j \in Job, PersistFinal(j)
      PROVE  Record!Succeed(j) \/ Record!Fail(j) \/ Record!Cancel(j)
  <2>1. /\ pc[j] = "persist_final"
        /\ local[j].status \in {"succeeded", "failed", "cancelled"}
        /\ store' = [store EXCEPT ![j] = local[j]]
    BY <1>4 DEF PersistFinal, Step, LocalStage
  <2>2. RecordStatus' = [RecordStatus EXCEPT ![j] = local[j].status]
    BY <2>1
  <2>3. store[j].status \in {"pending", "running", "cancelled"}
    BY <2>1
  <2>4. local[j].status = "succeeded" => Record!Succeed(j)
    BY <2>1, <2>2, <2>3 DEF Record!Succeed, Record!Change, LocalStage
  <2>5. local[j].status = "failed" => Record!Fail(j)
    BY <2>1, <2>2, <2>3 DEF Record!Fail, Record!Change
  <2>6. local[j].status = "cancelled" => Record!Cancel(j)
    BY <2>1, <2>2, <2>3 DEF Record!Cancel, Record!Change, Record!Verdict
  <2> QED
    BY <2>1, <2>4, <2>5, <2>6
<1>5. ASSUME NEW c \in Canceller, NEW j \in Job, target[c] = j, CancelPersist(c)
      PROVE  Record!Cancel(j)
  <2>1. store[j].status # "none" /\ snapshot[c] = Cancelled
    BY <1>5 DEF CancelPersist, CancelStage
  <2>2. store[j].status \in {"pending", "running"} \cup Record!Verdict
    BY <2>1 DEF Entry, Status, Record!Verdict
  <2>3. store' = [store EXCEPT ![j] = Cancelled]
    BY <1>5, <2>1 DEF CancelPersist
  <2>4. RecordStatus' = [RecordStatus EXCEPT ![j] = "cancelled"]
    BY <2>3 DEF Cancelled
  <2> QED
    BY <2>2, <2>4 DEF Record!Cancel, Record!Change
<1>6. ASSUME NEW j \in Job,
             \/ Record!Accept(j) \/ Record!Begin(j) \/ Record!Succeed(j)
             \/ Record!Fail(j) \/ Record!Cancel(j)
      PROVE  Record!Next
  BY <1>6 DEF Record!Next
<1>7. CASE \E j \in Job : StartPersist(j) \/ PersistRunning(j) \/ PersistFinal(j)
  <2>1. Record!Next
    BY <1>2, <1>3, <1>4, <1>6, <1>7
  <2> QED
    BY <2>1
<1>8. CASE \E c \in Canceller : CancelPersist(c)
  <2>1. PICK c \in Canceller : CancelPersist(c)
    BY <1>8
  <2>2. PICK j \in Job : target[c] = j
    OBVIOUS
  <2>3. Record!Next
    BY <2>1, <2>2, <1>5, <1>6
  <2> QED
    BY <2>3
<1> QED
  BY <1>1, <1>7, <1>8, StoreWriters

\* The Redis records of the jobs implement what a polling client is promised.
THEOREM RecordImplemented == Spec => ImplementsRecord
<1>1. Init => Record!Init
  BY DEF Init, Record!Init, NoEntry
<1>2. IInv /\ [Next]_vars => [Record!Next]_RecordStatus
  BY RecordNext
<1> QED
  BY <1>1, <1>2, IInvariant, PTL DEF Spec, ImplementsRecord, Record!Spec, RecordStatus

-----------------------------------------------------------------------------
(* Every job and every cancel request comes to an end *)

\* The awaits of a job and of a cancel request, the last one lowest.
Place == [idle |-> 12, lpush |-> 11, ltrim |-> 10, created |-> 9, persist_running |-> 8,
          emit_started |-> 7, agent |-> 6, discard |-> 5, persist_final |-> 4,
          emit_terminal |-> 3, publish |-> 2, done |-> 0]
CancelPlace == [idle |-> 0, decide |-> 3, persist |-> 2, emit |-> 1]

\* What a job has left to do, the done callback included.
Ahead(j) == 2 * Place[pc[j]] + (IF j \in running THEN 1 ELSE 0)

JobsFall ==
  [][\A j \in Job : Ahead(j)' <= Ahead(j) /\ (JobStep(j) => Ahead(j)' < Ahead(j))]_vars
CancelsFall ==
  [][\A c \in Canceller : cpc[c] # "idle" =>
       /\ CancelPlace[cpc'[c]] <= CancelPlace[cpc[c]]
       /\ CancelStep(c) => CancelPlace[cpc'[c]] < CancelPlace[cpc[c]]]_vars

LEMMA AheadOf ==
  ASSUME TypeOK, NEW j \in Job
  PROVE  /\ Ahead(j) \in Nat
         /\ pc'[j] = pc[j] /\ (j \in running' => j \in running) => Ahead(j)' <= Ahead(j)
         /\ pc'[j] = pc[j] /\ j \in running /\ j \notin running' => Ahead(j)' < Ahead(j)
         /\ pc'[j] \in JobPc /\ Place[pc'[j]] < Place[pc[j]] => Ahead(j)' < Ahead(j)
<1>1. /\ pc[j] \in JobPc /\ Place[pc[j]] \in Nat
      /\ pc'[j] \in JobPc => Place[pc'[j]] \in Nat
  BY DEF TypeOK, JobPc, Starting, InTry, InFinalize, Place
<1> HIDE DEF Place
<1> QED BY <1>1 DEF Ahead

\* One job moves on, the others stay where they are.
LEMMA MovesOn ==
  ASSUME TypeOK, TypeOK', NEW j \in Job, NEW next \in JobPc, Goto(j, next),
         Place[next] < Place[pc[j]], \A i \in Job : i \in running' => i \in running \cup {j}
  PROVE  Ahead(j)' < Ahead(j) /\ \A i \in Job : Ahead(i)' <= Ahead(i)
<1>1. pc' = [pc EXCEPT ![j] = next] BY DEF Goto
<1>2. pc'[j] = next /\ \A i \in Job : i # j => pc'[i] = pc[i] BY <1>1 DEF TypeOK
<1>3. Ahead(j)' < Ahead(j) BY <1>2, AheadOf
<1>4. Ahead(j) \in Nat BY AheadOf
<1>5. Ahead(j)' \in Nat
  <2>1. pc'[j] \in JobPc /\ Place[pc'[j]] \in Nat
    BY DEF TypeOK, JobPc, Starting, InTry, InFinalize, Place
  <2> HIDE DEF Place
  <2> QED BY <2>1 DEF Ahead
<1>6. \A i \in Job : i # j => Ahead(i)' <= Ahead(i) BY <1>2, AheadOf
<1> QED BY <1>3, <1>4, <1>5, <1>6

LEMMA JobFalls ==
  ASSUME TypeOK, TypeOK', NEW j \in Job,
         \/ StartPersist(j) \/ JobStep(j) \/ StoreError(j) \/ BeginError(j) \/ DiscardError(j)
  PROVE  Ahead(j)' < Ahead(j) /\ \A i \in Job : Ahead(i)' <= Ahead(i)
<1>1. CASE Reap(j)
  <2>1. pc' = pc /\ running' = running \ {j} /\ j \in running BY <1>1 DEF Reap, jobVars
  <2> QED BY <2>1, AheadOf
<1>2. CASE ~Reap(j)
  <2>1. \E next \in JobPc : Goto(j, next) /\ Place[next] < Place[pc[j]]
    BY <1>2 DEF StartPersist, StartIndex, StartTask, TaskBegin, PersistRunning, EmitStarted,
       AgentEnds, AgentWantsApproval, DiscardApproval, PersistFinal, EmitTerminal, Publish,
       CatchCancel, CancelledOutside, StoreError, BeginError, DiscardError, Step, JobStep, JobPc,
       Starting, InTry, InFinalize, Place
  <2>2. \A i \in Job : i \in running' => i \in running \cup {j}
    BY <1>2 DEF StartPersist, StartIndex, StartTask, TaskBegin, PersistRunning, EmitStarted,
       AgentEnds, AgentWantsApproval, DiscardApproval, PersistFinal, EmitTerminal, Publish,
       CatchCancel, CancelledOutside, StoreError, BeginError, DiscardError, JobStep
  <2> QED BY <2>1, <2>2, MovesOn
<1> QED BY <1>1, <1>2

LEMMA AllFall ==
  ASSUME TypeOK, TypeOK', Next
  PROVE  \A i \in Job : Ahead(i)' <= Ahead(i)
<1>1. CASE \E j \in Job : StartPersist(j) \/ JobStep(j)
                          \/ StoreError(j) \/ BeginError(j) \/ DiscardError(j)
  BY <1>1, JobFalls
<1>2. CASE \E c \in Canceller : (\E j \in Job : CancelRead(c, j)) \/ CancelStep(c)
  <2>1. pc' = pc /\ running' = running
    BY <1>2 DEF CancelRead, CancelStep, CancelSignal, CancelDirect, CancelPersist, CancelEmit, jobVars
  <2> QED BY <2>1, AheadOf
<1>3. CASE Shutdown
  <2>1. pc' = pc /\ running' = running BY <1>3 DEF Shutdown
  <2> QED BY <2>1, AheadOf
<1>4. CASE Crash
  <2> TAKE i \in Job
  <2>1. i \notin running' /\ pc'[i] = IF pc[i] = "idle" THEN "idle" ELSE "done"
    BY <1>4 DEF Crash
  <2>2. CASE pc[i] = "idle" BY <2>1, <2>2, AheadOf
  <2>3. CASE pc[i] # "idle"
    <3>1. Ahead(i)' = 0 BY <2>1, <2>3 DEF Ahead, Place
    <3>2. Ahead(i) \in Nat BY AheadOf
    <3> QED BY <3>1, <3>2
  <2> QED BY <2>2, <2>3
<1> QED BY <1>1, <1>2, <1>3, <1>4 DEF Next

LEMMA CancelFalls ==
  ASSUME TypeOK, TypeOK', Next, NEW c \in Canceller, cpc[c] # "idle"
  PROVE  /\ CancelPlace[cpc'[c]] <= CancelPlace[cpc[c]]
         /\ CancelStep(c) => CancelPlace[cpc'[c]] < CancelPlace[cpc[c]]
<1>1. cpc \in [Canceller -> {"idle", "decide", "persist", "emit"}] BY DEF TypeOK
<1>2. CASE CancelStep(c)
  BY <1>1, <1>2 DEF CancelStep, CancelSignal, CancelDirect, CancelPersist, CancelEmit, CancelPlace
<1>3. CASE ~CancelStep(c)
  <2>1. cpc'[c] = cpc[c] \/ cpc'[c] = "idle"
    <3>1. CASE \E j \in Job : StartPersist(j) \/ JobStep(j)
                              \/ StoreError(j) \/ BeginError(j) \/ DiscardError(j)
      BY <3>1 DEF StartPersist, StartIndex, StartTask, TaskBegin, PersistRunning, EmitStarted,
         AgentEnds, AgentWantsApproval, DiscardApproval, PersistFinal, EmitTerminal, Publish,
         CatchCancel, CancelledOutside, Reap, StoreError, BeginError, DiscardError, JobStep,
         cancelVars
    <3>2. ASSUME NEW d \in Canceller, NEW j \in Job, CancelRead(d, j) PROVE cpc'[c] = cpc[c]
      BY <1>1, <3>2 DEF CancelRead
    <3>3. ASSUME NEW d \in Canceller, CancelStep(d) PROVE cpc'[c] = cpc[c]
      BY <1>1, <1>3, <3>3 DEF CancelStep, CancelSignal, CancelDirect, CancelPersist, CancelEmit
    <3>4. CASE Crash \/ Shutdown BY <3>4 DEF Crash, Shutdown, cancelVars
    <3> QED BY <3>1, <3>2, <3>3, <3>4 DEF Next
  <2> QED BY <1>1, <1>3, <2>1 DEF CancelPlace
<1> QED BY <1>2, <1>3

\* Every step of a job brings it nearer to its end and no other step takes it
\* back, whatever is cancelled when and whatever fails; the same holds for a
\* cancel request (_run_job, _finalize, cancel_job; backend/core/agent_jobs.py).
THEOREM JobsShrink == Spec => [](\A j \in Job : Ahead(j) \in Nat) /\ JobsFall /\ CancelsFall
<1>1. TypeOK => \A j \in Job : Ahead(j) \in Nat BY AheadOf
<1>2. TypeOK /\ TypeOK' /\ [Next]_vars =>
        [\A j \in Job : Ahead(j)' <= Ahead(j) /\ (JobStep(j) => Ahead(j)' < Ahead(j))]_vars
  BY AllFall, JobFalls
<1>3. TypeOK /\ TypeOK' /\ [Next]_vars =>
        [\A c \in Canceller : cpc[c] # "idle" =>
           /\ CancelPlace[cpc'[c]] <= CancelPlace[cpc[c]]
           /\ CancelStep(c) => CancelPlace[cpc'[c]] < CancelPlace[cpc[c]]]_vars
  BY CancelFalls
<1> QED BY <1>1, <1>2, <1>3, TypeCorrect, PTL DEF Spec, JobsFall, CancelsFall

=============================================================================
