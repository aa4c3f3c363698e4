------------------------- MODULE TaskRegistryProofs -------------------------
(***************************************************************************)
(* Safety of TaskRegistry for any number of stop_task calls and of faults. *)
(***************************************************************************)
EXTENDS TaskRegistry, TLAPS

\* While a process runs and nobody has given up waiting for it, its runner is
\* at communicate(), has its handle in _live and is not being cancelled: this
\* is what sends every stop_task to the process first.
Watched ==
  process = "running" /\ ~outlived =>
    pc = "communicate" /\ live = "process" /\ ~signalled

\* A runner that was not cut short carries a verdict to its last save, and has
\* left one behind.
Verdict ==
  /\ pc = "save_final" /\ ~cut => local.status \in Terminal
  /\ pc \in {"ended", "raised", "crashed"} /\ ~cut => store.status \in Terminal

IInv == TypeOK /\ Watched /\ Verdict

USE DEF vars, registry, runner, bounds, history, Record, NoRecord, Status, Exited,
        Terminal, StopCall, Idle, StopGoes, CancelRunner

\* The state after start-up has its type (core/task_registry.py:40).
LEMMA InitTyped == ASSUME Init PROVE TypeOK
<1>1. Idle \in StopCall OBVIOUS
<1>2. stop \in [Stopper -> StopCall]
  <2> HIDE DEF Idle, StopCall
  <2> QED BY <1>1 DEF Init
<1>3. NoRecord \in Record OBVIOUS
<1>4. stops \in 0..MaxStops /\ faults \in 0..MaxFaults BY TaskAssumption DEF Init
<1> HIDE DEF Idle, StopCall, NoRecord, Record
<1> QED BY <1>2, <1>3, <1>4 DEF Init, TypeOK

\* The runner keeps the types.
LEMMA RunnerTyped == ASSUME TypeOK, Runner PROVE TypeOK'
<1> USE DEF TypeOK
<1>1. CASE Create BY <1>1 DEF Create
<1>2. CASE Start BY <1>2 DEF Start
<1>3. CASE ReadTask
  <2>1. [store EXCEPT !.status = "running"] \in Record OBVIOUS
  <2>2. local' \in Record BY <1>3, <2>1 DEF ReadTask
  <2> QED BY <1>3, <2>2 DEF ReadTask
<1>4. CASE SaveRunning BY <1>4 DEF SaveRunning
<1>5. CASE Spawn BY <1>5 DEF Spawn
<1>6. CASE SpawnFails BY <1>6 DEF SpawnFails
<1>7. CASE Communicated BY <1>7 DEF Communicated
<1>8. CASE CancelledInside
  <2>1. [local EXCEPT !.finished = TRUE] \in Record OBVIOUS
  <2>2. local' \in Record BY <1>8, <2>1 DEF CancelledInside
  <2> QED BY <1>8, <2>2 DEF CancelledInside
<1>9. CASE CancelledOutside BY <1>9 DEF CancelledOutside
<1>10. CASE SaveFinal BY <1>10 DEF SaveFinal
<1>11. CASE Finalize BY <1>11 DEF Finalize
<1> QED BY <1>1, <1>2, <1>3, <1>4, <1>5, <1>6, <1>7, <1>8, <1>9, <1>10, <1>11 DEF Runner

\* stop_task keeps the types.
LEMMA StopTyped == ASSUME TypeOK, NEW s \in Stopper, Stop(s) PROVE TypeOK'
<1> USE DEF TypeOK
<1>1. CASE StopRead(s)
  <2>1. [pc |-> "decide", copy |-> store] \in StopCall
    OBVIOUS
  <2>2. stop' \in [Stopper -> StopCall]
    BY <1>1, <2>1 DEF StopRead
  <2>3. stops' \in 0..MaxStops BY <1>1, TaskAssumption DEF StopRead
  <2> QED BY <1>1, <2>2, <2>3 DEF StopRead
<1>2. CASE StopDecide(s)
  <2>1. \A p \in {"wait", "save"} :
          [stop[s] EXCEPT !.pc = p] \in StopCall
    OBVIOUS
  <2>2. stop' \in [Stopper -> StopCall]
    BY <1>2, <2>1 DEF StopDecide
  <2>3. signalled' \in BOOLEAN BY <1>2 DEF StopDecide
  <2> QED BY <1>2, <2>2, <2>3 DEF StopDecide
<1>3. CASE StopWaited(s)
  <2>1. [stop[s] EXCEPT !.pc = "save"] \in StopCall
    OBVIOUS
  <2>2. stop' \in [Stopper -> StopCall]
    BY <1>3, <2>1 DEF StopWaited
  <2> QED BY <1>3, <2>2 DEF StopWaited
<1>4. CASE StopSave(s) BY <1>4 DEF StopSave
<1> QED BY <1>1, <1>2, <1>3, <1>4 DEF Stop

\* Exits and faults keep the types.
LEMMA OthersTyped ==
  ASSUME TypeOK, Faults \/ \E result \in Exited : Exit(result) PROVE TypeOK'
<1> USE DEF TypeOK
<1>1. CASE StoreError BY <1>1, TaskAssumption DEF StoreError
<1>2. CASE Crash
  <2>1. Idle \in StopCall
    OBVIOUS
  <2>2. stop' \in [Stopper -> StopCall]
    BY <1>2, <2>1 DEF Crash
  <2>3. process' \in {"none", "running"} \cup Exited BY <1>2 DEF Crash
  <2>4. faults' \in 0..MaxFaults BY <1>2, TaskAssumption DEF Crash
  <2> QED BY <1>2, <2>2, <2>3, <2>4 DEF Crash
<1>3. ASSUME NEW s \in Stopper, StopError(s) PROVE TypeOK'
  BY <1>3, TaskAssumption DEF StopError
<1>4. ASSUME NEW result \in Exited, Exit(result) PROVE TypeOK'
  BY <1>4 DEF Exit
<1> QED BY <1>1, <1>2, <1>3, <1>4 DEF Faults

\* A step keeps the process watched.
LEMMA StepWatched == ASSUME IInv, [Next]_vars PROVE Watched'
<1> USE DEF IInv, TypeOK, Watched
<1>1. CASE Runner
  BY <1>1 DEF Runner, Create, Start, ReadTask, SaveRunning, Spawn, SpawnFails,
     Communicated, CancelledInside, CancelledOutside, SaveFinal, Finalize
<1>2. ASSUME NEW result \in Exited, Exit(result) PROVE Watched'
  BY <1>2 DEF Exit
<1>3. ASSUME NEW s \in Stopper, Stop(s) PROVE Watched'
  <2>1. CASE StopRead(s) BY <2>1 DEF StopRead
  <2>2. CASE StopDecide(s) BY <2>2 DEF StopDecide
  <2>3. CASE StopWaited(s) BY <2>3 DEF StopWaited
  <2>4. CASE StopSave(s) BY <2>4 DEF StopSave
  <2> QED BY <1>3, <2>1, <2>2, <2>3, <2>4 DEF Stop
<1>4. CASE StoreError BY <1>4 DEF StoreError
<1>5. CASE Crash BY <1>5 DEF Crash
<1>6. ASSUME NEW s \in Stopper, StopError(s) PROVE Watched'
  BY <1>6 DEF StopError
<1>7. CASE UNCHANGED vars BY <1>7
<1> QED BY <1>1, <1>2, <1>3, <1>4, <1>5, <1>6, <1>7 DEF Next, Faults

\* A step keeps the verdict.
LEMMA StepVerdict == ASSUME IInv, [Next]_vars PROVE Verdict'
<1> USE DEF IInv, TypeOK, Verdict
<1>1. CASE Runner
  BY <1>1 DEF Runner, Create, Start, ReadTask, SaveRunning, Spawn, SpawnFails,
     Communicated, CancelledInside, CancelledOutside, SaveFinal, Finalize
<1>2. ASSUME NEW result \in Exited, Exit(result) PROVE Verdict'
  BY <1>2 DEF Exit
<1>3. ASSUME NEW s \in Stopper, Stop(s) PROVE Verdict'
  BY <1>3 DEF Stop, StopRead, StopDecide, StopWaited, StopSave
<1>4. CASE StoreError BY <1>4 DEF StoreError
<1>5. CASE Crash BY <1>5 DEF Crash
<1>6. ASSUME NEW s \in Stopper, StopError(s) PROVE Verdict'
  BY <1>6 DEF StopError
<1>7. CASE UNCHANGED vars BY <1>7
<1> QED BY <1>1, <1>2, <1>3, <1>4, <1>5, <1>6, <1>7 DEF Next, Faults

\* The inductive invariant holds in every state.
LEMMA Invariance == Spec => []IInv
<1>1. Init => IInv
  BY InitTyped DEF Init, IInv, Watched, Verdict
<1>2. IInv /\ [Next]_vars => IInv'
  <2> SUFFICES ASSUME IInv, [Next]_vars PROVE TypeOK'
    BY StepWatched, StepVerdict DEF IInv
  <2>1. CASE UNCHANGED vars BY <2>1 DEF IInv, TypeOK
  <2> QED BY <2>1, RunnerTyped, StopTyped, OthersTyped DEF IInv, Next
<1> QED BY <1>1, <1>2, PTL DEF Spec

\* Every state of a task has its type.
THEOREM TypeCorrect == Spec => []TypeOK
BY Invariance, PTL DEF IInv

\* However many stop_task calls race with the start and the end of a task, its
\* process is watched until it is gone or was given up on
\* (core/task_registry.py:99-106).
THEOREM ProcessesWatched == Spec => []ProcessWatched
<1>1. IInv => ProcessWatched BY DEF IInv, Watched, ProcessWatched
<1> QED BY <1>1, Invariance, PTL

\* Only a runner that was cancelled or failed leaves an open record behind
\* (core/task_registry.py:145-165).
THEOREM OpenRecordsExplained == Spec => []OpenExplained
<1>1. IInv => OpenExplained BY DEF IInv, TypeOK, Verdict, OpenExplained
<1> QED BY <1>1, Invariance, PTL

-----------------------------------------------------------------------------
(* The runner and every stop_task come to an end *)

\* The awaits of the runner and of a stop_task, the last one lowest.
Place == [idle |-> 9, created |-> 8, begin |-> 7, save |-> 6, spawn |-> 5, communicate |-> 4,
          save_final |-> 3, ended |-> 2, raised |-> 1, crashed |-> 0]
Handle == [none |-> 0, task |-> 1, process |-> 2]
StopPlace == [idle |-> 0, save |-> 1, wait |-> 2, decide |-> 3]

\* What the runner has left to do, the done callback included.
Ahead == 3 * Place[pc] + Handle[live]

LEMMA RunnerFalls ==
  ASSUME TypeOK, TypeOK', Next
  PROVE  Ahead' <= Ahead /\ (Runner => Ahead' < Ahead)
<1>1. CASE Runner
  BY <1>1 DEF Runner, Create, Start, ReadTask, SaveRunning, Spawn, SpawnFails, Communicated,
     CancelledInside, CancelledOutside, SaveFinal, Finalize, Ahead, Place, Handle, TypeOK
<1>2. CASE ~Runner
  <2>1. (pc' = pc /\ live' = live) \/ (live' = live /\ Place[pc'] < Place[pc])
          \/ (pc' = "crashed" /\ live' = "none")
    <3>1. ASSUME NEW s \in Stopper, Stop(s) \/ StopError(s) PROVE pc' = pc /\ live' = live
      BY <3>1 DEF Stop, StopRead, StopDecide, StopWaited, StopSave, StopError
    <3>2. ASSUME NEW result \in Exited, Exit(result) PROVE pc' = pc /\ live' = live
      BY <3>2 DEF Exit
    <3>3. CASE StoreError BY <3>3 DEF StoreError, Place
    <3>4. CASE Crash BY <3>4 DEF Crash
    <3> QED BY <1>2, <3>1, <3>2, <3>3, <3>4 DEF Next, Faults
  <2>2. Place[pc] \in Nat /\ Place[pc'] \in Nat /\ Handle[live] \in Nat
    BY DEF TypeOK, Place, Handle
  <2>3. Ahead = 3 * Place[pc] + Handle[live] /\ Ahead' = 3 * Place[pc'] + Handle[live']
    BY DEF Ahead
  <2>4. pc' = "crashed" /\ live' = "none" => Ahead' = 0 BY DEF Ahead, Place, Handle
  <2> HIDE DEF Place, Handle
  <2>5. Ahead' <= Ahead
    <3>1. PICK p, q, h \in Nat : p = Place[pc] /\ q = Place[pc'] /\ h = Handle[live] BY <2>2
    <3>2. CASE live' = live /\ q <= p BY <2>3, <3>1, <3>2
    <3>3. CASE pc' = "crashed" /\ live' = "none" BY <2>3, <2>4, <3>1, <3>3
    <3> QED BY <2>1, <3>1, <3>2, <3>3
  <2> QED BY <1>2, <2>5
<1> QED BY <1>1, <1>2

LEMMA StopFalls ==
  ASSUME TypeOK, TypeOK', Next, NEW s \in Stopper, stop[s].pc # "idle"
  PROVE  /\ StopPlace[stop'[s].pc] <= StopPlace[stop[s].pc]
         /\ Stop(s) => StopPlace[stop'[s].pc] < StopPlace[stop[s].pc]
<1>1. stop \in [Stopper -> StopCall] /\ stop[s].pc \in {"decide", "wait", "save"}
  BY DEF TypeOK
<1>2. CASE Stop(s)
  BY <1>1, <1>2 DEF Stop, StopRead, StopDecide, StopWaited, StopSave, StopPlace
<1>3. CASE ~Stop(s)
  <2>1. stop'[s].pc = stop[s].pc \/ stop'[s].pc = "idle"
    <3>1. ASSUME NEW u \in Stopper, Stop(u) PROVE stop'[s] = stop[s]
      <4>1. u # s BY <1>3, <3>1
      <4> QED
        BY <1>1, <3>1, <4>1 DEF Stop, StopRead, StopDecide, StopWaited, StopSave
    <3>2. ASSUME NEW u \in Stopper, StopError(u) PROVE stop'[s] = stop[s] \/ stop'[s] = Idle
      BY <1>1, <3>2 DEF StopError
    <3>3. ASSUME NEW result \in Exited, Exit(result) PROVE stop' = stop
      BY <3>3 DEF Exit
    <3>4. CASE StoreError BY <3>4 DEF StoreError
    <3>5. CASE Crash BY <3>5 DEF Crash
    <3>6. CASE Runner
      BY <3>6 DEF Runner, Create, Start, ReadTask, SaveRunning, Spawn, SpawnFails, Communicated,
         CancelledInside, CancelledOutside, SaveFinal, Finalize
    <3> QED BY <3>1, <3>2, <3>3, <3>4, <3>5, <3>6 DEF Next, Faults
  <2> QED BY <1>1, <1>3, <2>1 DEF StopPlace
<1> QED BY <1>2, <1>3

\* Every step of a runner brings it nearer to its end, and so does every step
\* of a stop_task; no step of another one takes them back, whichever races
\* with which and whatever fails (core/task_registry.py:56-171).
THEOREM RunnerShrinks ==
  Spec =>
    /\ [](Ahead \in Nat)
    /\ [][Ahead' <= Ahead /\ (Runner => Ahead' < Ahead)]_vars
    /\ [][\A s \in Stopper : stop[s].pc # "idle" =>
            /\ StopPlace[stop'[s].pc] <= StopPlace[stop[s].pc]
            /\ Stop(s) => StopPlace[stop'[s].pc] < StopPlace[stop[s].pc]]_vars
<1>1. TypeOK => Ahead \in Nat BY DEF TypeOK, Ahead, Place, Handle
<1>2. TypeOK /\ TypeOK' /\ [Next]_vars => [Ahead' <= Ahead /\ (Runner => Ahead' < Ahead)]_vars
  BY RunnerFalls
<1>3. TypeOK /\ TypeOK' /\ [Next]_vars =>
        [\A s \in Stopper : stop[s].pc # "idle" =>
            /\ StopPlace[stop'[s].pc] <= StopPlace[stop[s].pc]
            /\ Stop(s) => StopPlace[stop'[s].pc] < StopPlace[stop[s].pc]]_vars
  BY StopFalls
<1> QED BY <1>1, <1>2, <1>3, TypeCorrect, PTL DEF Spec

=============================================================================
