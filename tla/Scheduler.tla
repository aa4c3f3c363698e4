------------------------------ MODULE Scheduler ------------------------------
(***************************************************************************)
(* SchedulerAgent (backend/agents/scheduler_agent.py) in one process: the  *)
(* loop that runs due tasks one after the other, runs started by hand, and *)
(* the edits of the task list.  The list is one Redis key that every       *)
(* writer reads and writes as a whole under _tasks_lock.                   *)
(*                                                                         *)
(* Tasks are numbered in the order of the list.  Time counts cron slots:   *)
(* croniter's next one is always the next.  The prompt, the workflow or    *)
(* the agent a task runs is an outcome here.                               *)
(***************************************************************************)
EXTENDS Integers

CONSTANTS
  Task,        \* numbers of the tasks that may exist
  Runs,        \* calls of run_task_now
  Edits,       \* calls of create, update, delete and toggle
  Unexpected,  \* tasks whose run may raise what _SCHEDULER_EXCEPTIONS lacks
  MaxTime,     \* bound on the clock
  MaxFaults    \* bound on failing calls of Redis and restarts

ASSUME TaskAssumption == Task \subseteq Nat \ {0} /\ Unexpected \subseteq Task
ASSUME BoundsAssumption == MaxTime \in Nat \ {0} /\ MaxFaults \in Nat

VARIABLES
  tasks,    \* ninko:scheduler:tasks
  lock,     \* who holds _tasks_lock
  running,  \* _running_task_ids
  act,      \* what the loop, the runs and the edits are doing
  clock, faults,
  \* History, read by the properties only:
  known,    \* tasks that have ever existed
  wanted,   \* the list as the acknowledged edits left it: task -> enabled
  ran,      \* the slot of the last run of the task that the loop has begun
  cut       \* tasks whose last run by the loop broke off before next_run was written

vars == <<tasks, lock, running, act, clock, faults, known, wanted, ran, cut>>

Loop == "loop"
Free == "free"
Workers == {Loop} \cup Runs
Actors == Workers \cup Edits

ASSUME NamesDistinct ==
  Loop \notin Runs \cup Edits /\ Runs \cap Edits = {} /\ Free \notin Actors

Never == 0  \* next_run is None
Entry == [enabled : BOOLEAN, next : 0..(MaxTime + 1)]

\* todo is what the loop has left of the list it read at now, slot the
\* next_run of the task it runs.  failing says
\* that the run is in the except branch of _execute_task.
Sleeping == [pc |-> "idle", task |-> 0, todo |-> <<>>, now |-> 0, slot |-> 0,
             copy |-> <<>>, failing |-> FALSE]

\* Lists from before create_task computed next_run may lack it.
Init ==
  /\ tasks \in UNION {[ids -> {[enabled |-> TRUE, next |-> n] : n \in {Never, 1}}] : ids \in SUBSET Task}
  /\ lock = Free /\ running = {}
  /\ act = [a \in Actors |-> Sleeping]
  /\ clock = 1 /\ faults = 0
  /\ known = DOMAIN tasks
  /\ wanted = [t \in DOMAIN tasks |-> tasks[t].enabled]
  /\ ran = [t \in Task |-> 0] /\ cut = {}

Become(a, l) == act' = [act EXCEPT ![a] = l]
At(a, pc) == act[a].pc = pc
Calm == UNCHANGED <<clock, faults>>
Lists == <<known, wanted>>
History == <<Lists, ran, cut>>

Without(list, t) == [s \in DOMAIN list \ {t} |-> list[s]]
Advance(list, t) == IF t \in DOMAIN list THEN [list EXCEPT ![t].next = clock + 1] ELSE list

-----------------------------------------------------------------------------
\* The loop

\* One pass of _check_and_run begins.
ReadTasks ==
  /\ At(Loop, "idle")
  /\ Become(Loop, [Sleeping EXCEPT !.pc = "scan", !.todo = tasks, !.now = clock])
  /\ UNCHANGED <<tasks, lock, running, History>> /\ Calm

\* Mutant: the guard against double runs is left out.
NeedsWorkMutant(l) ==
  {t \in DOMAIN l.todo :
     l.todo[t].enabled /\ (l.todo[t].next = Never \/ l.now >= l.todo[t].next)}

\* The tasks of the copy the loop must do something about.
NeedsWork(l) ==
  {t \in DOMAIN l.todo :
     /\ l.todo[t].enabled
     /\ l.todo[t].next = Never \/ (l.now >= l.todo[t].next /\ t \notin running)}

\* On to the next of them, in the order of the list: compute its next_run,
\* or run it.  What comes before it needs nothing and is passed in the same
\* step.
ScanNext(t) ==
  LET l == act[Loop]
      rest == [s \in {s \in DOMAIN l.todo : s > t} |-> l.todo[s]]
  IN
  /\ t \in NeedsWork(l) /\ \A s \in NeedsWork(l) : t <= s
  /\ IF l.todo[t].next = Never
     THEN /\ Become(Loop, [l EXCEPT !.pc = "refresh", !.task = t, !.todo = rest])
          /\ UNCHANGED <<running, ran, cut>>
     ELSE /\ Become(Loop, [l EXCEPT !.pc = "run", !.task = t, !.slot = l.todo[t].next,
                                   !.todo = rest])
          /\ running' = running \cup {t}
          /\ ran' = [ran EXCEPT ![t] = l.todo[t].next] /\ cut' = cut \ {t}

Scan ==
  /\ At(Loop, "scan")
  /\ \/ \E t \in Task : ScanNext(t)
     \/ (/\ NeedsWork(act[Loop]) = {} /\ Become(Loop, Sleeping)
         /\ UNCHANGED <<running, ran, cut>>)
  /\ UNCHANGED <<tasks, lock, Lists>> /\ Calm

-----------------------------------------------------------------------------
\* Runs started by hand

\* run_task_now reads the task, checks that it does not run and answers
\* "started"; the run itself begins later.
RunNow(r, t) ==
  /\ At(r, "idle")
  /\ t \in DOMAIN tasks /\ t \notin running
  /\ Become(r, [Sleeping EXCEPT !.pc = "queued", !.task = t])
  /\ UNCHANGED <<tasks, lock, running, History>> /\ Calm

\* _run_task_guarded: a task that runs by now is skipped.
Begin(r) ==
  LET t == act[r].task IN
  /\ At(r, "queued")
  /\ IF t \in running
     THEN Become(r, [Sleeping EXCEPT !.pc = "done"]) /\ UNCHANGED running
     ELSE Become(r, [act[r] EXCEPT !.pc = "run"]) /\ running' = running \cup {t}
  /\ UNCHANGED <<tasks, lock, History>> /\ Calm

-----------------------------------------------------------------------------
\* One execution, by the loop or by hand

\* The finally clause of _run_task_guarded, and on to what comes next; an
\* exception ends the pass of the loop.
Leave(a, raised) ==
  /\ running' = running \ {act[a].task}
  /\ Become(a, IF a # Loop THEN [Sleeping EXCEPT !.pc = "done"]
               ELSE IF raised THEN Sleeping
               ELSE [act[a] EXCEPT !.pc = "scan", !.task = 0, !.slot = 0,
                                          !.copy = <<>>, !.failing = FALSE])

Executing(a) == act[a].pc \in {"run", "update", "save", "log", "late", "lateSave"}

\* History: the run breaks off, and next_run names the slot it was for.
BreaksOff(a) ==
  LET t == act[a].task IN
  cut' = IF a = Loop /\ Executing(a) /\ t \in DOMAIN tasks /\ tasks[t].next = act[a].slot
         THEN cut \cup {t} ELSE cut

\* The agent or workflow ends, in whatever way _execute_task expects.
Executed(a, failing) ==
  /\ At(a, "run")
  /\ Become(a, [act[a] EXCEPT !.pc = "update", !.failing = failing])
  /\ UNCHANGED <<tasks, lock, running, History>> /\ Calm

\* It raises something else: neither next_run nor the log is written.
Raises(a) ==
  /\ At(a, "run") /\ act[a].task \in Unexpected
  /\ Leave(a, TRUE) /\ BreaksOff(a)
  /\ UNCHANGED <<tasks, lock, Lists, ran>> /\ Calm

\* Mutant: the lock is not taken.
TakeLockMutant(a, from, to) ==
  /\ At(a, from)
  /\ Become(a, [act[a] EXCEPT !.pc = to, !.copy = tasks])
  /\ UNCHANGED <<tasks, lock, running, History>> /\ Calm

\* Take _tasks_lock and read the list.
TakeLock(a, from, to) ==
  /\ At(a, from)
  /\ lock = Free /\ lock' = a
  /\ Become(a, [act[a] EXCEPT !.pc = to, !.copy = tasks])
  /\ UNCHANGED <<tasks, running, History>> /\ Calm

\* _update_next_run writes it back.
SaveRefresh ==
  /\ At(Loop, "refreshSave")
  /\ tasks' = Advance(act[Loop].copy, act[Loop].task)
  /\ lock' = Free
  /\ Become(Loop, [act[Loop] EXCEPT !.pc = "scan", !.copy = <<>>])
  /\ UNCHANGED <<running, History>> /\ Calm

\* So does _update_after_execution.
Save(a, from) ==
  /\ At(a, from)
  /\ tasks' = Advance(act[a].copy, act[a].task)
  /\ lock' = Free

SaveExecution(a) ==
  /\ Save(a, "save")
  /\ Become(a, [act[a] EXCEPT !.pc = "log", !.copy = <<>>])
  /\ UNCHANGED <<running, History>> /\ Calm

\* _store_log and the event.
StoreLog(a) ==
  /\ At(a, "log")
  /\ Leave(a, FALSE)
  /\ UNCHANGED <<tasks, lock, History>> /\ Calm

\* Mutant: a run that timed out leaves next_run as it is.
TimeoutMutant(a) ==
  /\ act[a].pc \in {"run", "update", "save", "log"}
  /\ lock' = IF lock = a THEN Free ELSE lock
  /\ Leave(a, FALSE)
  /\ UNCHANGED <<tasks, History>> /\ Calm

\* wait_for gives up, wherever the execution is; next_run is advanced then.
Timeout(a) ==
  /\ act[a].pc \in {"run", "update", "save", "log"}
  /\ lock' = IF lock = a THEN Free ELSE lock
  /\ Become(a, [act[a] EXCEPT !.pc = "late", !.copy = <<>>])
  /\ UNCHANGED <<tasks, running, History>> /\ Calm

\* Mutant: the finally clause is left out here.
SaveLateMutant(a) ==
  /\ Save(a, "lateSave")
  /\ Become(a, IF a = Loop THEN [act[a] EXCEPT !.pc = "scan", !.task = 0, !.copy = <<>>]
               ELSE [Sleeping EXCEPT !.pc = "done"])
  /\ UNCHANGED <<running, History>> /\ Calm

SaveLate(a) ==
  /\ Save(a, "lateSave")
  /\ Leave(a, FALSE)
  /\ UNCHANGED History /\ Calm

-----------------------------------------------------------------------------
\* Edits: all read and write the list under the lock, in one call each

\* create_task appends: the new task is later in the list than all before.
Edited(list, op, t) ==
  CASE op = "create" -> [s \in DOMAIN list \cup {t} |->
                           IF s = t THEN [enabled |-> TRUE, next |-> clock + 1] ELSE list[s]]
    [] op = "delete" -> Without(list, t)
    [] op = "toggle" -> [list EXCEPT ![t].enabled = ~@]
    [] op = "update" -> Advance(list, t)  \* a new cron expression

EditBegin(e, t) ==
  /\ At(e, "idle")
  /\ Become(e, [Sleeping EXCEPT !.pc = "edit", !.task = t])
  /\ UNCHANGED <<tasks, lock, running, History>> /\ Calm

EditSave(e, op) ==
  LET l == act[e] IN
  /\ At(e, "editSave")
  /\ IF op = "create" THEN \A s \in known : l.task > s ELSE l.task \in DOMAIN l.copy
  /\ tasks' = Edited(l.copy, op, l.task)
  /\ known' = known \cup {l.task}
  /\ wanted' = [s \in (DOMAIN wanted \cup {l.task}) \ (IF op = "delete" THEN {l.task} ELSE {}) |->
                  IF s = l.task THEN tasks'[s].enabled ELSE wanted[s]]
  /\ lock' = Free
  /\ Become(e, [Sleeping EXCEPT !.pc = "done"])
  /\ UNCHANGED <<running, ran, cut>> /\ Calm

\* There is no such task: nothing is written.
EditRefused(e) ==
  /\ At(e, "editSave")
  /\ act[e].task \notin DOMAIN act[e].copy
  /\ lock' = Free
  /\ Become(e, [Sleeping EXCEPT !.pc = "done"])
  /\ UNCHANGED <<tasks, running, History>> /\ Calm

-----------------------------------------------------------------------------
\* Time and faults

Tick ==
  /\ clock < MaxTime /\ clock' = clock + 1
  /\ UNCHANGED <<tasks, lock, running, act, faults, History>>

Fault == faults < MaxFaults /\ faults' = faults + 1

\* A call of Redis fails in an execution.  What _SCHEDULER_EXCEPTIONS lists
\* is recorded as an error, unless that is what just failed; anything else,
\* redis-py's own errors included, ends the run at once.
StoreFails(a, listed) ==
  /\ Fault
  /\ act[a].pc \in {"save", "log"}
  /\ lock' = IF lock = a THEN Free ELSE lock
  /\ IF listed /\ ~act[a].failing
     THEN /\ Become(a, [act[a] EXCEPT !.pc = "update", !.copy = <<>>, !.failing = TRUE])
          /\ UNCHANGED <<running, cut>>
     ELSE Leave(a, TRUE) /\ BreaksOff(a)
  /\ UNCHANGED <<tasks, clock, Lists, ran>>

\* The same in the update after a timeout, where a listed error is logged.
LateFails(a, listed) ==
  /\ Fault
  /\ At(a, "lateSave")
  /\ lock' = Free
  /\ Leave(a, ~listed) /\ BreaksOff(a)
  /\ UNCHANGED <<tasks, clock, Lists, ran>>

Restart ==
  /\ Fault
  /\ lock' = Free /\ running' = {}
  /\ act' = [a \in Actors |-> IF a = Loop \/ At(a, "idle") THEN Sleeping
                              ELSE [Sleeping EXCEPT !.pc = "done"]]
  /\ BreaksOff(Loop)
  /\ UNCHANGED <<tasks, clock, Lists, ran>>

-----------------------------------------------------------------------------

Execution(a) ==
  \/ \E failing \in BOOLEAN : Executed(a, failing)
  \/ Raises(a)
  \/ TakeLock(a, "update", "save")
  \/ SaveExecution(a)
  \/ StoreLog(a)
  \/ Timeout(a)
  \/ TakeLock(a, "late", "lateSave")
  \/ SaveLate(a)

LoopTakesLock ==
  \/ TakeLock(Loop, "refresh", "refreshSave")
  \/ TakeLock(Loop, "update", "save")
  \/ TakeLock(Loop, "late", "lateSave")

LoopStep ==
  \/ ReadTasks
  \/ Scan
  \/ TakeLock(Loop, "refresh", "refreshSave")
  \/ SaveRefresh
  \/ Execution(Loop)

RunStep(r) == Begin(r) \/ Execution(r)

EditStep(e) ==
  \/ TakeLock(e, "edit", "editSave")
  \/ \E op \in {"create", "delete", "toggle", "update"} : EditSave(e, op)
  \/ EditRefused(e)

Next ==
  \/ LoopStep
  \/ \E r \in Runs : RunStep(r) \/ \E t \in Task : RunNow(r, t)
  \/ \E e \in Edits : EditStep(e) \/ \E t \in Task : EditBegin(e, t)
  \/ \E a \in Workers, listed \in BOOLEAN : StoreFails(a, listed) \/ LateFails(a, listed)
  \/ Restart
  \/ Tick

\* The loop sleeps 30 seconds, an execution has 600, and what holds or wants
\* the lock gets on: asyncio.Lock is fair.
Fairness ==
  /\ WF_vars(LoopStep)
  /\ SF_vars(LoopTakesLock)
  /\ \A r \in Runs : WF_vars(RunStep(r))
  /\ \A e \in Edits : WF_vars(EditStep(e))

Spec == Init /\ [][Next]_vars /\ Fairness

-----------------------------------------------------------------------------
(* Properties *)

\* The types, and: the lock is held by an actor that is about to save.
TypeOK ==
  /\ DOMAIN tasks \subseteq Task /\ \A t \in DOMAIN tasks : tasks[t] \in Entry
  /\ lock \in {Free} \cup Actors
  /\ \A a \in Actors : lock = a <=> act[a].pc \in {"save", "lateSave", "refreshSave", "editSave"}
  /\ running \subseteq Task
  /\ clock \in 1..MaxTime /\ faults \in 0..MaxFaults
  /\ DOMAIN wanted \subseteq known /\ known \subseteq Task
  /\ ran \in [Task -> 0..MaxTime] /\ cut \subseteq Task

\* No task runs twice at the same time, however the loop and the requests
\* interleave (agents/scheduler_agent.py:171).
NoParallelRun ==
  \A a, b \in Workers :
    a # b /\ Executing(a) /\ Executing(b) => act[a].task # act[b].task

\* _running_task_ids names exactly the tasks that run: an entry left behind
\* would stop the task for the life of the process.
RunningIsExact == running = {act[a].task : a \in {b \in Workers : Executing(b)}}

\* No update after an execution undoes an edit: a deleted task does not come
\* back, a disabled one stays disabled, a new one is not lost.
EditsSurvive ==
  /\ DOMAIN tasks = DOMAIN wanted
  /\ \A t \in DOMAIN tasks : tasks[t].enabled = wanted[t]

\* The loop does not run a task again in a slot it has run it in, or in an
\* earlier one, a run that timed out included (agents/scheduler_agent.py:195).
\* Once more it does where the last run broke off with next_run naming the
\* slot still: on an exception _execute_task does not expect, on a failing
\* Redis call, or with the process (:189-206, :432).
SlotIsNew ==
  \A t \in Task :
    At(Loop, "scan") /\ At(Loop, "run")' /\ act'[Loop].task = t
    => \/ act'[Loop].slot > ran[t]
       \/ act'[Loop].slot = ran[t] /\ t \in cut
OncePerSlot == [][SlotIsNew]_vars

\* A due task does not stay due: agents/scheduler_agent.py:130 catches what
\* is unexpected so that cron tasks do not stand still.
Due(t) == t \in DOMAIN tasks /\ tasks[t].enabled /\ tasks[t].next <= clock
NoTaskStandsStill == \A t \in Task \ Unexpected : Due(t) ~> ~Due(t)
=============================================================================
