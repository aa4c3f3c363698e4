--------------------------- MODULE SchedulerProofs ---------------------------
(***************************************************************************)
(* The scheduler, for any tasks, runs by hand, edits, slots and faults: no *)
(* task runs twice at once, _running_task_ids is exact, no edit is lost    *)
(* and the loop runs a task once per slot, but for a run that broke off.   *)
(***************************************************************************)
EXTENDS Scheduler, TLAPS

Exec == {"run", "update", "save", "log", "late", "lateSave"}
Saving == {"save", "lateSave", "refreshSave", "editSave"}
PC == {"idle", "scan", "refresh", "refreshSave", "queued", "edit", "editSave", "done"} \cup Exec

List == UNION {[ids -> Entry] : ids \in SUBSET Task}
ActState == [pc : PC, task : Task \cup {0}, todo : List, now : 0..MaxTime,
             slot : 0..(MaxTime + 1), copy : List, failing : BOOLEAN]

Typed ==
  /\ tasks \in List
  /\ lock \in {Free} \cup Actors
  /\ running \subseteq Task
  /\ clock \in 1..MaxTime /\ faults \in 0..MaxFaults
  /\ known \subseteq Task /\ DOMAIN wanted \subseteq known
  /\ ran \in [Task -> 0..MaxTime] /\ cut \subseteq Task

\* What each kind of actor does, and that it does it to a task.
Fits(a, l) ==
  /\ l \in ActState
  /\ a = Loop => l.pc \in {"idle", "scan", "refresh", "refreshSave"} \cup Exec
  /\ a \in Runs => l.pc \in {"idle", "queued", "done"} \cup Exec
  /\ a \in Edits => l.pc \in {"idle", "edit", "editSave", "done"}
  /\ l.pc \notin {"idle", "scan", "done"} => l.task \in Task
Placed == act \in [Actors -> ActState] /\ \A a \in Actors : Fits(a, act[a])

\* Who is about to save has the lock, and the copy it holds is the list.
Locked ==
  \A a \in Actors :
    /\ lock = a <=> act[a].pc \in Saving
    /\ act[a].pc \in Saving => act[a].copy = tasks

Exact == RunningIsExact /\ NoParallelRun

\* The loop may run the task in slot n: a later one than it last ran it in,
\* or that one, where the run broke off.
Fresh(t, n) == n > ran[t] \/ (n = ran[t] /\ t \in cut)

\* Every next_run of the list is fresh, but that of the task the loop runs:
\* it may name the slot it runs for.
Ahead(l, list) ==
  \A t \in DOMAIN list :
    \/ list[t].next = Never \/ Fresh(t, list[t].next)
    \/ l.pc \in Exec /\ l.task = t /\ list[t].next = ran[t]

\* So is every one in what the loop has left of the copy it reads; where the
\* list says otherwise by now, it names a slot after the pass.
OnTime(l, list) ==
  /\ \A t \in DOMAIN l.todo : l.todo[t].next = Never \/ Fresh(t, l.todo[t].next)
  /\ \A t \in DOMAIN l.todo \cap DOMAIN list :
       list[t].next = l.todo[t].next \/ list[t].next > l.now
  /\ l.now <= clock
  /\ l.pc \in Exec => l.slot = ran[l.task] /\ l.task \notin DOMAIN l.todo
  /\ l.pc = "log" /\ l.task \in DOMAIN list => list[l.task].next > l.slot
Slots ==
  /\ Ahead(act[Loop], tasks) /\ OnTime(act[Loop], tasks)
  /\ \A t \in Task : ran[t] <= clock

IInv == Typed /\ Placed /\ Locked /\ Exact /\ Slots /\ EditsSurvive

USE TaskAssumption, BoundsAssumption, NamesDistinct

LEMMA ActorFacts ==
  /\ Loop \in Workers /\ Loop \in Actors /\ Workers \subseteq Actors /\ Free \notin Actors
  /\ \A r \in Runs : r \in Workers /\ r # Loop
  /\ \A e \in Edits : e \in Actors /\ e \notin Workers /\ e # Loop
BY DEF Actors, Workers

-----------------------------------------------------------------------------
(* Lists *)

LEMMA ListFacts ==
  /\ <<>> \in List
  /\ \A list \in List : DOMAIN list \subseteq Task /\ \A t \in DOMAIN list : list[t] \in Entry
  /\ \A ids \in SUBSET Task : [ids -> Entry] \subseteq List
<1>1. <<>> \in [{} -> Entry] BY SMT
<1>2. \A ids \in SUBSET Task : [ids -> Entry] \subseteq List BY DEF List
<1>3. <<>> \in List BY <1>1, <1>2
<1>4. ASSUME NEW list \in List
      PROVE  DOMAIN list \subseteq Task /\ \A t \in DOMAIN list : list[t] \in Entry
  <2>1. PICK ids \in SUBSET Task : list \in [ids -> Entry] BY DEF List
  <2> QED BY <2>1
<1> QED BY <1>2, <1>3, <1>4

LEMMA ListIntro ==
  ASSUME NEW list, list = [t \in DOMAIN list |-> list[t]], DOMAIN list \subseteq Task,
         \A t \in DOMAIN list : list[t] \in Entry
  PROVE  list \in List
<1>1. list \in [DOMAIN list -> Entry] OBVIOUS
<1> QED BY <1>1, ListFacts

\* What an edit of the list may do to the next_run of a task: nothing, or
\* set it to a later slot.
Later(list) ==
  \A t \in DOMAIN list :
    \/ t \in DOMAIN tasks /\ list[t].next = tasks[t].next
    \/ list[t].next = clock + 1

LEMMA AdvanceFacts ==
  ASSUME Typed, NEW t \in Task
  PROVE  /\ Advance(tasks, t) \in List
         /\ DOMAIN Advance(tasks, t) = DOMAIN tasks
         /\ \A s \in DOMAIN tasks : Advance(tasks, t)[s].enabled = tasks[s].enabled
         /\ Later(Advance(tasks, t))
         /\ t \in DOMAIN tasks => Advance(tasks, t)[t].next = clock + 1
<1> DEFINE new == Advance(tasks, t)
<1>1. CASE t \notin DOMAIN tasks
  BY <1>1 DEF Advance, Typed, Later
<1>2. CASE t \in DOMAIN tasks
  <2>1. tasks \in [DOMAIN tasks -> Entry] /\ DOMAIN tasks \subseteq Task BY DEF Typed, List
  <2>2. new = [tasks EXCEPT ![t].next = clock + 1] BY <1>2 DEF Advance
  <2>3. clock + 1 \in 0..(MaxTime + 1) BY DEF Typed
  <2>4. DOMAIN new = DOMAIN tasks /\ \A s \in DOMAIN tasks : s # t => new[s] = tasks[s]
    BY <2>1, <2>2
  <2>5. new[t] = [tasks[t] EXCEPT !.next = clock + 1] BY <1>2, <2>1, <2>2
  <2>6. tasks[t] \in Entry BY <1>2, <2>1
  <2>7. new[t] \in Entry /\ new[t].next = clock + 1 /\ new[t].enabled = tasks[t].enabled
    BY <2>3, <2>5, <2>6 DEF Entry
  <2>8. new \in [DOMAIN tasks -> Entry] BY <2>1, <2>2, <2>4, <2>7
  <2> HIDE DEF new
  <2>9. new \in List BY <2>1, <2>8, ListFacts
  <2>10. Later(new) BY <2>4, <2>7 DEF Later
  <2>11. \A s \in DOMAIN tasks : new[s].enabled = tasks[s].enabled BY <2>4, <2>7
  <2> QED BY <2>4, <2>7, <2>9, <2>10, <2>11 DEF new
<1> QED BY <1>1, <1>2

-----------------------------------------------------------------------------
(* One step of one actor: what it does to each part of the invariant *)

LEMMA BecomeFacts ==
  ASSUME Placed, NEW a \in Actors, NEW l, Fits(a, l), Become(a, l)
  PROVE  Placed' /\ act'[a] = l /\ \A b \in Actors \ {a} : act'[b] = act[b]
<1>1. act \in [Actors -> ActState] /\ l \in ActState BY DEF Placed, Fits
<1>2. act' \in [Actors -> ActState] /\ act'[a] = l /\ \A b \in Actors \ {a} : act'[b] = act[b]
  BY <1>1 DEF Become
<1>3. \A b \in Actors : Fits(b, act'[b]) BY <1>2 DEF Placed
<1> QED BY <1>2, <1>3 DEF Placed

\* An actor takes the lock and the list, or it leaves the lock alone or
\* gives it back; only the holder writes the list.
LockStep(a, l) ==
  \/ lock = Free /\ lock' = a /\ l.pc \in Saving /\ l.copy = tasks /\ tasks' = tasks
  \/ (/\ l.pc \notin Saving
      /\ lock' = (IF lock = a THEN Free ELSE lock)
      /\ tasks' = tasks \/ lock = a)

LEMMA StepLocked ==
  ASSUME Typed, Placed, Locked, NEW a \in Actors, NEW l, Fits(a, l), Become(a, l),
         LockStep(a, l)
  PROVE  Locked' /\ lock' \in {Free} \cup Actors
<1>1. act'[a] = l /\ \A b \in Actors \ {a} : act'[b] = act[b] BY BecomeFacts
<1>2. lock' \in {Free} \cup Actors BY DEF LockStep, Typed
<1>3. Locked'
  <2>1. SUFFICES ASSUME NEW b \in Actors
                 PROVE  /\ lock' = b <=> act'[b].pc \in Saving
                        /\ act'[b].pc \in Saving => act'[b].copy = tasks'
    BY DEF Locked
  <2>2. CASE b = a BY <1>1, <2>2, ActorFacts DEF LockStep, Locked
  <2>3. CASE b # a BY <1>1, <2>3, ActorFacts DEF LockStep, Locked
  <2> QED BY <2>2, <2>3
<1> QED BY <1>2, <1>3

\* A worker goes on with its task, begins one that does not run, or ends it.
RunStepOf(a, l) ==
  \/ (/\ running' = running
      /\ a \in Workers => (l.pc \in Exec <=> act[a].pc \in Exec)
      /\ act[a].pc \in Exec => l.task = act[a].task)
  \/ (/\ a \in Workers /\ act[a].pc \notin Exec /\ l.pc \in Exec
      /\ l.task \notin running /\ running' = running \cup {l.task})
  \/ (/\ a \in Workers /\ act[a].pc \in Exec /\ l.pc \notin Exec
      /\ running' = running \ {act[a].task})

LEMMA ExactAlt ==
  Exact <=> (/\ \A b \in Workers : act[b].pc \in Exec => act[b].task \in running
             /\ \A t \in running : \E b \in Workers : act[b].pc \in Exec /\ act[b].task = t
             /\ \A b, c \in Workers : b # c /\ act[b].pc \in Exec /\ act[c].pc \in Exec
                                      => act[b].task # act[c].task)
BY DEF Exact, RunningIsExact, NoParallelRun, Executing, Exec

LEMMA StepExact ==
  ASSUME Typed, Placed, Exact, NEW a \in Actors, NEW l, Fits(a, l), Become(a, l),
         RunStepOf(a, l)
  PROVE  Exact' /\ running' \subseteq Task
<1>1. act'[a] = l /\ \A b \in Actors \ {a} : act'[b] = act[b] BY BecomeFacts
<1>2. Workers \subseteq Actors BY ActorFacts
<1>3. l.pc \in Exec => l.task \in Task BY DEF Fits, Exec
<1>4. running' \subseteq Task
  <2>1. running \subseteq Task BY DEF Typed
  <2>2. CASE running' = running BY <2>1, <2>2
  <2>3. CASE l.pc \in Exec /\ running' = running \cup {l.task} BY <1>3, <2>1, <2>3
  <2>4. CASE running' = running \ {act[a].task} BY <2>1, <2>4
  <2> QED BY <2>2, <2>3, <2>4 DEF RunStepOf
<1> DEFINE Named == \A b \in Workers : act[b].pc \in Exec => act[b].task \in running
           Run == \A t \in running : \E b \in Workers : act[b].pc \in Exec /\ act[b].task = t
           Once == \A b, c \in Workers : b # c /\ act[b].pc \in Exec /\ act[c].pc \in Exec
                                         => act[b].task # act[c].task
<1>5. Named /\ Run /\ Once BY ExactAlt
<1>6. Exact' <=> Named' /\ Run' /\ Once' BY ExactAlt, PTL
<1>7. Named'
  <2>1. CASE running' = running BY <1>1, <1>2, <1>5, <2>1 DEF RunStepOf
  <2>2. CASE running' = running \cup {l.task} BY <1>1, <1>2, <1>5, <2>2 DEF RunStepOf
  <2>3. CASE running' = running \ {act[a].task} BY <1>1, <1>2, <1>5, <2>3 DEF RunStepOf
  <2> QED BY <2>1, <2>2, <2>3 DEF RunStepOf
<1>8. Run'
  <2>1. SUFFICES ASSUME NEW t \in running'
                 PROVE  \E b \in Workers : act'[b].pc \in Exec /\ act'[b].task = t
    OBVIOUS
  <2>2. CASE t \in running
    <3>1. PICK b \in Workers : act[b].pc \in Exec /\ act[b].task = t BY <1>5, <2>2
    <3>2. CASE b # a BY <1>1, <1>2, <3>1, <3>2
    <3>3. CASE b = a BY <1>1, <2>2, <3>1, <3>3 DEF RunStepOf
    <3> QED BY <3>2, <3>3
  <2>3. CASE t \notin running BY <1>1, <2>3 DEF RunStepOf
  <2> QED BY <2>2, <2>3
<1>9. Once'
  <2>1. SUFFICES ASSUME NEW b \in Workers, NEW c \in Workers, b # c,
                        act'[b].pc \in Exec, act'[c].pc \in Exec
                 PROVE  act'[b].task # act'[c].task
    OBVIOUS
  <2>2. CASE a \notin {b, c} BY <1>1, <1>2, <1>5, <2>1, <2>2
  <2>3. CASE a = b BY <1>1, <1>2, <1>5, <2>1, <2>3 DEF RunStepOf
  <2>4. CASE a = c BY <1>1, <1>2, <1>5, <2>1, <2>4 DEF RunStepOf
  <2> QED BY <2>2, <2>3, <2>4
<1> HIDE DEF Named, Run, Once
<1> QED BY <1>4, <1>6, <1>7, <1>8, <1>9

\* The list keeps its slots or gets later ones, and the loop goes on with what
\* it does; a run it ends without a fault has written its next_run.
Onward(a, l) ==
  /\ tasks' = tasks \/ Later(tasks')
  /\ ran' = ran /\ cut' = cut
  /\ a = Loop =>
       /\ OnTime(l, tasks')
       /\ act[a].pc \in Exec =>
            \/ l.pc \in Exec /\ l.task = act[a].task
            \/ act[a].task \in DOMAIN tasks' => tasks'[act[a].task].next > act[a].slot

\* The loop begins a run of a task of its copy.
Starts(a, l) ==
  /\ a = Loop /\ act[a].pc \notin Exec /\ l.pc \in Exec /\ l.pc # "log"
  /\ tasks' = tasks
  /\ l.task \in DOMAIN act[a].todo /\ l.slot = act[a].todo[l.task].next
  /\ l.slot # Never /\ l.slot <= act[a].now
  /\ ran' = [ran EXCEPT ![l.task] = l.slot] /\ cut' = cut \ {l.task}
  /\ \A s \in DOMAIN l.todo :
       s # l.task /\ s \in DOMAIN act[a].todo /\ l.todo[s] = act[a].todo[s]
  /\ l.now = act[a].now

\* A run breaks off.
Falls(a, l) ==
  /\ a \in Workers /\ act[a].pc \in Exec /\ l.pc \notin Exec
  /\ tasks' = tasks /\ ran' = ran /\ BreaksOff(a)
  /\ a = Loop =>
       /\ \A s \in DOMAIN l.todo : s \in DOMAIN act[a].todo /\ l.todo[s] = act[a].todo[s]
       /\ l.now = act[a].now \/ (l.now = 0 /\ DOMAIN l.todo = {})

SlotStep(a, l) == Onward(a, l) \/ Starts(a, l) \/ Falls(a, l)

\* What holds of the loop goes on holding while the list gets later slots.
LEMMA StaysOnTime ==
  ASSUME Typed, NEW k \in ActState, NEW l \in ActState, OnTime(k, tasks),
         l.todo = k.todo, l.now = k.now,
         l.pc \in Exec => k.pc \in Exec /\ l.task = k.task /\ l.slot = k.slot,
         tasks' \in List, tasks' = tasks \/ Later(tasks'),
         l.pc = "log" /\ l.task \in DOMAIN tasks'
           => tasks'[l.task].next > l.slot
  PROVE  OnTime(l, tasks')
<1>1. clock \in Nat /\ k.now \in Nat BY DEF Typed, ActState
<1>2. ASSUME NEW t \in DOMAIN l.todo \cap DOMAIN tasks'
      PROVE  tasks'[t].next = l.todo[t].next \/ tasks'[t].next > l.now
  <2>1. CASE t \in DOMAIN tasks /\ tasks'[t].next = tasks[t].next
    BY <1>2, <2>1 DEF OnTime
  <2>2. CASE tasks'[t].next = clock + 1
    <3>1. k.now <= clock BY DEF OnTime
    <3> QED BY <1>1, <2>2, <3>1
  <2> QED BY <1>2, <2>1, <2>2 DEF Later
<1> QED BY <1>2 DEF OnTime

LEMMA StepSlots ==
  ASSUME Typed, Placed, Slots, NEW a \in Actors, NEW l, Fits(a, l), Become(a, l),
         tasks' \in List, clock' = clock, SlotStep(a, l)
  PROVE  Slots' /\ ran' \in [Task -> 0..MaxTime] /\ cut' \subseteq Task
<1> DEFINE k == act[Loop]
<1>1. act'[a] = l /\ \A b \in Actors \ {a} : act'[b] = act[b] BY BecomeFacts
<1>2. /\ Loop \in Actors /\ Fits(Loop, k) /\ k \in ActState /\ l \in ActState
  BY ActorFacts DEF Placed, Fits
<1>3. /\ DOMAIN tasks \subseteq Task /\ \A t \in DOMAIN tasks : tasks[t].next \in Nat
      /\ DOMAIN tasks' \subseteq Task /\ \A t \in DOMAIN tasks' : tasks'[t].next \in Nat
      /\ DOMAIN k.todo \subseteq Task /\ \A t \in DOMAIN k.todo : k.todo[t].next \in Nat
  <2>1. k.todo \in List BY <1>2 DEF ActState
  <2>2. \A e \in Entry : e.next \in Nat BY DEF Entry
  <2> HIDE DEF k
  <2> QED BY <2>1, <2>2, ListFacts DEF Typed
<1>4. /\ clock \in Nat /\ clock <= MaxTime /\ ran \in [Task -> 0..MaxTime]
      /\ cut \subseteq Task /\ \A t \in Task : ran[t] \in Nat /\ ran[t] <= clock
  BY DEF Typed, Slots
<1>5. Ahead(k, tasks) /\ OnTime(k, tasks) BY DEF Slots
<1>6. k.now \in Nat /\ k.slot \in Nat /\ k.now <= clock BY <1>2, <1>5 DEF ActState, OnTime
<1> HIDE DEF k
<1>7. CASE Onward(a, l)
  <2>1. ran' = ran /\ cut' = cut /\ (tasks' = tasks \/ Later(tasks')) BY <1>7 DEF Onward
  <2>2. ASSUME NEW t \in DOMAIN tasks'
        PROVE  \/ tasks'[t].next = Never \/ Fresh(t, tasks'[t].next)
               \/ k.pc \in Exec /\ k.task = t /\ tasks'[t].next = ran[t]
    <3>1. t \in Task /\ ran[t] \in Nat /\ ran[t] <= clock BY <1>3, <1>4
    <3>2. CASE t \in DOMAIN tasks /\ tasks'[t].next = tasks[t].next
      BY <1>5, <3>2 DEF Ahead
    <3>3. CASE tasks'[t].next = clock + 1 BY <1>4, <3>1, <3>3 DEF Fresh
    <3> QED BY <2>1, <3>2, <3>3 DEF Later
  <2>3. CASE a # Loop
    <3>1. act'[Loop] = k BY <1>1, <1>2, <2>3 DEF k
    <3>2. k.pc = "log" /\ k.task \in DOMAIN tasks' => tasks'[k.task].next > k.slot
      <4>1. SUFFICES ASSUME k.pc = "log", k.task \in DOMAIN tasks'
                     PROVE  tasks'[k.task].next > k.slot
        OBVIOUS
      <4>2. k.slot = ran[k.task] /\ k.task \in Task
        BY <1>3, <1>5, <4>1 DEF OnTime, Exec
      <4>3. CASE k.task \in DOMAIN tasks /\ tasks'[k.task].next = tasks[k.task].next
        BY <1>5, <4>1, <4>3 DEF OnTime
      <4>4. CASE tasks'[k.task].next = clock + 1
        <5>1. ran[k.task] \in Nat /\ ran[k.task] <= clock /\ clock \in Nat BY <1>4, <4>2
        <5> QED BY <4>2, <4>4, <5>1
      <4> QED BY <2>1, <4>1, <4>3, <4>4 DEF Later
    <3>3. OnTime(k, tasks') BY <1>2, <1>5, <2>1, <3>2, StaysOnTime
    <3>4. Ahead(k, tasks') BY <2>2 DEF Ahead
    <3> QED BY <1>4, <2>1, <3>1, <3>3, <3>4 DEF Slots, Ahead, OnTime, Fresh
  <2>4. CASE a = Loop
    <3>1. act'[Loop] = l /\ OnTime(l, tasks') BY <1>1, <1>7, <2>4 DEF Onward
    <3>2. ASSUME NEW t \in DOMAIN tasks'
          PROVE  \/ tasks'[t].next = Never \/ Fresh(t, tasks'[t].next)
                 \/ l.pc \in Exec /\ l.task = t /\ tasks'[t].next = ran[t]
      <4>1. CASE ~(k.pc \in Exec /\ k.task = t) BY <2>2, <4>1
      <4>2. CASE k.pc \in Exec /\ k.task = t
        <5>1. k.slot = ran[t] BY <1>5, <4>2 DEF OnTime
        <5>2. CASE l.pc \in Exec /\ l.task = t BY <2>2, <5>2
        <5>3. CASE tasks'[t].next > k.slot BY <5>1, <5>3 DEF Fresh
        <5> QED BY <1>7, <2>4, <4>2, <5>2, <5>3 DEF Onward, k
      <4> QED BY <4>1, <4>2
    <3>3. Ahead(l, tasks') BY <3>2 DEF Ahead
    <3> QED BY <1>4, <2>1, <3>1, <3>3 DEF Slots, Ahead, OnTime, Fresh
  <2> QED BY <2>1, <2>3, <2>4, <1>4
<1>8. CASE Starts(a, l)
  <2> DEFINE t == l.task
             n == l.slot
  <2>1. /\ k.pc \notin Exec /\ l.pc \in Exec /\ l.pc # "log" /\ tasks' = tasks
        /\ t \in DOMAIN k.todo /\ n = k.todo[t].next /\ n # Never /\ n <= k.now
        /\ ran' = [ran EXCEPT ![t] = n] /\ cut' = cut \ {t}
        /\ \A s \in DOMAIN l.todo : s # t /\ s \in DOMAIN k.todo /\ l.todo[s] = k.todo[s]
        /\ l.now = k.now /\ act'[Loop] = l
    BY <1>1, <1>8 DEF Starts, k
  <2> HIDE DEF t, n
  <2>2. t \in Task /\ n \in Nat /\ n <= clock BY <1>3, <1>4, <1>6, <2>1
  <2>3. n \in 0..MaxTime BY <1>4, <2>2
  <2>4. /\ ran' \in [Task -> 0..MaxTime] /\ ran'[t] = n
        /\ \A s \in Task : s # t => ran'[s] = ran[s]
    BY <1>4, <2>1, <2>2, <2>3
  <2>5. cut' \subseteq Task /\ \A s \in Task : ran'[s] <= clock' BY <1>4, <2>1, <2>2, <2>4
  <2>6. ASSUME NEW s \in DOMAIN tasks
        PROVE  \/ tasks[s].next = Never \/ Fresh(s, tasks[s].next)'
               \/ l.pc \in Exec /\ t = s /\ tasks[s].next = ran'[s]
    <3>1. CASE s = t
      <4>1. tasks[t].next = n \/ tasks[t].next > k.now BY <1>5, <2>1, <3>1 DEF OnTime
      <4>2. CASE tasks[t].next = n BY <2>1, <2>4, <3>1, <4>2
      <4>3. CASE tasks[t].next > k.now
        <5>1. tasks[t].next > n BY <1>3, <1>6, <2>1, <2>2, <2>6, <3>1, <4>3
        <5> QED BY <2>1, <2>4, <3>1, <5>1 DEF Fresh
      <4> QED BY <4>1, <4>2, <4>3
    <3>2. CASE s # t
      <4>1. s \in Task /\ ran'[s] = ran[s] /\ (s \in cut' <=> s \in cut)
        BY <1>3, <2>1, <2>4, <3>2
      <4>2. tasks[s].next = Never \/ Fresh(s, tasks[s].next) BY <1>5, <2>1 DEF Ahead
      <4> QED BY <2>1, <4>1, <4>2 DEF Fresh
    <3> QED BY <3>1, <3>2
  <2>7. \A s \in DOMAIN l.todo : l.todo[s].next = Never \/ Fresh(s, l.todo[s].next)'
    <3>1. SUFFICES ASSUME NEW s \in DOMAIN l.todo
                   PROVE  l.todo[s].next = Never \/ Fresh(s, l.todo[s].next)'
      OBVIOUS
    <3>2. s # t /\ s \in DOMAIN k.todo /\ l.todo[s] = k.todo[s] BY <2>1
    <3>3. s \in Task /\ ran'[s] = ran[s] /\ (s \in cut' <=> s \in cut)
      BY <1>3, <2>1, <2>4, <3>2
    <3>4. l.todo[s].next = Never \/ Fresh(s, l.todo[s].next) BY <1>5, <3>2 DEF OnTime
    <3>5. Fresh(s, l.todo[s].next) => Fresh(s, l.todo[s].next)' BY <2>1, <3>3 DEF Fresh
    <3> QED BY <3>4, <3>5
  <2>8. \A s \in DOMAIN l.todo \cap DOMAIN tasks :
          tasks[s].next = l.todo[s].next \/ tasks[s].next > l.now
    BY <1>5, <2>1 DEF OnTime
  <2>9. l.slot = ran'[l.task] /\ l.task \notin DOMAIN l.todo BY <2>1, <2>4 DEF t, n
  <2>10. OnTime(act[Loop], tasks)' BY <1>6, <2>1, <2>7, <2>8, <2>9 DEF OnTime
  <2>11. Ahead(act[Loop], tasks)' BY <2>1, <2>6 DEF Ahead, t
  <2> QED BY <2>4, <2>5, <2>10, <2>11 DEF Slots
<1>9. CASE Falls(a, l)
  <2>1. tasks' = tasks /\ ran' = ran /\ BreaksOff(a) /\ act[a].pc \in Exec /\ l.pc \notin Exec
    BY <1>9 DEF Falls
  <2>2. /\ cut \subseteq cut'
        /\ a # Loop => cut' = cut
        /\ a = Loop /\ k.task \in DOMAIN tasks /\ tasks[k.task].next = k.slot
             => k.task \in cut'
        /\ cut' \subseteq Task
    <3>1. k.task \in DOMAIN tasks => k.task \in Task BY <1>3
    <3>2. Executing(a) BY <2>1 DEF Executing, Exec
    <3> QED BY <1>4, <2>1, <3>1, <3>2 DEF BreaksOff, k
  <2>4. CASE a # Loop
    <3>1. act'[Loop] = k /\ cut' = cut BY <1>1, <1>2, <2>2, <2>4 DEF k
    <3> QED BY <1>4, <1>5, <2>1, <2>2, <3>1 DEF Slots, Ahead, OnTime, Fresh
  <2>5. CASE a = Loop
    <3>1. /\ act'[Loop] = l /\ l.pc \notin Exec /\ l.pc # "log" /\ k.pc \in Exec
          /\ \A s \in DOMAIN l.todo : s \in DOMAIN k.todo /\ l.todo[s] = k.todo[s]
          /\ l.now = k.now \/ (l.now = 0 /\ DOMAIN l.todo = {})
      BY <1>1, <1>9, <2>1, <2>5 DEF Falls, k, Exec
    <3>2. l.now <= clock' BY <1>4, <1>6, <3>1
    <3>3. \A s \in DOMAIN l.todo : l.todo[s].next = Never \/ Fresh(s, l.todo[s].next)'
      BY <1>5, <2>1, <2>2, <3>1 DEF OnTime, Fresh
    <3>4. \A s \in DOMAIN l.todo \cap DOMAIN tasks :
            tasks[s].next = l.todo[s].next \/ tasks[s].next > l.now
      BY <1>5, <3>1 DEF OnTime
    <3>5. OnTime(act[Loop], tasks)' BY <2>1, <3>1, <3>2, <3>3, <3>4 DEF OnTime
    <3>6. ASSUME NEW t \in DOMAIN tasks
          PROVE  tasks[t].next = Never \/ Fresh(t, tasks[t].next)'
      <4>1. CASE Fresh(t, tasks[t].next) BY <2>1, <2>2, <4>1 DEF Fresh
      <4>2. CASE k.pc \in Exec /\ k.task = t /\ tasks[t].next = ran[t]
        <5>1. k.slot = ran[t] BY <1>5, <4>2 DEF OnTime
        <5>2. t \in cut' BY <2>2, <2>5, <3>6, <4>2, <5>1
        <5> QED BY <2>1, <4>2, <5>2 DEF Fresh
      <4> QED BY <1>5, <3>6, <4>1, <4>2 DEF Ahead
    <3>7. Ahead(act[Loop], tasks)' BY <2>1, <3>1, <3>6 DEF Ahead
    <3> QED BY <1>4, <2>1, <2>2, <3>5, <3>7 DEF Slots
  <2> QED BY <1>4, <2>1, <2>2, <2>4, <2>5
<1> QED BY <1>7, <1>8, <1>9 DEF SlotStep

\* The tasks of the list and their enabled flags stay as they are.
Content ==
  /\ tasks' \in List /\ DOMAIN tasks' = DOMAIN tasks
  /\ \A s \in DOMAIN tasks : tasks'[s].enabled = tasks[s].enabled

Rest ==
  /\ known' = known /\ wanted' = wanted /\ clock' = clock
  /\ faults' \in 0..MaxFaults

LEMMA Step ==
  ASSUME IInv, NEW a \in Actors, NEW l, Fits(a, l), Become(a, l), LockStep(a, l),
         RunStepOf(a, l), SlotStep(a, l), Content, Rest
  PROVE  IInv'
<1>1. Typed /\ Placed /\ Locked /\ Exact /\ Slots /\ EditsSurvive BY DEF IInv
<1>2. Placed' BY <1>1, BecomeFacts
<1>3. Locked' /\ lock' \in {Free} \cup Actors BY <1>1, StepLocked
<1>4. Exact' /\ running' \subseteq Task BY <1>1, StepExact
<1>5. tasks' \in List /\ clock' = clock BY DEF Content, Rest
<1>6. Slots' /\ ran' \in [Task -> 0..MaxTime] /\ cut' \subseteq Task
  BY <1>1, <1>5, StepSlots
<1>7. Typed' BY <1>1, <1>3, <1>4, <1>5, <1>6 DEF Typed, Rest
<1>8. EditsSurvive' BY <1>1 DEF EditsSurvive, Content, Rest
<1> QED BY <1>2, <1>3, <1>4, <1>6, <1>7, <1>8 DEF IInv

LEMMA SameList ==
  ASSUME Typed, tasks' = tasks
  PROVE  Content
BY DEF Content, Typed

LEMMA Sleepers ==
  /\ Sleeping \in ActState /\ Sleeping.pc = "idle" /\ Sleeping.todo = <<>> /\ Sleeping.now = 0
  /\ \A l : l = [Sleeping EXCEPT !.pc = "done"] => l \in ActState /\ l.pc = "done"
<1>1. "idle" \in PC /\ "done" \in PC BY DEF PC
<1>2. <<>> \in List BY ListFacts
<1>3. /\ 0 \in 0..MaxTime /\ 0 \in 0..(MaxTime + 1)
  BY SMT DEF BoundsAssumption
<1> HIDE DEF PC, List
<1>4. Sleeping \in ActState BY <1>1, <1>2, <1>3 DEF Sleeping, ActState
<1>5. Sleeping.pc = "idle" /\ Sleeping.todo = <<>> /\ Sleeping.now = 0 BY DEF Sleeping
<1>6. ASSUME NEW l, l = [Sleeping EXCEPT !.pc = "done"] PROVE l \in ActState /\ l.pc = "done"
  BY <1>1, <1>2, <1>3, <1>6 DEF Sleeping, ActState
<1> HIDE DEF ActState, Sleeping
<1> QED BY <1>4, <1>5, <1>6

LEMMA Blank == <<>> \in List /\ 0 \in 0..MaxTime /\ 0 \in 0..(MaxTime + 1)
BY ListFacts DEF BoundsAssumption

\* An execution goes on.
LEMMA Continue ==
  ASSUME IInv, NEW a \in Workers, act[a].pc \in Exec,
         NEW l \in ActState, l.pc \in Exec, Become(a, l),
         l.task = act[a].task, l.slot = act[a].slot, l.todo = act[a].todo, l.now = act[a].now,
         LockStep(a, l), running' = running, ran' = ran /\ cut' = cut, Content, Rest,
         tasks' = tasks \/ Later(tasks'),
         a = Loop /\ l.pc = "log" /\ l.task \in DOMAIN tasks' => tasks'[l.task].next > l.slot
  PROVE  IInv'
<1>1. a \in Actors /\ a \notin Edits BY ActorFacts
<1>2. Fits(a, act[a]) BY <1>1 DEF IInv, Placed
<1>3. act[a].task \in Task BY <1>2 DEF Fits, Exec
<1>4. l.pc \in {"idle", "scan", "refresh", "refreshSave"} \cup Exec
      /\ l.pc \in {"idle", "queued", "done"} \cup Exec OBVIOUS
<1>5. Fits(a, l) BY <1>1, <1>3, <1>4 DEF Fits
<1>6. RunStepOf(a, l) BY DEF RunStepOf
<1>7. a = Loop => OnTime(l, tasks')
  <2>1. SUFFICES ASSUME a = Loop PROVE OnTime(l, tasks') OBVIOUS
  <2>2. Typed /\ OnTime(act[a], tasks) BY <2>1 DEF IInv, Slots
  <2>3. act[a] \in ActState BY <1>2 DEF Fits
  <2>4. tasks' \in List BY DEF Content
  <2> QED BY <2>1, <2>2, <2>3, <2>4, StaysOnTime
<1>8. SlotStep(a, l) BY <1>7 DEF SlotStep, Onward
<1> QED BY <1>1, <1>5, <1>6, <1>8, Step

\* An execution ends: its next_run is written, or it breaks off.
LEMMA Ends ==
  ASSUME IInv, NEW a \in Workers, act[a].pc \in Exec, NEW raised \in BOOLEAN,
         Leave(a, raised), lock' = IF lock = a THEN Free ELSE lock, tasks' = tasks \/ lock = a,
         Content, Rest, tasks' = tasks \/ Later(tasks'), ran' = ran,
         \/ tasks' = tasks /\ BreaksOff(a)
         \/ (/\ cut' = cut
             /\ a = Loop /\ act[a].task \in DOMAIN tasks'
                => tasks'[act[a].task].next > act[a].slot)
  PROVE  IInv'
<1>1. a \in Actors /\ a \notin Edits BY ActorFacts
<1>2. Fits(a, act[a]) /\ act[a] \in ActState BY <1>1 DEF IInv, Placed
<1>3. PICK l : l = (IF a # Loop THEN [Sleeping EXCEPT !.pc = "done"]
               ELSE IF raised THEN Sleeping
               ELSE [act[a] EXCEPT !.pc = "scan", !.task = 0, !.slot = 0,
                                          !.copy = <<>>, !.failing = FALSE])
  OBVIOUS
<1>4. Become(a, l) /\ running' = running \ {act[a].task} BY <1>3 DEF Leave
<1>5. /\ l \in ActState /\ l.pc \in {"done", "idle", "scan"} /\ (a = Loop => l.pc # "done")
      /\ (a # Loop => l.pc = "done")
      /\ a = Loop /\ ~raised => l.todo = act[a].todo /\ l.now = act[a].now
      /\ a = Loop /\ raised => l.todo = <<>> /\ l.now = 0
  <2>1. CASE a # Loop BY <1>3, <2>1, Sleepers
  <2>2. CASE a = Loop /\ raised BY <1>3, <2>2, Sleepers
  <2>3. CASE a = Loop /\ ~raised
    <3>1. l = [act[a] EXCEPT !.pc = "scan", !.task = 0, !.slot = 0,
                             !.copy = <<>>, !.failing = FALSE]
      BY <1>3, <2>3
    <3>2. "scan" \in PC /\ <<>> \in List /\ 0 \in 0..(MaxTime + 1) /\ 0 \in Task \cup {0}
      BY ListFacts DEF PC
    <3> HIDE DEF PC, List
    <3>3. l \in ActState /\ l.pc = "scan" /\ l.todo = act[a].todo /\ l.now = act[a].now
      BY <1>2, <3>1, <3>2 DEF ActState
    <3> QED BY <2>3, <3>3
  <2> QED BY <2>1, <2>2, <2>3
<1>6. l.pc \notin Exec /\ l.pc \notin Saving /\ l.pc # "log" BY <1>5 DEF Exec, Saving
<1>7. Fits(a, l)
  <2>1. a \in Runs => a # Loop BY ActorFacts
  <2> QED BY <1>1, <1>5, <2>1 DEF Fits
<1>8. LockStep(a, l) BY <1>6 DEF LockStep
<1>9. RunStepOf(a, l) BY <1>4, <1>6 DEF RunStepOf
<1>10. SlotStep(a, l)
  <2>1. CASE tasks' = tasks /\ BreaksOff(a)
    <3>1. DOMAIN <<>> = {} BY SMT
    <3>2. a = Loop =>
            /\ \A s \in DOMAIN l.todo : s \in DOMAIN act[a].todo /\ l.todo[s] = act[a].todo[s]
            /\ l.now = act[a].now \/ (l.now = 0 /\ DOMAIN l.todo = {})
      BY <1>5, <3>1
    <3> QED BY <1>6, <2>1, <3>2 DEF SlotStep, Falls
  <2>2. CASE /\ cut' = cut
             /\ a = Loop /\ act[a].task \in DOMAIN tasks'
                => tasks'[act[a].task].next > act[a].slot
    <3>1. a = Loop => OnTime(l, tasks')
      <4>1. SUFFICES ASSUME a = Loop PROVE OnTime(l, tasks') OBVIOUS
      <4>2. Typed /\ OnTime(act[a], tasks) /\ tasks' \in List
        BY <4>1 DEF IInv, Slots, Content
      <4>3. CASE ~raised BY <1>2, <1>5, <1>6, <4>1, <4>2, <4>3, StaysOnTime
      <4>4. CASE raised
        <5>1. DOMAIN l.todo = {} /\ l.now = 0 BY SMT, <1>5, <4>1, <4>4
        <5>2. 0 <= clock BY <4>2 DEF Typed
        <5> QED BY <1>6, <5>1, <5>2 DEF OnTime
      <4> QED BY <4>3, <4>4
    <3> QED BY <2>2, <3>1 DEF SlotStep, Onward
  <2> QED BY <2>1, <2>2
<1> QED BY <1>1, <1>4, <1>7, <1>8, <1>9, <1>10, Step

-----------------------------------------------------------------------------
(* The actions of an execution *)

LEMMA Unpack ==
  ASSUME IInv, NEW a \in Actors
  PROVE  /\ Typed /\ act[a] \in ActState /\ Fits(a, act[a])
         /\ lock = a <=> act[a].pc \in Saving
         /\ act[a].pc \in Saving => act[a].copy = tasks
         /\ Calm /\ UNCHANGED <<known, wanted>> => Rest
BY DEF IInv, Placed, Locked, Rest, Typed, Calm

\* What a writer puts back after its read is the list with a later slot.
LEMMA SaveFacts ==
  ASSUME IInv, NEW a \in Actors, act[a].pc \in Saving,
         tasks' = Advance(act[a].copy, act[a].task)
  PROVE  /\ Content /\ Later(tasks') /\ lock = a
         /\ act[a].task \in DOMAIN tasks' => tasks'[act[a].task].next = clock + 1
<1>1. Typed /\ Fits(a, act[a]) /\ lock = a /\ act[a].copy = tasks BY Unpack
<1>2. act[a].task \in Task BY <1>1 DEF Fits, Saving
<1>3. tasks' = Advance(tasks, act[a].task) BY <1>1
<1>4. PICK new : new = Advance(tasks, act[a].task) OBVIOUS
<1>5. /\ new \in List /\ DOMAIN new = DOMAIN tasks
      /\ \A s \in DOMAIN tasks : new[s].enabled = tasks[s].enabled
      /\ Later(new)
      /\ act[a].task \in DOMAIN tasks => new[act[a].task].next = clock + 1
  BY <1>1, <1>2, <1>4, AdvanceFacts
<1>6. tasks' = new BY <1>3, <1>4
<1>7. Later(tasks') BY <1>5, <1>6
<1> QED BY <1>1, <1>5, <1>6, <1>7 DEF Content

LEMMA ExecutionStep ==
  ASSUME IInv, NEW a \in Workers, Execution(a)
  PROVE  IInv'
<1> DEFINE k == act[a]
<1>1. a \in Actors BY ActorFacts
<1>2. /\ Typed /\ k \in ActState /\ Fits(a, k) /\ (lock = a <=> k.pc \in Saving)
      /\ Calm /\ UNCHANGED <<known, wanted>> => Rest
  BY <1>1, Unpack
<1>3. tasks' = tasks => Content BY <1>2, SameList
<1>4. {"run", "update", "save", "log", "late", "lateSave"} \subseteq PC /\ <<>> \in List
  BY ListFacts DEF PC, Exec
<1>5. tasks \in List BY <1>2 DEF Typed
<1>6. ASSUME NEW f \in BOOLEAN, Executed(a, f) PROVE IInv'
  <2>1. PICK l : l = [k EXCEPT !.pc = "update", !.failing = f] OBVIOUS
  <2>2. /\ l \in ActState /\ l.pc = "update" /\ l.task = k.task /\ l.slot = k.slot
        /\ l.todo = k.todo /\ l.now = k.now
    BY <1>2, <1>4, <2>1 DEF ActState
  <2>3. /\ Become(a, l) /\ k.pc = "run" /\ lock' = lock /\ running' = running
        /\ tasks' = tasks /\ ran' = ran /\ cut' = cut /\ Rest
    BY <1>2, <1>6, <2>1 DEF Executed, At, History, Lists
  <2>4. LockStep(a, l) BY <1>2, <2>2, <2>3 DEF LockStep, Saving
  <2>5. k.pc \in Exec /\ l.pc \in Exec BY <2>2, <2>3 DEF Exec
  <2> QED BY <1>3, <2>2, <2>3, <2>4, <2>5, Continue
<1>7. ASSUME Raises(a) PROVE IInv'
  <2>1. /\ k.pc = "run" /\ Leave(a, TRUE) /\ lock' = lock
        /\ tasks' = tasks /\ ran' = ran /\ BreaksOff(a) /\ Rest
    BY <1>2, <1>7 DEF Raises, At, Lists
  <2>2. k.pc \in Exec /\ k.pc \notin Saving BY <2>1 DEF Exec, Saving
  <2>3. lock' = IF lock = a THEN Free ELSE lock BY <1>2, <2>1, <2>2
  <2> QED BY <1>3, <2>1, <2>2, <2>3, Ends
<1>8. ASSUME NEW from, NEW to \in Saving \cap Exec, from \in Exec, TakeLock(a, from, to)
      PROVE  IInv'
  <2>1. PICK l : l = [k EXCEPT !.pc = to, !.copy = tasks] OBVIOUS
  <2>2. /\ l \in ActState /\ l.pc = to /\ l.task = k.task /\ l.slot = k.slot
        /\ l.todo = k.todo /\ l.now = k.now /\ l.copy = tasks
    BY <1>2, <1>5, <2>1 DEF ActState, PC
  <2>3. /\ Become(a, l) /\ k.pc = from /\ lock = Free /\ lock' = a /\ running' = running
        /\ tasks' = tasks /\ ran' = ran /\ cut' = cut /\ Rest
    BY <1>2, <1>8, <2>1 DEF TakeLock, At, History, Lists
  <2>4. LockStep(a, l) BY <2>2, <2>3 DEF LockStep
  <2>5. k.pc \in Exec /\ l.pc \in Exec /\ l.pc # "log"
    BY <1>8, <2>2, <2>3 DEF Exec, Saving
  <2> QED BY <1>3, <2>2, <2>3, <2>4, <2>5, Continue
<1>9. ASSUME SaveExecution(a) PROVE IInv'
  <2>1. PICK l : l = [k EXCEPT !.pc = "log", !.copy = <<>>] OBVIOUS
  <2>2. /\ l \in ActState /\ l.pc = "log" /\ l.task = k.task /\ l.slot = k.slot
        /\ l.todo = k.todo /\ l.now = k.now
    BY <1>2, <1>4, <2>1 DEF ActState
  <2>3. /\ Become(a, l) /\ k.pc = "save" /\ lock' = Free /\ running' = running
        /\ tasks' = Advance(k.copy, k.task) /\ ran' = ran /\ cut' = cut /\ Rest
    BY <1>2, <1>9, <2>1 DEF SaveExecution, Save, At, History, Lists
  <2>4. k.pc \in Exec /\ l.pc \in Exec /\ k.pc \in Saving /\ l.pc \notin Saving
    BY <2>2, <2>3 DEF Exec, Saving
  <2>5. /\ Content /\ Later(tasks') /\ lock = a
        /\ k.task \in DOMAIN tasks' => tasks'[k.task].next = clock + 1
    BY <1>1, <2>3, <2>4, SaveFacts
  <2>6. LockStep(a, l) BY <2>3, <2>4, <2>5 DEF LockStep
  <2>7. a = Loop /\ l.task \in DOMAIN tasks' => tasks'[l.task].next > l.slot
    <3>1. clock \in Nat /\ k.slot \in Nat BY <1>2 DEF Typed, ActState
    <3>2. a = Loop => k.slot <= clock BY <1>2, <2>4 DEF IInv, Slots, OnTime, Fits, Exec
    <3> HIDE DEF k
    <3> QED BY <2>2, <2>5, <3>1, <3>2
  <2> QED BY <2>2, <2>3, <2>4, <2>5, <2>6, <2>7, Continue
<1>10. ASSUME StoreLog(a) PROVE IInv'
  <2>1. /\ k.pc = "log" /\ Leave(a, FALSE) /\ lock' = lock
        /\ tasks' = tasks /\ ran' = ran /\ cut' = cut /\ Rest
    BY <1>2, <1>10 DEF StoreLog, At, History, Lists
  <2>2. k.pc \in Exec /\ k.pc \notin Saving BY <2>1 DEF Exec, Saving
  <2>3. lock' = IF lock = a THEN Free ELSE lock BY <1>2, <2>1, <2>2
  <2>4. a = Loop /\ k.task \in DOMAIN tasks' => tasks'[k.task].next > k.slot
    BY <2>1 DEF IInv, Slots, OnTime
  <2> QED BY <1>3, <2>1, <2>2, <2>3, <2>4, Ends
<1>11. ASSUME Timeout(a) PROVE IInv'
  <2>1. PICK l : l = [k EXCEPT !.pc = "late", !.copy = <<>>] OBVIOUS
  <2>2. /\ l \in ActState /\ l.pc = "late" /\ l.task = k.task /\ l.slot = k.slot
        /\ l.todo = k.todo /\ l.now = k.now
    BY <1>2, <1>4, <2>1 DEF ActState
  <2>3. /\ Become(a, l) /\ k.pc \in {"run", "update", "save", "log"}
        /\ lock' = (IF lock = a THEN Free ELSE lock) /\ running' = running
        /\ tasks' = tasks /\ ran' = ran /\ cut' = cut /\ Rest
    BY <1>2, <1>11, <2>1 DEF Timeout, History, Lists
  <2>4. k.pc \in Exec /\ l.pc \in Exec /\ l.pc \notin Saving BY <2>2, <2>3 DEF Exec, Saving
  <2>5. LockStep(a, l) BY <2>3, <2>4 DEF LockStep
  <2> QED BY <1>3, <2>2, <2>3, <2>4, <2>5, Continue
<1>12. ASSUME SaveLate(a) PROVE IInv'
  <2>1. /\ k.pc = "lateSave" /\ Leave(a, FALSE) /\ lock' = Free
        /\ tasks' = Advance(k.copy, k.task) /\ ran' = ran /\ cut' = cut /\ Rest
    BY <1>2, <1>12 DEF SaveLate, Save, At, History, Lists
  <2>2. k.pc \in Exec /\ k.pc \in Saving BY <2>1 DEF Exec, Saving
  <2>3. /\ Content /\ Later(tasks') /\ lock = a
        /\ k.task \in DOMAIN tasks' => tasks'[k.task].next = clock + 1
    BY <1>1, <2>1, <2>2, SaveFacts
  <2>4. lock' = IF lock = a THEN Free ELSE lock BY <2>1, <2>3
  <2>5. a = Loop /\ k.task \in DOMAIN tasks' => tasks'[k.task].next > k.slot
    <3>1. clock \in Nat /\ k.slot \in Nat BY <1>2 DEF Typed, ActState
    <3>2. a = Loop => k.slot <= clock BY <1>2, <2>2 DEF IInv, Slots, OnTime, Fits, Exec
    <3> HIDE DEF k
    <3> QED BY <2>3, <3>1, <3>2
  <2> QED BY <2>1, <2>2, <2>3, <2>4, <2>5, Ends
<1>13. {"update", "late"} \subseteq Exec /\ {"save", "lateSave"} \subseteq Saving \cap Exec
  BY DEF Exec, Saving
<1> QED BY <1>6, <1>7, <1>8, <1>9, <1>10, <1>11, <1>12, <1>13 DEF Execution

LEMMA FailingCallStep ==
  ASSUME IInv, NEW a \in Workers, NEW listed \in BOOLEAN,
         StoreFails(a, listed) \/ LateFails(a, listed)
  PROVE  IInv'
<1> DEFINE k == act[a]
<1>1. a \in Actors BY ActorFacts
<1>2. /\ Typed /\ k \in ActState /\ Fits(a, k) /\ (lock = a <=> k.pc \in Saving)
  BY <1>1, Unpack
<1>3. tasks' = tasks => Content BY <1>2, SameList
<1>4. Fault => faults' \in 0..MaxFaults BY <1>2 DEF Fault, Typed
<1>5. CASE StoreFails(a, listed)
  <2>1. /\ k.pc \in {"save", "log"} /\ lock' = (IF lock = a THEN Free ELSE lock)
        /\ tasks' = tasks /\ ran' = ran /\ Rest
    BY <1>4, <1>5 DEF StoreFails, Lists, Rest
  <2>2. k.pc \in Exec BY <2>1 DEF Exec
  <2>3. CASE listed /\ ~k.failing
    <3>1. PICK l : l = [k EXCEPT !.pc = "update", !.copy = <<>>, !.failing = TRUE] OBVIOUS
    <3>2. "update" \in PC /\ <<>> \in List BY ListFacts DEF PC, Exec
    <3>3. /\ l \in ActState /\ l.pc = "update" /\ l.task = k.task /\ l.slot = k.slot
          /\ l.todo = k.todo /\ l.now = k.now
      BY <1>2, <3>1, <3>2 DEF ActState
    <3>4. Become(a, l) /\ running' = running /\ cut' = cut BY <1>5, <2>3, <3>1 DEF StoreFails
    <3>5. l.pc \in Exec /\ l.pc \notin Saving BY <3>3 DEF Exec, Saving
    <3>6. LockStep(a, l) BY <2>1, <3>5 DEF LockStep
    <3> QED BY <1>3, <2>1, <2>2, <3>3, <3>4, <3>5, <3>6, Continue
  <2>4. CASE ~(listed /\ ~k.failing)
    <3>1. Leave(a, TRUE) /\ BreaksOff(a) BY <1>5, <2>4 DEF StoreFails
    <3> QED BY <1>3, <2>1, <2>2, <3>1, Ends
  <2> QED BY <2>3, <2>4
<1>6. CASE LateFails(a, listed)
  <2>1. /\ k.pc = "lateSave" /\ lock' = Free /\ Leave(a, ~listed) /\ BreaksOff(a)
        /\ tasks' = tasks /\ ran' = ran /\ Rest
    BY <1>4, <1>6 DEF LateFails, At, Lists, Rest
  <2>2. k.pc \in Exec /\ lock = a BY <1>2, <2>1 DEF Exec, Saving
  <2>3. lock' = IF lock = a THEN Free ELSE lock BY <2>1, <2>2
  <2>4. CASE listed = TRUE
    <3>1. Leave(a, FALSE) BY <2>1, <2>4
    <3> QED BY <1>3, <2>1, <2>2, <2>3, <3>1, Ends
  <2>5. CASE listed = FALSE
    <3>1. Leave(a, TRUE) BY <2>1, <2>5
    <3> QED BY <1>3, <2>1, <2>2, <2>3, <3>1, Ends
  <2> QED BY <2>4, <2>5
<1> QED BY <1>5, <1>6

-----------------------------------------------------------------------------
(* The loop between its runs *)

\* A step of the loop that begins and ends outside an execution.
LEMMA LoopQuiet ==
  ASSUME IInv, act[Loop].pc \notin Exec, NEW l \in ActState,
         l.pc \in {"idle", "scan", "refresh", "refreshSave"},
         l.pc \notin {"idle", "scan"} => l.task \in Task,
         Become(Loop, l), LockStep(Loop, l), running' = running, ran' = ran /\ cut' = cut,
         Content, Rest, tasks' = tasks \/ Later(tasks'), OnTime(l, tasks')
  PROVE  IInv'
<1>1. Loop \in Actors /\ Loop \in Workers BY ActorFacts
<1>2. l.pc \notin Exec /\ l.pc # "log" BY DEF Exec
<1>3. Fits(Loop, l) BY DEF Fits, NamesDistinct
<1>4. RunStepOf(Loop, l) BY <1>2 DEF RunStepOf
<1>5. SlotStep(Loop, l) BY <1>2 DEF SlotStep, Onward
<1> QED BY <1>1, <1>3, <1>4, <1>5, Step

LEMMA LoopStepKeeps ==
  ASSUME IInv, LoopStep
  PROVE  IInv'
<1> DEFINE k == act[Loop]
<1>1. Loop \in Actors /\ Loop \in Workers BY ActorFacts
<1>2. /\ Typed /\ k \in ActState /\ Fits(Loop, k) /\ (lock = Loop <=> k.pc \in Saving)
      /\ Calm /\ UNCHANGED <<known, wanted>> => Rest
  BY <1>1, Unpack
<1>3. tasks' = tasks => Content BY <1>2, SameList
<1>4. {"idle", "scan", "refresh", "refreshSave", "run"} \subseteq PC /\ <<>> \in List
  BY ListFacts DEF PC, Exec
<1>5. tasks \in List /\ clock \in 1..MaxTime BY <1>2 DEF Typed
<1>6. Ahead(k, tasks) /\ OnTime(k, tasks) BY DEF IInv, Slots
<1>7. DOMAIN <<>> = {} BY SMT
<1>8. ASSUME ReadTasks PROVE IInv'
  <2>1. PICK l : l = [Sleeping EXCEPT !.pc = "scan", !.todo = tasks, !.now = clock] OBVIOUS
  <2>2. clock \in 0..MaxTime BY <1>5
  <2>3. l \in ActState /\ l.pc = "scan" /\ l.todo = tasks /\ l.now = clock
    BY <1>4, <1>5, <2>1, <2>2, Sleepers DEF ActState
  <2>4. /\ Become(Loop, l) /\ k.pc = "idle" /\ lock' = lock /\ running' = running
        /\ tasks' = tasks /\ ran' = ran /\ cut' = cut /\ Rest
    BY <1>2, <1>8, <2>1 DEF ReadTasks, At, History, Lists
  <2>5. k.pc \notin Exec /\ k.pc \notin Saving /\ l.pc \notin Saving
    BY <2>3, <2>4 DEF Exec, Saving
  <2>6. LockStep(Loop, l) BY <1>2, <2>4, <2>5 DEF LockStep
  <2>7. OnTime(l, tasks')
    <3>1. l.now <= clock BY <1>5, <2>3
    <3>2. l.pc \notin Exec /\ l.pc # "log" BY <2>3 DEF Exec
    <3>3. \A t \in DOMAIN tasks : tasks[t].next = Never \/ Fresh(t, tasks[t].next)
      BY <1>6, <2>5 DEF Ahead
    <3> QED BY <2>3, <2>4, <3>1, <3>2, <3>3 DEF OnTime
  <2> QED BY <1>3, <2>3, <2>4, <2>5, <2>6, <2>7, LoopQuiet
<1>9. ASSUME NEW t \in Task, At(Loop, "scan"), ScanNext(t),
             UNCHANGED <<tasks, lock, Lists>>, Calm
      PROVE  IInv'
  <2>1. PICK rest : rest = [s \in {s \in DOMAIN k.todo : s > t} |-> k.todo[s]] OBVIOUS
  <2>2. k.todo \in List BY <1>2 DEF ActState
  <2>3. DOMAIN k.todo \subseteq Task /\ \A s \in DOMAIN k.todo : k.todo[s] \in Entry
    BY <2>2, ListFacts
  <2>4. /\ DOMAIN rest = {s \in DOMAIN k.todo : s > t}
        /\ \A s \in DOMAIN rest : rest[s] = k.todo[s]
        /\ rest = [s \in DOMAIN rest |-> rest[s]]
    BY <2>1
  <2>5. rest \in List
    <3>1. DOMAIN rest \subseteq Task /\ \A s \in DOMAIN rest : rest[s] \in Entry BY <2>3, <2>4
    <3> QED BY <2>4, <3>1, ListIntro
  <2>6. t \notin DOMAIN rest BY <2>3, <2>4
  <2>7. /\ k.pc = "scan" /\ lock' = lock /\ tasks' = tasks /\ Rest
        /\ k.now <= clock
    BY <1>2, <1>6, <1>9 DEF At, Lists, OnTime
  <2>8. k.pc \notin Exec /\ k.pc \notin Saving BY <2>7 DEF Exec, Saving
  <2>9. CASE k.todo[t].next = Never
    <3>1. PICK l : l = [k EXCEPT !.pc = "refresh", !.task = t, !.todo = rest] OBVIOUS
    <3>2. l \in ActState /\ l.pc = "refresh" /\ l.task = t /\ l.todo = rest /\ l.now = k.now
      BY <1>2, <1>4, <2>5, <3>1 DEF ActState
    <3>3. Become(Loop, l) /\ running' = running /\ ran' = ran /\ cut' = cut
      BY <1>9, <2>1, <2>9, <3>1 DEF ScanNext
    <3>4. l.pc \notin Saving BY <3>2 DEF Saving
    <3>5. LockStep(Loop, l) BY <1>2, <2>7, <2>8, <3>4 DEF LockStep
    <3>6. OnTime(l, tasks')
      <4>1. l.pc \notin Exec /\ l.pc # "log" BY <3>2 DEF Exec
      <4> QED BY <1>6, <2>4, <2>7, <3>2, <4>1 DEF OnTime
    <3> QED BY <1>3, <2>7, <2>8, <3>2, <3>3, <3>5, <3>6, LoopQuiet
  <2>10. CASE k.todo[t].next # Never
    <3>1. PICK l : l = [k EXCEPT !.pc = "run", !.task = t, !.slot = k.todo[t].next, !.todo = rest]
      OBVIOUS
    <3>2. /\ t \in DOMAIN k.todo /\ t \notin running /\ k.now >= k.todo[t].next
          /\ running' = running \cup {t} /\ Become(Loop, l)
          /\ ran' = [ran EXCEPT ![t] = k.todo[t].next] /\ cut' = cut \ {t}
      BY <1>9, <2>1, <2>10, <3>1 DEF ScanNext, NeedsWork
    <3>3. k.todo[t].next \in 0..(MaxTime + 1) BY <2>3, <3>2 DEF Entry
    <3>4. /\ l \in ActState /\ l.pc = "run" /\ l.task = t /\ l.todo = rest /\ l.now = k.now
          /\ l.slot = k.todo[t].next
      BY <1>2, <1>4, <2>5, <3>1, <3>3 DEF ActState
    <3>5. l.pc \notin Saving /\ l.pc \in Exec /\ l.pc # "log" BY <3>4 DEF Saving, Exec
    <3>6. LockStep(Loop, l) BY <1>2, <2>7, <2>8, <3>5 DEF LockStep
    <3>7. RunStepOf(Loop, l) BY <1>1, <2>8, <3>2, <3>4, <3>5 DEF RunStepOf
    <3>8. Fits(Loop, l) BY <3>4, <3>5 DEF Fits, NamesDistinct
    <3>9. Starts(Loop, l)
      BY <2>4, <2>6, <2>7, <2>8, <2>10, <3>2, <3>4, <3>5 DEF Starts
    <3>10. SlotStep(Loop, l) BY <3>9 DEF SlotStep
    <3> QED BY <1>1, <1>3, <2>7, <3>2, <3>6, <3>7, <3>8, <3>10, Step
  <2> QED BY <2>9, <2>10
<1>10. ASSUME At(Loop, "scan"), Become(Loop, Sleeping), UNCHANGED <<running, ran, cut>>,
              UNCHANGED <<tasks, lock, Lists>>, Calm
       PROVE  IInv'
  <2>1. /\ k.pc = "scan" /\ lock' = lock /\ tasks' = tasks /\ ran' = ran /\ cut' = cut
        /\ Rest /\ running' = running
    BY <1>2, <1>10 DEF At, Lists
  <2>2. /\ Sleeping \in ActState /\ Sleeping.pc = "idle" /\ Sleeping.todo = <<>>
        /\ Sleeping.now = 0
    BY Sleepers
  <2>3. k.pc \notin Exec /\ k.pc \notin Saving /\ Sleeping.pc \notin Saving
    BY <2>1, <2>2 DEF Exec, Saving
  <2>4. LockStep(Loop, Sleeping) BY <1>2, <2>1, <2>3 DEF LockStep
  <2>5. OnTime(Sleeping, tasks')
    <3>1. Sleeping.now <= clock BY <1>5, <2>2
    <3>2. Sleeping.pc \notin Exec /\ Sleeping.pc # "log" BY <2>2 DEF Exec
    <3> QED BY <1>7, <2>2, <3>1, <3>2 DEF OnTime
  <2> QED BY <1>3, <1>10, <2>1, <2>2, <2>3, <2>4, <2>5, LoopQuiet
<1>11. ASSUME TakeLock(Loop, "refresh", "refreshSave") PROVE IInv'
  <2>1. PICK l : l = [k EXCEPT !.pc = "refreshSave", !.copy = tasks] OBVIOUS
  <2>2. /\ l \in ActState /\ l.pc = "refreshSave" /\ l.task = k.task /\ l.todo = k.todo
        /\ l.now = k.now /\ l.copy = tasks
    BY <1>2, <1>4, <1>5, <2>1 DEF ActState
  <2>3. /\ Become(Loop, l) /\ k.pc = "refresh" /\ lock = Free /\ lock' = Loop
        /\ running' = running /\ tasks' = tasks /\ ran' = ran /\ cut' = cut /\ Rest
    BY <1>2, <1>11, <2>1 DEF TakeLock, At, History, Lists
  <2>4. k.pc \notin Exec /\ l.pc \in Saving BY <2>2, <2>3 DEF Exec, Saving
  <2>5. LockStep(Loop, l) BY <2>2, <2>3, <2>4 DEF LockStep
  <2>6. k.task \in Task BY <1>2, <2>3 DEF Fits
  <2>7. OnTime(l, tasks')
    <3>1. l.pc \notin Exec /\ l.pc # "log" BY <2>2 DEF Exec
    <3> QED BY <1>6, <2>2, <2>3, <3>1 DEF OnTime
  <2> QED BY <1>3, <2>2, <2>3, <2>4, <2>5, <2>6, <2>7, LoopQuiet
<1>12. ASSUME SaveRefresh PROVE IInv'
  <2>1. PICK l : l = [k EXCEPT !.pc = "scan", !.copy = <<>>] OBVIOUS
  <2>2. l \in ActState /\ l.pc = "scan" /\ l.todo = k.todo /\ l.now = k.now
    BY <1>2, <1>4, <2>1 DEF ActState
  <2>3. /\ Become(Loop, l) /\ k.pc = "refreshSave" /\ lock' = Free
        /\ tasks' = Advance(k.copy, k.task)
        /\ running' = running /\ ran' = ran /\ cut' = cut /\ Rest
    BY <1>2, <1>12, <2>1 DEF SaveRefresh, At, History, Lists
  <2>4. k.pc \notin Exec /\ k.pc \in Saving /\ l.pc \notin Saving
    BY <2>2, <2>3 DEF Exec, Saving
  <2>5. Content /\ Later(tasks') /\ lock = Loop BY <1>1, <2>3, <2>4, SaveFacts
  <2>6. LockStep(Loop, l) BY <2>3, <2>4, <2>5 DEF LockStep
  <2>7. OnTime(l, tasks')
    <3>1. l.pc \notin Exec /\ l.pc # "log" BY <2>2 DEF Exec
    <3>2. tasks' \in List BY <2>5 DEF Content
    <3> QED BY <1>2, <1>6, <2>2, <2>5, <3>1, <3>2, StaysOnTime
  <2> QED BY <2>2, <2>3, <2>4, <2>5, <2>6, <2>7, LoopQuiet
<1>13. Execution(Loop) => IInv' BY <1>1, ExecutionStep
<1>14. Scan => IInv' BY <1>9, <1>10 DEF Scan
<1> HIDE DEF k
<1> QED BY <1>8, <1>11, <1>12, <1>13, <1>14 DEF LoopStep

-----------------------------------------------------------------------------
(* Runs by hand and edits *)

\* A step outside an execution of an actor other than the loop.
LEMMA OthersQuiet ==
  ASSUME IInv, NEW a \in Runs \cup Edits, act[a].pc \notin Exec, NEW l, Fits(a, l),
         l.pc \notin Exec, Become(a, l), LockStep(a, l), running' = running,
         ran' = ran /\ cut' = cut,
         tasks' = tasks, Rest
  PROVE  IInv'
<1>1. a \in Actors /\ a # Loop BY ActorFacts DEF Actors, Workers
<1>2. Content BY <1>1, Unpack, SameList
<1>3. RunStepOf(a, l) BY DEF RunStepOf
<1>4. SlotStep(a, l) BY <1>1 DEF SlotStep, Onward
<1> QED BY <1>1, <1>2, <1>3, <1>4, Step

LEMMA ManualKeeps ==
  ASSUME IInv, NEW r \in Runs, RunStep(r) \/ \E t \in Task : RunNow(r, t)
  PROVE  IInv'
<1> DEFINE k == act[r]
<1>1. r \in Actors /\ r \in Workers /\ r # Loop /\ r \notin Edits BY ActorFacts, NamesDistinct
<1>2. /\ Typed /\ k \in ActState /\ Fits(r, k) /\ (lock = r <=> k.pc \in Saving)
      /\ Calm /\ UNCHANGED <<known, wanted>> => Rest
  BY <1>1, Unpack
<1>3. {"queued", "run", "done"} \subseteq PC BY DEF PC, Exec
<1>4. ASSUME NEW t \in Task, RunNow(r, t) PROVE IInv'
  <2>1. PICK l : l = [Sleeping EXCEPT !.pc = "queued", !.task = t] OBVIOUS
  <2>0. "queued" \in PC BY <1>3
  <2>2. l \in ActState /\ l.pc = "queued" /\ l.task = t
    BY <2>0, <2>1, Blank DEF Sleeping, ActState
  <2>3. Fits(r, l) BY <1>1, <2>2 DEF Fits
  <2>4. /\ Become(r, l) /\ k.pc = "idle" /\ lock' = lock /\ running' = running
        /\ tasks' = tasks /\ ran' = ran /\ cut' = cut /\ Rest
    BY <1>2, <1>4, <2>1 DEF RunNow, At, History, Lists
  <2>5. k.pc \notin Exec \cup Saving /\ l.pc \notin Exec \cup Saving
    BY <2>2, <2>4 DEF Exec, Saving
  <2>6. LockStep(r, l) BY <1>2, <2>4, <2>5 DEF LockStep
  <2> QED BY <2>3, <2>4, <2>5, <2>6, OthersQuiet
<1>5. ASSUME Begin(r) PROVE IInv'
  <2>0. k.pc = "queued" /\ lock' = lock /\ tasks' = tasks /\ UNCHANGED History /\ Calm
    BY <1>5 DEF Begin, At
  <2>1. /\ k.pc = "queued" /\ lock' = lock /\ tasks' = tasks /\ ran' = ran /\ cut' = cut /\ Rest
    BY <1>2, <2>0 DEF History, Lists
  <2>2. k.pc \notin Exec \cup Saving /\ k.task \in Task
    BY <1>2, <2>1 DEF Exec, Saving, Fits
  <2>3. CASE k.task \in running
    <3>1. PICK l : l = [Sleeping EXCEPT !.pc = "done"] OBVIOUS
    <3>2. l \in ActState /\ l.pc = "done" BY <3>1, Sleepers
    <3>3. Fits(r, l) BY <1>1, <3>2 DEF Fits
    <3>4. Become(r, l) /\ running' = running BY <1>5, <2>3, <3>1 DEF Begin
    <3>5. l.pc \notin Exec \cup Saving BY <3>2 DEF Exec, Saving
    <3>6. LockStep(r, l) BY <1>2, <2>1, <2>2, <3>5 DEF LockStep
    <3> QED BY <2>1, <2>2, <3>3, <3>4, <3>5, <3>6, OthersQuiet
  <2>4. CASE k.task \notin running
    <3>1. PICK l : l = [k EXCEPT !.pc = "run"] OBVIOUS
    <3>2. l \in ActState /\ l.pc = "run" /\ l.task = k.task
      BY <1>2, <1>3, <3>1 DEF ActState
    <3>3. Become(r, l) /\ running' = running \cup {k.task}
      BY <1>5, <2>4, <3>1 DEF Begin
    <3>4. l.pc \in Exec /\ l.pc \notin Saving BY <3>2 DEF Exec, Saving
    <3>5. Fits(r, l) BY <1>1, <2>2, <3>2, <3>4 DEF Fits
    <3>6. LockStep(r, l) BY <1>2, <2>1, <2>2, <3>4 DEF LockStep
    <3>7. RunStepOf(r, l) BY <1>1, <2>2, <2>4, <3>2, <3>3, <3>4 DEF RunStepOf
    <3>8. SlotStep(r, l) BY <1>1, <2>1 DEF SlotStep, Onward
    <3>9. Content BY <1>2, <2>1, SameList
    <3> QED BY <1>1, <2>1, <3>3, <3>5, <3>6, <3>7, <3>8, <3>9, Step
  <2> QED BY <2>3, <2>4
<1>6. Execution(r) => IInv' BY <1>1, ExecutionStep
<1> HIDE DEF k
<1> QED BY <1>4, <1>5, <1>6 DEF RunStep

LEMMA EditKeeps ==
  ASSUME IInv, NEW e \in Edits,
         EditRefused(e) \/ TakeLock(e, "edit", "editSave") \/ \E t \in Task : EditBegin(e, t)
  PROVE  IInv'
<1> DEFINE k == act[e]
<1>1. e \in Actors /\ e \notin Workers /\ e # Loop /\ e \notin Runs
  BY ActorFacts, NamesDistinct
<1>2. /\ Typed /\ k \in ActState /\ Fits(e, k) /\ (lock = e <=> k.pc \in Saving)
      /\ Calm /\ UNCHANGED <<known, wanted>> => Rest
  BY <1>1, Unpack
<1>3. {"edit", "editSave", "done"} \subseteq PC BY DEF PC
<1>4. ASSUME NEW t \in Task, EditBegin(e, t) PROVE IInv'
  <2>1. PICK l : l = [Sleeping EXCEPT !.pc = "edit", !.task = t] OBVIOUS
  <2>0. "edit" \in PC BY <1>3
  <2>2. l \in ActState /\ l.pc = "edit" /\ l.task = t
    BY <2>0, <2>1, Blank DEF Sleeping, ActState
  <2>3. Fits(e, l) BY <1>1, <2>2 DEF Fits
  <2>4. /\ Become(e, l) /\ k.pc = "idle" /\ lock' = lock /\ running' = running
        /\ tasks' = tasks /\ ran' = ran /\ cut' = cut /\ Rest
    BY <1>2, <1>4, <2>1 DEF EditBegin, At, History, Lists
  <2>5. k.pc \notin Exec \cup Saving /\ l.pc \notin Exec \cup Saving
    BY <2>2, <2>4 DEF Exec, Saving
  <2>6. LockStep(e, l) BY <1>2, <2>4, <2>5 DEF LockStep
  <2> QED BY <2>3, <2>4, <2>5, <2>6, OthersQuiet
<1>5. ASSUME TakeLock(e, "edit", "editSave") PROVE IInv'
  <2>1. PICK l : l = [k EXCEPT !.pc = "editSave", !.copy = tasks] OBVIOUS
  <2>2. tasks \in List BY <1>2 DEF Typed
  <2>3. l \in ActState /\ l.pc = "editSave" /\ l.task = k.task /\ l.copy = tasks
    BY <1>2, <1>3, <2>1, <2>2 DEF ActState
  <2>4. /\ Become(e, l) /\ k.pc = "edit" /\ lock = Free /\ lock' = e /\ running' = running
        /\ tasks' = tasks /\ ran' = ran /\ cut' = cut /\ Rest
    BY <1>2, <1>5, <2>1 DEF TakeLock, At, History, Lists
  <2>5. k.task \in Task BY <1>2, <2>4 DEF Fits
  <2>6. Fits(e, l) BY <1>1, <2>3, <2>5 DEF Fits
  <2>7. k.pc \notin Exec /\ l.pc \notin Exec /\ l.pc \in Saving
    BY <2>3, <2>4 DEF Exec, Saving
  <2>8. LockStep(e, l) BY <2>3, <2>4, <2>7 DEF LockStep
  <2> QED BY <2>4, <2>6, <2>7, <2>8, OthersQuiet
<1>6. ASSUME EditRefused(e) PROVE IInv'
  <2>1. PICK l : l = [Sleeping EXCEPT !.pc = "done"] OBVIOUS
  <2>2. l \in ActState /\ l.pc = "done" BY <2>1, Sleepers
  <2>3. Fits(e, l) BY <1>1, <2>2 DEF Fits
  <2>4. /\ Become(e, l) /\ k.pc = "editSave" /\ lock' = Free /\ running' = running
        /\ tasks' = tasks /\ ran' = ran /\ cut' = cut /\ Rest
    BY <1>2, <1>6, <2>1 DEF EditRefused, At, History, Lists
  <2>5. k.pc \notin Exec /\ k.pc \in Saving /\ l.pc \notin Exec \cup Saving
    BY <2>2, <2>4 DEF Exec, Saving
  <2>6. LockStep(e, l) BY <1>2, <2>4, <2>5 DEF LockStep
  <2> QED BY <2>3, <2>4, <2>5, <2>6, OthersQuiet
<1> HIDE DEF k
<1> QED BY <1>4, <1>5, <1>6

Ops == {"create", "delete", "toggle", "update"}

\* What an edit may do to the list: it gets later slots, and only the entry
\* of the task edited comes, goes or is switched.
OneEdit(new, op, t) ==
  /\ new \in List /\ Later(new)
  /\ DOMAIN new = (DOMAIN tasks \cup {t}) \ (IF op = "delete" THEN {t} ELSE {})
  /\ \A s \in DOMAIN new : s # t => new[s].enabled = tasks[s].enabled

LEMMA EditedFacts ==
  ASSUME Typed, NEW t \in Task, NEW op \in Ops, op # "create" => t \in DOMAIN tasks,
         NEW new, new = Edited(tasks, op, t)
  PROVE  OneEdit(new, op, t)
<1> SUFFICES /\ new \in List /\ Later(new)
             /\ DOMAIN new = (DOMAIN tasks \cup {t}) \ (IF op = "delete" THEN {t} ELSE {})
             /\ \A s \in DOMAIN new : s # t => new[s].enabled = tasks[s].enabled
  BY DEF OneEdit
<1>1. /\ DOMAIN tasks \subseteq Task /\ \A s \in DOMAIN tasks : tasks[s] \in Entry
      /\ clock \in 1..MaxTime
  BY ListFacts DEF Typed
<1>2. clock + 1 \in 0..(MaxTime + 1) BY <1>1
<1>3. tasks = [s \in DOMAIN tasks |-> tasks[s]] BY DEF Typed, List
<1>4. CASE op = "create"
  <2>1. PICK entry : entry = [enabled |-> TRUE, next |-> clock + 1] OBVIOUS
  <2>2. entry \in Entry /\ entry.next = clock + 1 BY <1>2, <2>1 DEF Entry
  <2>3. new = [s \in DOMAIN tasks \cup {t} |-> IF s = t THEN entry ELSE tasks[s]]
    BY <1>4, <2>1 DEF Edited
  <2>4. /\ DOMAIN new = DOMAIN tasks \cup {t} /\ new = [s \in DOMAIN new |-> new[s]]
        /\ new[t] = entry /\ \A s \in DOMAIN new \ {t} : s \in DOMAIN tasks /\ new[s] = tasks[s]
    BY <2>3
  <2>5. \A s \in DOMAIN new : new[s] \in Entry BY <1>1, <2>2, <2>4
  <2>6. new \in List BY <1>1, <2>4, <2>5, ListIntro
  <2>7. Later(new) BY <2>2, <2>4 DEF Later
  <2> QED BY <1>4, <2>4, <2>6, <2>7
<1>5. CASE op = "delete"
  <2>1. new = [s \in DOMAIN tasks \ {t} |-> tasks[s]] BY <1>5 DEF Edited, Without
  <2>2. /\ DOMAIN new = DOMAIN tasks \ {t} /\ new = [s \in DOMAIN new |-> new[s]]
        /\ \A s \in DOMAIN new : s \in DOMAIN tasks /\ new[s] = tasks[s]
    BY <2>1
  <2>3. new \in List BY <1>1, <2>2, ListIntro
  <2>4. Later(new) BY <2>2 DEF Later
  <2> QED BY <1>5, <2>2, <2>3, <2>4
<1>6. CASE op = "toggle"
  <2>1. t \in DOMAIN tasks BY <1>6
  <2>2. new = [tasks EXCEPT ![t].enabled = ~@] BY <1>6 DEF Edited
  <2>3. DOMAIN new = DOMAIN tasks /\ \A s \in DOMAIN tasks : s # t => new[s] = tasks[s]
    BY <1>3, <2>2
  <2>4. new = [s \in DOMAIN new |-> new[s]] BY <2>2
  <2>5. new[t] = [tasks[t] EXCEPT !.enabled = ~@] BY <1>3, <2>1, <2>2
  <2>6. tasks[t] \in Entry BY <1>1, <2>1
  <2>7. new[t] \in Entry /\ new[t].next = tasks[t].next BY <2>5, <2>6 DEF Entry
  <2>8. \A s \in DOMAIN new : new[s] \in Entry BY <1>1, <2>3, <2>7
  <2>9. new \in List BY <1>1, <2>3, <2>4, <2>8, ListIntro
  <2>10. Later(new) BY <2>1, <2>3, <2>7 DEF Later
  <2> QED BY <1>6, <2>1, <2>3, <2>9, <2>10
<1>7. CASE op = "update"
  <2>1. new = Advance(tasks, t) BY <1>7 DEF Edited
  <2>2. /\ new \in List /\ DOMAIN new = DOMAIN tasks /\ Later(new)
        /\ \A s \in DOMAIN tasks : new[s].enabled = tasks[s].enabled
    BY <2>1, AdvanceFacts
  <2> QED BY <1>7, <2>2
<1> QED BY <1>4, <1>5, <1>6, <1>7 DEF Ops

LEMMA EditSaveKeeps ==
  ASSUME IInv, NEW e \in Edits, NEW op \in Ops, EditSave(e, op)
  PROVE  IInv'
<1> DEFINE k == act[e]
           t == k.task
<1>1. e \in Actors /\ e \notin Workers /\ e # Loop /\ e \notin Runs
  BY ActorFacts, NamesDistinct
<1>2. /\ Typed /\ k \in ActState /\ Fits(e, k) /\ (lock = e <=> k.pc \in Saving)
      /\ k.pc \in Saving => k.copy = tasks
  BY <1>1, Unpack
<1>3. /\ k.pc = "editSave" /\ lock' = Free /\ running' = running /\ ran' = ran /\ cut' = cut
      /\ clock' = clock /\ faults' = faults /\ known' = known \cup {t}
      /\ tasks' = Edited(k.copy, op, t)
      /\ op # "create" => t \in DOMAIN k.copy
      /\ wanted' = [s \in (DOMAIN wanted \cup {t}) \ (IF op = "delete" THEN {t} ELSE {}) |->
                      IF s = t THEN tasks'[s].enabled ELSE wanted[s]]
  <2>1. /\ k.pc = "editSave" /\ lock' = Free /\ running' = running /\ ran' = ran /\ cut' = cut
        /\ clock' = clock /\ faults' = faults /\ known' = known \cup {t}
        /\ tasks' = Edited(k.copy, op, t)
    BY DEF EditSave, At, Calm
  <2>2. op # "create" => t \in DOMAIN k.copy BY DEF EditSave
  <2>3. wanted' = [s \in (DOMAIN wanted \cup {t}) \ (IF op = "delete" THEN {t} ELSE {}) |->
                    IF s = t THEN tasks'[s].enabled ELSE wanted[s]]
    BY Zenon DEF EditSave
  <2> QED BY <2>1, <2>2, <2>3
<1>4. k.pc \in Saving /\ k.pc \notin Exec /\ t \in Task
  BY <1>2, <1>3 DEF Saving, Exec, Fits
<1>5. PICK new : new = Edited(tasks, op, t) OBVIOUS
<1>6. /\ new \in List /\ Later(new)
      /\ DOMAIN new = (DOMAIN tasks \cup {t}) \ (IF op = "delete" THEN {t} ELSE {})
      /\ \A s \in DOMAIN new : s # t => new[s].enabled = tasks[s].enabled
  <2>1. op # "create" => t \in DOMAIN tasks BY <1>2, <1>3, <1>4
  <2>2. Typed /\ t \in Task BY <1>2, <1>4
  <2> HIDE DEF t, k
  <2>3. OneEdit(new, op, t) BY <1>5, <2>1, <2>2, EditedFacts
  <2> QED BY <2>3 DEF OneEdit
<1>7. tasks' = new BY <1>2, <1>3, <1>4, <1>5
<1>8. PICK l : l = [Sleeping EXCEPT !.pc = "done"] OBVIOUS
<1>9. l \in ActState /\ l.pc = "done" BY <1>8, Sleepers
<1>10. Become(e, l) BY <1>8 DEF EditSave
<1>11. Fits(e, l) BY <1>1, <1>9 DEF Fits
<1>12. l.pc \notin Exec \cup Saving BY <1>9 DEF Exec, Saving
<1>13. LockStep(e, l) BY <1>2, <1>3, <1>4, <1>12 DEF LockStep
<1>14. RunStepOf(e, l) BY <1>1, <1>3, <1>4 DEF RunStepOf
<1>15. SlotStep(e, l) BY <1>1, <1>3, <1>6, <1>7 DEF SlotStep, Onward
<1> HIDE DEF k, t
<1>16. Placed' BY <1>1, <1>10, <1>11, BecomeFacts DEF IInv
<1>17. Locked' /\ lock' \in {Free} \cup Actors BY <1>1, <1>10, <1>11, <1>13, StepLocked DEF IInv
<1>18. Exact' /\ running' \subseteq Task BY <1>1, <1>10, <1>11, <1>14, StepExact DEF IInv
<1>19. tasks' \in List BY <1>6, <1>7
<1>20. Slots' /\ ran' \in [Task -> 0..MaxTime] /\ cut' \subseteq Task
  BY <1>1, <1>3, <1>10, <1>11, <1>15, <1>19, StepSlots DEF IInv
<1>21. EditsSurvive'
  <2>1. DOMAIN tasks = DOMAIN wanted /\ \A s \in DOMAIN tasks : tasks[s].enabled = wanted[s]
    BY DEF IInv, EditsSurvive
  <2>2. DOMAIN wanted' = DOMAIN new BY <1>3, <1>6, <2>1
  <2>3. ASSUME NEW s \in DOMAIN new PROVE new[s].enabled = wanted'[s]
    <3>1. s \in (DOMAIN wanted \cup {t}) \ (IF op = "delete" THEN {t} ELSE {})
      BY <1>6, <2>1
    <3>2. CASE s = t BY <1>3, <1>7, <3>1, <3>2
    <3>3. CASE s # t
      <4>1. wanted'[s] = wanted[s] BY <1>3, <3>1, <3>3
      <4>2. s \in DOMAIN tasks BY <1>6, <3>3
      <4> QED BY <1>6, <2>1, <3>3, <4>1, <4>2
    <3> QED BY <3>2, <3>3
  <2> QED BY <1>7, <2>2, <2>3 DEF EditsSurvive
<1>22. known' \subseteq Task /\ DOMAIN wanted' \subseteq known'
  BY <1>2, <1>3, <1>4 DEF Typed
<1>23. Typed' BY <1>2, <1>3, <1>17, <1>18, <1>19, <1>20, <1>22 DEF Typed
<1> QED BY <1>16, <1>17, <1>18, <1>20, <1>21, <1>23 DEF IInv

-----------------------------------------------------------------------------
(* Time, restart, and the theorems *)

LEMMA TickKeeps ==
  ASSUME IInv, Tick
  PROVE  IInv'
<1>1. /\ clock < MaxTime /\ clock' = clock + 1 /\ clock \in 1..MaxTime
      /\ tasks' = tasks /\ lock' = lock /\ running' = running /\ act' = act /\ faults' = faults
      /\ known' = known /\ wanted' = wanted /\ ran' = ran /\ cut' = cut
  BY DEF Tick, History, Lists, IInv, Typed
<1>2. clock' \in 1..MaxTime BY <1>1
<1>3. Typed' BY <1>1, <1>2 DEF IInv, Typed
<1>4. Placed' /\ Locked' /\ EditsSurvive'
  BY <1>1 DEF IInv, Placed, Locked, EditsSurvive
<1>5. Exact' BY <1>1 DEF IInv, Exact, RunningIsExact, NoParallelRun, Executing
<1>6. Slots'
  <2> DEFINE k == act[Loop]
  <2>1. k \in ActState /\ ran \in [Task -> 0..MaxTime] BY ActorFacts, Unpack DEF Typed
  <2>2. k.now \in 0..MaxTime BY <2>1 DEF ActState
  <2>3. Ahead(k, tasks) /\ OnTime(k, tasks) /\ \A t \in Task : ran[t] <= clock
    BY DEF IInv, Slots
  <2>4. \A t \in Task : ran[t] <= clock' BY <1>1, <2>1, <2>3
  <2> HIDE DEF k
  <2>5. k.now <= clock' BY <1>1, <2>2, <2>3 DEF OnTime
  <2>6. act'[Loop] = k BY <1>1 DEF k
  <2> QED BY <1>1, <2>3, <2>4, <2>5, <2>6 DEF Slots, OnTime, Ahead, Fresh
<1> QED BY <1>3, <1>4, <1>5, <1>6 DEF IInv

LEMMA RestartKeeps ==
  ASSUME IInv, Restart
  PROVE  IInv'
<1>1. /\ Fault /\ lock' = Free /\ running' = {}
      /\ act' = [a \in Actors |-> IF a = Loop \/ At(a, "idle") THEN Sleeping
                                  ELSE [Sleeping EXCEPT !.pc = "done"]]
      /\ tasks' = tasks /\ clock' = clock
      /\ known' = known /\ wanted' = wanted /\ ran' = ran /\ BreaksOff(Loop)
  BY DEF Restart, Lists
<1>2. faults' \in 0..MaxFaults BY <1>1 DEF Fault, IInv, Typed
<1>3. PICK done : done = [Sleeping EXCEPT !.pc = "done"] OBVIOUS
<1>4. done \in ActState /\ done.pc = "done" BY <1>3, Sleepers
<1>5. Sleeping \in ActState /\ Sleeping.pc = "idle" /\ Sleeping.todo = <<>> /\ Sleeping.now = 0
  BY Sleepers
<1>6. \A a \in Actors : act'[a] = Sleeping \/ (act'[a] = done /\ a # Loop)
  BY <1>1, <1>3
<1>7. act'[Loop] = Sleeping BY <1>1, ActorFacts
<1>8. Typed'
  <2>1. DOMAIN tasks \subseteq Task BY ListFacts DEF IInv, Typed
  <2>2. cut' \subseteq Task BY <1>1, <2>1 DEF BreaksOff, IInv, Typed
  <2> QED BY <1>1, <1>2, <2>2 DEF IInv, Typed
<1>9. Placed'
  <2>1. act' \in [Actors -> ActState] BY <1>1, <1>4, <1>5, <1>3
  <2>2. \A a \in Actors : Fits(a, act'[a]) BY <1>4, <1>5, <1>6 DEF Fits
  <2> QED BY <2>1, <2>2 DEF Placed
<1>10. \A a \in Actors : act'[a].pc \notin Exec \cup Saving
  BY <1>4, <1>5, <1>6 DEF Exec, Saving
<1>11. Locked' BY <1>1, <1>10, ActorFacts DEF Locked
<1>12. Exact'
  <2>1. \A a \in Workers : ~Executing(a)'
    BY <1>10, ActorFacts DEF Executing, Exec
  <2> QED BY <1>1, <2>1 DEF Exact, RunningIsExact, NoParallelRun
<1>13. Slots'
  <2> DEFINE k == act[Loop]
  <2>1. DOMAIN <<>> = {} BY SMT
  <2>2. clock \in 1..MaxTime BY DEF IInv, Typed
  <2>3. 0 <= clock BY <2>2
  <2>4. Sleeping.pc \notin Exec /\ Sleeping.pc # "log" BY <1>5 DEF Exec
  <2>5. OnTime(Sleeping, tasks)' BY <1>1, <1>5, <2>1, <2>3, <2>4 DEF OnTime
  <2>6. ASSUME NEW t \in DOMAIN tasks
        PROVE  tasks[t].next = Never \/ Fresh(t, tasks[t].next)'
    <3>1. cut \subseteq cut' /\ (Executing(Loop) /\ k.task \in DOMAIN tasks
                                 /\ tasks[k.task].next = k.slot => k.task \in cut')
      BY <1>1 DEF BreaksOff
    <3>2. CASE Fresh(t, tasks[t].next) BY <1>1, <3>1, <3>2 DEF Fresh
    <3>3. CASE k.pc \in Exec /\ k.task = t /\ tasks[t].next = ran[t]
      <4>1. k.slot = ran[t] /\ Executing(Loop)
        BY <3>3 DEF IInv, Slots, OnTime, Executing, Exec
      <4> QED BY <1>1, <2>6, <3>1, <3>3, <4>1 DEF Fresh
    <3> QED BY <2>6, <3>2, <3>3 DEF IInv, Slots, Ahead
  <2>7. Ahead(Sleeping, tasks)' BY <1>1, <2>6 DEF Ahead
  <2> QED BY <1>1, <1>7, <2>5, <2>7 DEF IInv, Slots
<1>14. EditsSurvive' BY <1>1 DEF IInv, EditsSurvive
<1> QED BY <1>8, <1>9, <1>11, <1>12, <1>13, <1>14 DEF IInv

LEMMA InitIInv ==
  ASSUME Init
  PROVE  IInv
<1>1. PICK ids \in SUBSET Task :
        tasks \in [ids -> {[enabled |-> TRUE, next |-> n] : n \in {Never, 1}}]
  BY DEF Init
<1>2. ASSUME NEW t \in ids
      PROVE  tasks[t] \in Entry /\ tasks[t].next \in {Never, 1}
  <2>1. PICK n \in {Never, 1} : tasks[t] = [enabled |-> TRUE, next |-> n] BY <1>1, <1>2
  <2>2. n \in 0..(MaxTime + 1) BY DEF Never, BoundsAssumption
  <2> QED BY <2>1, <2>2 DEF Entry
<1>3. DOMAIN tasks = ids /\ tasks = [t \in DOMAIN tasks |-> tasks[t]] BY <1>1
<1>4. tasks \in List BY <1>2, <1>3, ListIntro
<1>5. /\ lock = Free /\ running = {} /\ act = [a \in Actors |-> Sleeping]
      /\ clock = 1 /\ faults = 0 /\ known = DOMAIN tasks
      /\ wanted = [t \in DOMAIN tasks |-> tasks[t].enabled]
      /\ ran = [t \in Task |-> 0] /\ cut = {}
  BY DEF Init
<1>6. Sleeping \in ActState /\ Sleeping.pc = "idle" /\ Sleeping.todo = <<>> /\ Sleeping.now = 0
  BY Sleepers
<1>7. /\ 1 \in 1..MaxTime /\ 0 \in 0..MaxFaults /\ 0 \in 0..MaxTime BY DEF BoundsAssumption
<1>8. Typed BY <1>3, <1>4, <1>5, <1>7 DEF Typed
<1>9. act \in [Actors -> ActState] /\ \A a \in Actors : act[a] = Sleeping BY <1>5, <1>6
<1>10. Placed BY <1>6, <1>9 DEF Placed, Fits
<1>11. Sleeping.pc \notin Exec \cup Saving BY <1>6 DEF Exec, Saving
<1>12. Locked BY <1>5, <1>9, <1>11, ActorFacts DEF Locked
<1>13. Exact
  <2>1. \A a \in Workers : ~Executing(a) BY <1>9, <1>11, ActorFacts DEF Executing, Exec
  <2> QED BY <1>5, <2>1 DEF Exact, RunningIsExact, NoParallelRun
<1>14. Slots
  <2>1. \A t \in Task : ran[t] = 0 BY <1>5
  <2>2. ASSUME NEW t \in DOMAIN tasks
        PROVE  tasks[t].next = Never \/ Fresh(t, tasks[t].next)
    <3>1. ran[t] = 0 /\ tasks[t].next \in {Never, 1} BY <1>2, <1>3, <2>1
    <3> QED BY <3>1 DEF Fresh
  <2>3. DOMAIN <<>> = {} BY SMT
  <2>4. Sleeping.pc # "log" BY <1>6
  <2>5. OnTime(Sleeping, tasks) BY <1>5, <1>6, <1>11, <2>3, <2>4 DEF OnTime
  <2>6. Ahead(Sleeping, tasks) BY <2>2 DEF Ahead
  <2> QED BY <1>5, <1>9, <2>1, <2>5, <2>6, ActorFacts DEF Slots
<1>15. EditsSurvive BY <1>5 DEF EditsSurvive
<1> QED BY <1>8, <1>10, <1>12, <1>13, <1>14, <1>15 DEF IInv

LEMMA NextKeepsIInv ==
  ASSUME IInv, [Next]_vars
  PROVE  IInv'
<1>1. CASE LoopStep BY <1>1, LoopStepKeeps
<1>2. ASSUME NEW r \in Runs, RunStep(r) \/ \E t \in Task : RunNow(r, t)
      PROVE  IInv'
  BY <1>2, ManualKeeps
<1>3. ASSUME NEW e \in Edits, EditStep(e) \/ \E t \in Task : EditBegin(e, t)
      PROVE  IInv'
  BY <1>3, EditKeeps, EditSaveKeeps DEF EditStep, Ops
<1>4. ASSUME NEW a \in Workers, NEW listed \in BOOLEAN,
             StoreFails(a, listed) \/ LateFails(a, listed)
      PROVE  IInv'
  BY <1>4, FailingCallStep
<1>5. CASE Restart BY <1>5, RestartKeeps
<1>6. CASE Tick BY <1>6, TickKeeps
<1>7. CASE UNCHANGED vars
  <2>1. /\ tasks' = tasks /\ lock' = lock /\ running' = running /\ act' = act /\ faults' = faults
        /\ known' = known /\ wanted' = wanted /\ ran' = ran /\ cut' = cut /\ clock' = clock
    BY <1>7 DEF vars
  <2> QED BY <2>1 DEF IInv, Typed, Placed, Locked, Exact, Slots, EditsSurvive, RunningIsExact,
                      NoParallelRun, Executing, OnTime, Ahead, Fresh
<1> QED BY <1>1, <1>2, <1>3, <1>4, <1>5, <1>6, <1>7 DEF Next

\* The inductive invariant holds of every reachable state.
LEMMA Invariant == Spec => []IInv
<1>1. Init => IInv BY InitIInv
<1>2. IInv /\ [Next]_vars => IInv' BY NextKeepsIInv
<1> QED BY <1>1, <1>2, PTL DEF Spec

\* The types of the state, and that the lock is held by who is about to save.
THEOREM TypeCorrect == Spec => []TypeOK
<1>1. IInv => TypeOK
  <2>1. tasks \in List => DOMAIN tasks \subseteq Task /\ \A t \in DOMAIN tasks : tasks[t] \in Entry
    BY ListFacts
  <2> QED BY <2>1 DEF IInv, Typed, Locked, Saving, TypeOK
<1> QED BY <1>1, Invariant, PTL

\* No task runs twice at the same time, whichever of the loop and the runs
\* by hand start it.
THEOREM OneRunPerTask == Spec => []NoParallelRun
<1>1. IInv => NoParallelRun BY DEF IInv, Exact
<1> QED BY <1>1, Invariant, PTL

\* _running_task_ids is what runs: nothing is left behind by a timeout, a
\* failing call or an exception.
THEOREM RunningExact == Spec => []RunningIsExact
<1>1. IInv => RunningIsExact BY DEF IInv, Exact
<1> QED BY <1>1, Invariant, PTL

\* The list is what the acknowledged edits left, whatever updates after
\* executions come between.
THEOREM NoEditLost == Spec => []EditsSurvive
<1>1. IInv => EditsSurvive BY DEF IInv
<1> QED BY <1>1, Invariant, PTL

\* A step that takes the loop from its scan to a run is ScanNext.
LEMMA OnlyScanRuns ==
  ASSUME IInv, Next, act[Loop].pc = "scan", act'[Loop].pc = "run"
  PROVE  \E t \in Task : ScanNext(t)
<1>1. Loop \in Actors /\ act \in [Actors -> ActState] BY ActorFacts DEF IInv, Placed
<1>2. ASSUME NEW a \in Actors, a # Loop, NEW l, Become(a, l) PROVE FALSE
  BY <1>1, <1>2 DEF Become
<1>3. \A a \in Runs \cup Edits : a \in Actors /\ a # Loop BY ActorFacts
<1>4. ASSUME NEW a \in Workers, Execution(a) PROVE FALSE
  <2>1. CASE a = Loop
    BY <1>4, <2>1 DEF Execution, Executed, Raises, TakeLock, SaveExecution, Save, StoreLog,
                      Timeout, SaveLate, At
  <2>2. CASE a # Loop
    <3>1. a \in Actors BY ActorFacts
    <3>2. \A l : ~Become(a, l) BY <1>2, <2>2, <3>1
    <3> QED
      BY <1>4, <3>2 DEF Execution, Executed, Raises, TakeLock, SaveExecution, StoreLog,
                        Timeout, SaveLate, Leave
  <2> QED BY <2>1, <2>2
<1>5. CASE LoopStep
  <2>1. Sleeping.pc = "idle" BY Sleepers
  <2>2. Become(Loop, Sleeping) => FALSE BY <1>1, <2>1 DEF Become
  <2>3. ~Execution(Loop) BY <1>4, ActorFacts
  <2>4. Scan BY <1>5, <2>3 DEF LoopStep, ReadTasks, TakeLock, SaveRefresh, At
  <2> QED BY <2>2, <2>4 DEF Scan
<1>6. ASSUME NEW r \in Runs, RunStep(r) \/ \E t \in Task : RunNow(r, t) PROVE FALSE
  <2>1. \A l : ~Become(r, l) BY <1>2, <1>3, <1>6
  <2>2. ~Execution(r) BY <1>4, ActorFacts
  <2> QED BY <1>6, <2>1, <2>2 DEF RunStep, RunNow, Begin
<1>7. ASSUME NEW e \in Edits, EditStep(e) \/ \E t \in Task : EditBegin(e, t) PROVE FALSE
  <2>1. \A l : ~Become(e, l) BY <1>2, <1>3, <1>7
  <2> QED BY <1>7, <2>1 DEF EditStep, TakeLock, EditSave, EditRefused, EditBegin
<1>8. ASSUME NEW a \in Workers, NEW listed \in BOOLEAN,
             StoreFails(a, listed) \/ LateFails(a, listed)
      PROVE  FALSE
  <2>1. CASE a = Loop BY <1>8, <2>1 DEF StoreFails, LateFails, At
  <2>2. CASE a # Loop
    <3>1. \A l : ~Become(a, l) BY <1>2, <2>2, ActorFacts
    <3> QED BY <1>8, <3>1 DEF StoreFails, LateFails, Leave
  <2> QED BY <2>1, <2>2
<1>9. ~Restart
  <2>1. Sleeping.pc = "idle" BY Sleepers
  <2>2. Restart => act'[Loop] = Sleeping BY <1>1 DEF Restart
  <2> QED BY <2>1, <2>2
<1>10. ~Tick BY DEF Tick
<1> QED BY <1>5, <1>6, <1>7, <1>8, <1>9, <1>10 DEF Next

\* The loop runs a task at most once for each slot of its cron expression,
\* and the slots in their order, but for a run that broke off before next_run
\* was written: its slot is run again.
THEOREM EachSlotOnce == Spec => OncePerSlot
<1>1. IInv /\ [Next]_vars => [SlotIsNew]_vars
  <2> SUFFICES ASSUME IInv, Next, NEW t \in Task, At(Loop, "scan"), At(Loop, "run")',
                      act'[Loop].task = t
               PROVE  act'[Loop].slot > ran[t] \/ (act'[Loop].slot = ran[t] /\ t \in cut)
    BY DEF SlotIsNew
  <2> DEFINE k == act[Loop]
  <2>1. k.pc = "scan" /\ act'[Loop].pc = "run" BY DEF At
  <2>2. PICK s \in Task : ScanNext(s) BY <2>1, OnlyScanRuns
  <2>3. Loop \in Actors /\ act \in [Actors -> ActState] /\ k \in ActState
    BY ActorFacts DEF IInv, Placed
  <2>4. PICK rest : rest = [r \in {r \in DOMAIN k.todo : r > s} |-> k.todo[r]] OBVIOUS
  <2>5. s \in DOMAIN k.todo BY <2>2 DEF ScanNext, NeedsWork
  <2>6. PICK l : l = (IF k.todo[s].next = Never
                      THEN [k EXCEPT !.pc = "refresh", !.task = s, !.todo = rest]
                      ELSE [k EXCEPT !.pc = "run", !.task = s, !.slot = k.todo[s].next,
                                     !.todo = rest])
    OBVIOUS
  <2>7. Become(Loop, l) BY <2>2, <2>4, <2>6 DEF ScanNext
  <2>8. act'[Loop] = l BY <2>3, <2>7 DEF Become
  <2>9. k.todo[s].next # Never /\ l.task = s /\ l.slot = k.todo[s].next
    BY <2>1, <2>3, <2>6, <2>8 DEF ActState
  <2>10. k.todo[s].next = Never \/ Fresh(s, k.todo[s].next) BY <2>5 DEF IInv, Slots, OnTime
  <2> QED BY <2>8, <2>9, <2>10 DEF Fresh
<1> QED BY <1>1, Invariant, PTL DEF Spec, OncePerSlot
=============================================================================
