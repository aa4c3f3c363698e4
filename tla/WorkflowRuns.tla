---------------------------- MODULE WorkflowRuns ----------------------------
(***************************************************************************)
(* The run list of one workflow (ninko:workflow:runs:<id>) and the run     *)
(* index (ninko:workflow:run_index) of its tenant, as the coroutines of    *)
(* several runs share them: the three ways to start a run, the updates of  *)
(* the engine (backend/core/workflow_engine.py), the retry of a failed     *)
(* step, the deletion of the workflow (backend/api/routes_workflows.py)    *)
(* and the sweep of a restart; and, for the index, the starts and          *)
(* deletions of the tenant's other workflows.                              *)
(*                                                                         *)
(* Every access is a GET of the whole JSON value and a SET of the changed  *)
(* copy.  Most writers of the list hold the workflow's lock in between;    *)
(* the run route, the deletion and all writers of the index do not.  What  *)
(* a run does with its nodes is WorkflowEngine; here it is one step.       *)
(***************************************************************************)
EXTENDS Integers, Sequences, FiniteSets
LOCAL INSTANCE SequencesExt

CONSTANTS
  Run,        \* run ids
  Retrier,    \* slots for requests to retry a step
  Neighbour,  \* starts and deletions of other workflows of the tenant
  Step,       \* the workflow's nodes
  Edge,       \* its edges, a sequence of pairs of steps
  MaxRuns,    \* MAX_RUNS_PER_WORKFLOW
  MaxEvents   \* bound on retries, on writes of the index by other workflows,
              \* and on one deletion, restart or failing Redis call, which is
              \* the last of these events

None == "none"
Coroutine == Run \cup Retrier

ASSUME RunsAssumption ==
  /\ Run \cap Retrier = {} /\ None \notin Coroutine /\ Neighbour \cap Run = {}
  /\ Edge \in Seq(Step \X Step)
  /\ MaxRuns \in Nat \ {0} /\ MaxEvents \in Nat

VARIABLES
  exists,   \* the workflow is in ninko:workflows
  list,     \* the run list: a sequence of entries
  index,    \* the runs the index maps to this workflow
  lock,     \* holder of get_run_update_lock, or None
  job,      \* what each coroutine is doing
  deletion, \* where delete_workflow is
  neighbour,\* where the other workflows are, and their copies of the index
  events,
  \* History, read by the properties only:
  last,     \* the entry of each run as a coroutine of that run last wrote it
  stale,    \* runs whose entry changed, or went, while the run route held an
            \* older copy
  crowded,  \* runs put in the index while another starter, or a start or
            \* deletion of another workflow, held an older copy, until it is
            \* known that the copy did no harm
  shared    \* runs retried while another coroutine was working on another step

stored == <<list, index>>
history == <<last, stale, crowded, shared>>
vars == <<exists, list, index, lock, job, deletion, neighbour, events,
          last, stale, crowded, shared>>

NoSteps == <<>>

-----------------------------------------------------------------------------
(* Entries *)

Entry(r, status, steps) == [run |-> r, status |-> status, steps |-> steps]
NewEntry(r) == Entry(r, "running", NoSteps)
Position(l, r) == {i \in DOMAIN l : l[i].run = r}
Has(l, r) == Position(l, r) # {}
Find(l, r) == l[CHOOSE i \in Position(l, r) : TRUE]
Trim(l) == SubSeq(l, (IF Len(l) > MaxRuns THEN Len(l) - MaxRuns ELSE 0) + 1, Len(l))

\* _update_run: the entry of the run takes the status and the steps.
Put(l, r, status, steps) ==
  [i \in DOMAIN l |-> IF l[i].run = r THEN Entry(r, status, steps) ELSE l[i]]

AllPending == [s \in Step |-> "pending"]
Verdict(steps) == IF \E s \in Step : steps[s] = "failed" THEN "failed" ELSE "succeeded"

\* The steps a run may end with: a step has run if what leads to it has
\* succeeded, and a run without a failure has run them all.
Outcome ==
  {st \in [Step -> {"pending", "succeeded", "failed"}] :
     /\ \A i \in DOMAIN Edge : st[Edge[i][2]] # "pending" => st[Edge[i][1]] = "succeeded"
     /\ (\E s \in Step : st[s] = "pending") => \E s \in Step : st[s] = "failed"}

\* A coroutine: pc is the await it is at; list and index are the copies it
\* has read, steps its step map.  status and next belong to _update_run: what
\* it writes and where it returns to.  run, step, before, queue, visited and
\* broken belong to a retry.
Idle ==
  [pc |-> "idle", list |-> <<>>, index |-> {}, steps |-> NoSteps, status |-> None,
   next |-> "idle", run |-> None, step |-> None, before |-> None, queue |-> <<>>,
   visited |-> {}, broken |-> FALSE]

Of(r) == [Idle EXCEPT !.run = r]

Init ==
  /\ exists = TRUE /\ list = <<>> /\ index = {} /\ lock = None
  /\ job = [c \in Coroutine |-> IF c \in Run THEN Of(c) ELSE Idle]
  /\ deletion = "idle"
  /\ neighbour = [n \in Neighbour |-> [pc |-> "idle", index |-> {}]]
  /\ events = 0
  /\ last = [r \in Run |-> Entry(r, None, NoSteps)]
  /\ stale = {} /\ crowded = {} /\ shared = {}

At(c, pc) == job[c].pc = pc
Becomes(c, l) == job' = [job EXCEPT ![c] = l]

\* _update_run with these arguments, up to its first await.
Update(l, status, next) == [l EXCEPT !.pc = "read", !.status = status, !.next = next]

\* _compute_retry_targets of one step: the targets that have not run.
Targets(steps, s) ==
  LET To(e) == e[1] = s /\ steps[e[2]] = "pending"
      out == SelectSeq(Edge, To)
  IN [i \in DOMAIN out |-> out[i][2]]

\* What the loop of execute_step gathers: the places in the queue of steps it
\* has not visited.  A step that is in the queue twice is executed twice.
Batch(l) == {i \in DOMAIN l.queue : l.queue[i] \notin l.visited}

\* With nothing left to visit the run ends.
NextBatch(l) ==
  IF Batch(l) = {} THEN Update([l EXCEPT !.queue = <<>>], Verdict(l.steps), "idle")
  ELSE [l EXCEPT !.pc = "gather"]

\* The code after an _update_run, up to the next await: execute() after its
\* last batch, execute_step() after the retried step and after each batch.
Continue(l) ==
  CASE l.next = "finally" -> Update(l, Verdict(l.steps), "done")
    [] l.next = "retried" ->
         NextBatch([l EXCEPT !.queue = Targets(l.steps, l.step), !.visited = {l.step}])
    [] l.next = "gathered" ->
         IF l.broken THEN Update(l, "failed", "idle")
         ELSE LET of(i) == IF i \in Batch(l) THEN Targets(l.steps, l.queue[i]) ELSE <<>>
              IN NextBatch([l EXCEPT !.queue = FlattenSeq([i \in DOMAIN l.queue |-> of(i)]),
                                     !.visited = @ \cup {l.queue[i] : i \in DOMAIN l.queue}])
    [] l.next = "idle" -> Idle
    [] l.next = "done" -> [Of(l.run) EXCEPT !.pc = "done"]
    [] OTHER -> [l EXCEPT !.pc = l.next, !.next = "idle", !.status = None]

\* A coroutine of run r writes its entry.
Wrote(r, entry) == last' = [last EXCEPT ![r] = entry]

\* The run route holds, for another run than c, a copy of the list in which c
\* is about to change the entries of these runs, or to drop some.
Outdates(c, runs) ==
  stale' = IF \E r \in Run \ {c} : At(r, "append")
           THEN stale \cup runs \cup {x \in Run : Has(list, x) /\ ~Has(list', x)}
           ELSE stale

\* The runs another writer of the index than c has read it without.
MissedBy(c) ==
  {x \in Run :
     \/ \E d \in Run \ {c} :
          job[d].pc \in {"route_index", "engine_index"} /\ x \notin job[d].index
     \/ \E n \in Neighbour \ {c} :
          neighbour[n].pc = "write_index" /\ x \notin neighbour[n].index}
Crowds(c, new) ==
  crowded' = (new \cap MissedBy(c)) \cup {x \in crowded : x \notin index' \/ x \in MissedBy(c)}

Retry == events < MaxEvents /\ events' = events + 1
Fault == events < MaxEvents /\ events' = MaxEvents

-----------------------------------------------------------------------------
(* Starting a run *)

\* The workflow has been loaded; kind says who starts it.
Start(r, kind) ==
  /\ exists /\ At(r, "idle")
  /\ Becomes(r, [Of(r) EXCEPT !.pc =
       CASE kind = "route" -> "route"          \* run_workflow
         [] kind = "tool" -> "tool"            \* execute_workflow
         [] kind = "schedule" -> "engine"])    \* the scheduler, a subflow
  /\ UNCHANGED <<exists, stored, lock, deletion, neighbour, events, history>>

\* run_workflow reads and writes the list without the lock.
RouteRead(r) ==
  /\ At(r, "route")
  /\ Becomes(r, [job[r] EXCEPT !.pc = "append", !.list = list])
  /\ UNCHANGED <<exists, stored, lock, deletion, neighbour, events, history>>

RouteAppend(r) ==
  /\ At(r, "append")
  /\ list' = Trim(Append(job[r].list, NewEntry(r))) /\ Wrote(r, NewEntry(r))
  /\ Becomes(r, [job[r] EXCEPT !.pc = "route_after", !.list = <<>>])
  /\ Outdates(r, {r})
  /\ UNCHANGED <<exists, index, lock, deletion, neighbour, events, crowded, shared>>

RouteReadIndex(r) ==
  /\ At(r, "route_after")
  /\ Becomes(r, [job[r] EXCEPT !.pc = "route_index", !.index = index])
  /\ UNCHANGED <<exists, stored, lock, deletion, neighbour, events, history>>

\* Then the engine is started as a task.
RouteWriteIndex(r) ==
  /\ At(r, "route_index")
  /\ index' = job[r].index \cup {r}
  /\ Crowds(r, {})
  /\ Becomes(r, [job[r] EXCEPT !.pc = "engine", !.index = {}])
  /\ UNCHANGED <<exists, list, lock, deletion, neighbour, events, last, stale, shared>>

\* execute_workflow appends under the lock and leaves the index to the engine.
ToolRead(r) ==
  /\ At(r, "tool") /\ lock = None
  /\ lock' = r
  /\ Becomes(r, [job[r] EXCEPT !.pc = "tool_append", !.list = list])
  /\ UNCHANGED <<exists, stored, deletion, neighbour, events, history>>

ToolAppend(r) ==
  /\ At(r, "tool_append")
  /\ list' = Trim(Append(job[r].list, NewEntry(r))) /\ Wrote(r, NewEntry(r))
  /\ lock' = None
  /\ Becomes(r, [job[r] EXCEPT !.pc = "engine", !.list = <<>>])
  /\ Outdates(r, {r})
  /\ UNCHANGED <<exists, index, deletion, neighbour, events, crowded, shared>>

-----------------------------------------------------------------------------
(* WorkflowEngine.execute *)

ReadIndex(r) ==
  /\ At(r, "engine")
  /\ Becomes(r, [job[r] EXCEPT !.pc = "engine_index", !.index = index])
  /\ UNCHANGED <<exists, stored, lock, deletion, neighbour, events, history>>

\* Mutant: a run that is started by the route is taken to be in the index.
WriteIndexMutant(r) ==
  /\ At(r, "engine_index")
  /\ index' = IF Has(list, r) THEN job[r].index ELSE job[r].index \cup {r}
  /\ Crowds(r, {r})
  /\ Becomes(r, [job[r] EXCEPT !.pc = "ensure", !.index = {}])
  /\ UNCHANGED <<exists, list, lock, deletion, neighbour, events, last, stale, shared>>

WriteIndex(r) ==
  /\ At(r, "engine_index")
  /\ index' = job[r].index \cup {r}
  /\ Crowds(r, {r})
  /\ Becomes(r, [job[r] EXCEPT !.pc = "ensure", !.index = {}])
  /\ UNCHANGED <<exists, list, lock, deletion, neighbour, events, last, stale, shared>>

\* _ensure_run_entry: nothing is written for a run that is in the list.
EnsureRead(r) ==
  /\ At(r, "ensure") /\ lock = None
  /\ IF Has(list, r)
       THEN /\ Becomes(r, Update([job[r] EXCEPT !.steps = AllPending], "running", "work"))
            /\ UNCHANGED lock
       ELSE /\ Becomes(r, [job[r] EXCEPT !.pc = "ensure_append", !.list = list])
            /\ lock' = r
  /\ UNCHANGED <<exists, stored, deletion, neighbour, events, history>>

EnsureAppend(r) ==
  /\ At(r, "ensure_append")
  /\ list' = Trim(Append(job[r].list, NewEntry(r))) /\ Wrote(r, NewEntry(r))
  /\ lock' = None
  /\ Becomes(r, Update([job[r] EXCEPT !.steps = AllPending, !.list = <<>>], "running", "work"))
  /\ Outdates(r, {r})
  /\ UNCHANGED <<exists, index, deletion, neighbour, events, crowded, shared>>

\* The traversal: its batches, and the update after the last one.
Work(r, st) ==
  /\ At(r, "work")
  /\ Becomes(r, Update([job[r] EXCEPT !.steps = st], "running", "finally"))
  /\ UNCHANGED <<exists, stored, lock, deletion, neighbour, events, history>>

\* Mutant: the update does without the lock.
UpdateReadMutant(c) ==
  /\ At(c, "read") /\ lock = None
  /\ Becomes(c, [job[c] EXCEPT !.pc = "write", !.list = list])
  /\ UNCHANGED <<exists, stored, lock, deletion, neighbour, events, history>>

\* _update_run takes the lock and reads the list.
UpdateRead(c) ==
  /\ At(c, "read") /\ lock = None
  /\ lock' = c
  /\ Becomes(c, [job[c] EXCEPT !.pc = "write", !.list = list])
  /\ UNCHANGED <<exists, stored, deletion, neighbour, events, history>>

\* It writes only a list that has the run, and gives the lock back.
UpdateWrite(c) ==
  LET l == job[c] IN
  /\ At(c, "write")
  /\ list' = IF Has(l.list, l.run) THEN Put(l.list, l.run, l.status, l.steps) ELSE list
  /\ Wrote(l.run, Entry(l.run, l.status, l.steps))
  /\ lock' = None
  /\ Becomes(c, Continue([l EXCEPT !.list = <<>>]))
  /\ Outdates(c, {l.run})
  /\ UNCHANGED <<exists, index, deletion, neighbour, events, crowded, shared>>
-----------------------------------------------------------------------------
(* retry_workflow_step and WorkflowEngine.execute_step *)

Retryable(l, r, s) ==
  /\ Has(l, r) /\ Find(l, r).steps # NoSteps
  /\ Find(l, r).steps[s] = "failed"

\* Mutant: the step is looked at before the lock is taken.
RetryReadMutant(q, r, s) ==
  /\ At(q, "idle") /\ Retryable(list, r, s)
  /\ Retry
  /\ Becomes(q, [Of(r) EXCEPT !.pc = "reset", !.step = s, !.list = list])
  /\ UNCHANGED <<exists, stored, lock, deletion, neighbour, history>>

\* Under the lock: only a failed step of a listed run may be retried, other
\* requests end here.  The index, read before, has named a run that has steps.
RetryRead(q, r, s) ==
  /\ At(q, "idle") /\ lock = None /\ Retryable(list, r, s)
  /\ Retry
  /\ lock' = q
  /\ Becomes(q, [Of(r) EXCEPT !.pc = "reset", !.step = s, !.list = list])
  /\ UNCHANGED <<exists, stored, deletion, neighbour, history>>

\* Another coroutine works on the run, though not on a retry of the step: its
\* own step map will be written over what the retry writes.
Busy(q) ==
  LET l == job[q] IN
  \/ job[l.run].pc # "done" /\ job[l.run].pc # "dead"
  \/ \E p \in Retrier \ {q} : job[p].run = l.run /\ job[p].step # l.step
                             /\ job[p].pc # "idle"

\* The step is reset and execute_step started as a task, unless the workflow
\* is gone.
Reset(q) ==
  LET l == job[q]
      e == Find(l.list, l.run)
  IN
  /\ At(q, "reset")
  /\ lock' = None
  /\ IF exists
       THEN /\ list' = Put(l.list, l.run, e.status, [e.steps EXCEPT ![l.step] = "pending"])
            /\ Wrote(l.run, Entry(l.run, e.status, [e.steps EXCEPT ![l.step] = "pending"]))
            /\ Becomes(q, [l EXCEPT !.pc = "load", !.list = <<>>])
            /\ Outdates(q, {l.run})
            /\ shared' = IF Busy(q) THEN shared \cup {l.run} ELSE shared
       ELSE Becomes(q, Idle) /\ UNCHANGED <<list, last, stale, shared>>
  /\ UNCHANGED <<exists, index, deletion, neighbour, events, crowded>>

\* execute_step reads the run without the lock and works on this copy.
LoadRun(q) ==
  LET l == job[q] IN
  /\ At(q, "load")
  /\ IF Has(list, l.run) /\ Find(list, l.run).steps # NoSteps
       THEN Becomes(q, Update([l EXCEPT !.before = Find(list, l.run).status,
                         !.steps = [Find(list, l.run).steps EXCEPT ![l.step] = "running"]],
                              "running", "retry_step"))
       ELSE Becomes(q, Idle)
  /\ UNCHANGED <<exists, stored, lock, deletion, neighbour, events, history>>

RetrySucceeds(q) ==
  /\ At(q, "retry_step")
  /\ Becomes(q, Update([job[q] EXCEPT !.before = None, !.steps[job[q].step] = "succeeded"],
                       "running", "retried"))
  /\ UNCHANGED <<exists, stored, lock, deletion, neighbour, events, history>>

\* The except branch writes the status the run had when it was loaded.
RetryFails(q) ==
  /\ At(q, "retry_step")
  /\ Becomes(q, Update([job[q] EXCEPT !.before = None, !.steps[job[q].step] = "failed"],
                       job[q].before, "idle"))
  /\ UNCHANGED <<exists, stored, lock, deletion, neighbour, events, history>>

\* Of the gathered executions those in bad raise.  Of two executions of one
\* step the one that ends last leaves its status.
Gather(q, bad, st) ==
  LET l == job[q]
      of(s) == {i \in Batch(l) : l.queue[i] = s}
  IN
  /\ At(q, "gather")
  /\ bad \subseteq Batch(l)
  /\ \A s \in Step :
       \/ of(s) = {} /\ st[s] = l.steps[s]
       \/ of(s) \ bad # {} /\ st[s] = "succeeded"
       \/ of(s) \cap bad # {} /\ st[s] = "failed"
  /\ Becomes(q, Update([l EXCEPT !.steps = st, !.broken = bad # {}], "running", "gathered"))
  /\ UNCHANGED <<exists, stored, lock, deletion, neighbour, events, history>>

-----------------------------------------------------------------------------
(* delete_workflow *)

DeleteWorkflow ==
  /\ exists /\ Fault
  /\ exists' = FALSE
  /\ deletion' = "delete_runs"
  /\ crowded' = {}
  /\ UNCHANGED <<stored, lock, job, neighbour, last, stale, shared>>

DeleteRuns ==
  /\ deletion = "delete_runs"
  /\ list' = <<>>
  /\ deletion' = "write_index"
  /\ Outdates(None, {})
  /\ UNCHANGED <<exists, index, lock, job, neighbour, events, last, crowded, shared>>

\* The copy written back has none of this workflow's runs, whenever it was
\* read; what it lacks of other workflows is their own concern (Neighbour).
DeleteWriteIndex ==
  /\ deletion = "write_index"
  /\ index' = {}
  /\ deletion' = "done"
  /\ UNCHANGED <<exists, list, lock, job, neighbour, events, history>>

-----------------------------------------------------------------------------
(* Another workflow of the tenant is started, which adds a run of its own to
   the index, or deleted, which removes its own from it *)

NeighbourReadIndex(n) ==
  /\ neighbour[n].pc = "idle" /\ Retry
  /\ neighbour' = [neighbour EXCEPT ![n] = [pc |-> "write_index", index |-> index]]
  /\ UNCHANGED <<exists, stored, lock, job, deletion, history>>

\* The runs of this workflow are written back as they were read.
NeighbourWriteIndex(n) ==
  /\ neighbour[n].pc = "write_index"
  /\ index' = neighbour[n].index
  /\ Crowds(n, {})
  /\ neighbour' = [neighbour EXCEPT ![n] = [pc |-> "idle", index |-> {}]]
  /\ UNCHANGED <<exists, list, lock, job, deletion, events, last, stale, shared>>

-----------------------------------------------------------------------------
(* Faults *)

\* A Redis call fails under the lock, in a way nothing catches.  A coroutine
\* that dies without the lock is one that takes no further step.
Dies(c) ==
  /\ lock = c
  /\ Fault
  /\ lock' = None
  /\ Becomes(c, IF c \in Run THEN [Of(c) EXCEPT !.pc = "dead"] ELSE Idle)
  /\ UNCHANGED <<exists, stored, deletion, neighbour, history>>

\* The process dies.  Before the next one serves requests,
\* sweep_orphan_workflow_runs marks the running entries old enough.
Restart(old) ==
  LET Swept(steps) == IF steps = NoSteps THEN NoSteps
                      ELSE [s \in Step |-> IF steps[s] = "running" THEN "interrupted" ELSE steps[s]]
      Sweep(e) == IF e.run \in old /\ e.status = "running"
                  THEN Entry(e.run, "interrupted", Swept(e.steps)) ELSE e
  IN
  /\ Fault
  /\ lock' = None
  /\ job' = [c \in Coroutine |-> IF c \notin Run THEN Idle
                                 ELSE IF At(c, "idle") \/ At(c, "done") THEN job[c]
                                 ELSE [Of(c) EXCEPT !.pc = "dead"]]
  /\ deletion' = IF deletion = "idle" THEN "idle" ELSE "done"
  /\ neighbour' = [n \in Neighbour |-> [pc |-> "idle", index |-> {}]]
  /\ list' = [i \in DOMAIN list |-> Sweep(list[i])]
  /\ last' = [r \in Run |-> IF Has(list, r) THEN Sweep(last[r]) ELSE last[r]]
  /\ stale' = {x \in stale : \E i \in Position(list, x) : list[i] # last[x]}
  /\ crowded' = crowded \ index
  /\ UNCHANGED <<exists, index, shared>>

-----------------------------------------------------------------------------

Starts(r) ==
  \/ \E kind \in {"route", "tool", "schedule"} : Start(r, kind)
  \/ RouteRead(r) \/ RouteAppend(r) \/ RouteReadIndex(r) \/ RouteWriteIndex(r)
  \/ ToolRead(r) \/ ToolAppend(r)
Engine(r) ==
  \/ ReadIndex(r) \/ WriteIndex(r) \/ EnsureRead(r) \/ EnsureAppend(r)
  \/ At(r, "work") /\ \E st \in Outcome : Work(r, st)
Retries(q) ==
  \/ \E r \in Run, s \in Step : RetryRead(q, r, s)
  \/ Reset(q) \/ LoadRun(q)
  \/ RetrySucceeds(q) \/ RetryFails(q)
  \/ /\ At(q, "gather")
     /\ \E bad \in SUBSET Batch(job[q]), st \in [Step -> {"pending", "succeeded", "failed"}] :
          Gather(q, bad, st)
Deletion == DeleteWorkflow \/ DeleteRuns \/ DeleteWriteIndex
Faults == (\E c \in Coroutine : Dies(c)) \/ (\E old \in SUBSET Run : Restart(old))

Next ==
  \/ \E r \in Run : Starts(r) \/ Engine(r)
  \/ \E q \in Retrier : Retries(q)
  \/ \E c \in Coroutine : UpdateRead(c) \/ UpdateWrite(c)
  \/ Deletion
  \/ \E n \in Neighbour : NeighbourReadIndex(n) \/ NeighbourWriteIndex(n)
  \/ Faults

Spec == Init /\ [][Next]_vars

-----------------------------------------------------------------------------
(* Properties *)

\* The list shows of each run what a coroutine of that run wrote last: the
\* updates of one run never put an older copy of another's entry in its
\* place.  Only the run route, which reads and writes the list without the
\* lock, can do so, to a run that wrote in between.
ShowsOwnUpdates ==
  \A r \in Run \ stale : Has(list, r) => Find(list, r) = last[r]

\* No step is executed by two retries at once, however the user clicks: the
\* first resets the step under the lock and the second is refused.  Unless
\* the failed step is brought back: by the step map of another coroutine of
\* the same run still at work, or by the run route.
OneRetryPerStep ==
  \A p, q \in Retrier :
    /\ p # q /\ job[p].run = job[q].run /\ job[p].step = job[q].step
    /\ ~At(p, "idle") /\ ~At(q, "idle")
    => job[p].run \in shared \cup stale

\* A run whose engine has gone past the index can be found by its id as long
\* as the workflow exists, unless it was put in the index while a start of
\* another run, or a start or deletion of another workflow of the tenant, held
\* a copy without it: all of them write the whole index back without a lock.
Findable ==
  exists => \A r \in Run \ crowded :
    job[r].pc \in {"ensure", "ensure_append", "read", "write", "work", "done"}
      => r \in index

=============================================================================
