--------------------------- MODULE PipelineEngine ---------------------------
(***************************************************************************)
(* One pipeline of one chat session: PipelineEngine.execute and resume     *)
(* (backend/core/pipeline_engine.py), the confirmations that reach them    *)
(* over the chat routes (backend/api/routes_chat.py), and what they keep   *)
(* in Redis: the checkpoint, the transactions of the operation journal     *)
(* and the session's pending key (backend/core/operation_journal.py).      *)
(*                                                                         *)
(* A request is a slot of Requests; a slot that is idle again may serve    *)
(* another one, so |Requests| bounds how many run at once.  Between two    *)
(* awaits the code runs without interruption and is one action.  Both      *)
(* callers of execute() leave skip_on_error at False, and so does this.    *)
(***************************************************************************)
EXTENDS Integers, Sequences, FiniteSetsExt, PipelineSteps

CONSTANTS
  Requests,     \* slots for requests
  MaxConfirms,  \* bound on the confirmations the user sends
  MaxFaults     \* bound on crashes, disconnects, failing calls, lost keys

ASSUME BoundsAssumption == MaxConfirms \in Nat /\ MaxFaults \in Nat

VARIABLES
  pipe,      \* the typed steps
  ckpt,      \* ninko:pipeline:checkpoint:<id>
  pending,   \* ninko:ops:pending:<session>: a transaction, None or Other
  tx,        \* the pipeline_safeguard transactions, in order of creation
  req,       \* what each request is doing
  started,   \* run_pipeline was called
  confirms, faults,
  \* History, read by the properties only:
  approved,  \* steps the user has confirmed
  armed,     \* steps whose agent was called with confirmed = True
  bare,      \* steps whose agent was called with confirmed = False
  completions \* how often each step was completed

store == <<ckpt, pending, tx>>
history == <<approved, armed, bare, completions>>
vars == <<pipe, ckpt, pending, tx, req, started, confirms, faults,
          approved, armed, bare, completions>>

None == 0
Other == -1  \* the transaction of another operation of the session

\* PipelineResult: its status, and its StepResults by their status.
NewResult(done) ==
  [status |-> "running", done |-> done, failed |-> {}, cancelled |-> {}, awaiting |-> {}]

\* A missing key and an empty payload are read alike.
NoCheckpoint ==
  [result |-> [NewResult({}) EXCEPT !.status = "none"], steps |-> FALSE, confirmed |-> {}]

\* A request: pc is the await it is at.  group, todo and out are the loop of
\* execute(), guarded says that its try block would catch a cancellation,
\* at is the step to pause before, tx the transaction a resume answers, ask
\* the one a pause creates.  put, payload and next belong to
\* _checkpoint: what it is given, what it read, where it returns to.
Idle ==
  [pc |-> "idle", auto |-> FALSE, tx |-> None, ask |-> None, confirmed |-> {},
   result |-> NewResult({}),
   group |-> 0, todo |-> {}, out |-> <<>>, guarded |-> FALSE, at |-> None,
   put |-> {}, payload |-> NoCheckpoint, next |-> "idle"]

Init ==
  /\ pipe \in Pipelines
  /\ ckpt = NoCheckpoint /\ pending = None /\ tx = <<>>
  /\ req = [r \in Requests |-> Idle]
  /\ started = FALSE /\ confirms = 0 /\ faults = 0
  /\ approved = {} /\ armed = {} /\ bare = {}
  /\ completions = [i \in Index(pipe) |-> 0]

Becomes(r, l) == req' = [req EXCEPT ![r] = l]
At(r, pc) == req[r].pc = pc
Alone == UNCHANGED <<pipe, started, confirms, faults>>

-----------------------------------------------------------------------------

\* Calls of _checkpoint and _pause_for_confirmation, up to their first await.
Checkpoint(l, put, next) == [l EXCEPT !.pc = "read", !.put = put, !.next = next]

Pause(l, i) ==
  [l EXCEPT !.pc = "journal", !.at = i, !.result.status = "awaiting_confirmation",
            !.result.awaiting = @ \cup {i}]

\* Mutant: failed steps do not count.
FinalStatusMutant(result) == IF result.status # "running" THEN result.status ELSE "completed"

\* The end of execute(): the status and the last checkpoint.  Only a resume
\* has a transaction to settle afterwards.
FinalStatus(result) ==
  IF result.status # "running" THEN result.status
  ELSE IF result.failed = {} THEN "completed" ELSE "partial"

Settle(l) ==
  Checkpoint([l EXCEPT !.result.status = FinalStatus(l.result), !.guarded = FALSE], {},
             IF l.tx = None THEN "idle" ELSE "executed")

-----------------------------------------------------------------------------

\* The run_pipeline tool calls execute(); auto is the session's safeguard
\* profile, which confirms everything.
Start(r, auto) ==
  /\ ~started /\ At(r, "idle")
  /\ started' = TRUE
  /\ Becomes(r, [Idle EXCEPT !.pc = "gate", !.auto = auto])
  /\ approved' = IF auto THEN Index(pipe) ELSE {}
  /\ UNCHANGED <<pipe, store, confirms, faults, armed, bare, completions>>

\* The user confirms, and the route finds the session's pending transaction.
\* The user confirms what that transaction says.  Without one the request
\* is refused.
Lookup(r) ==
  /\ started /\ At(r, "idle")
  /\ pending \in DOMAIN tx
  /\ confirms < MaxConfirms /\ confirms' = confirms + 1
  /\ approved' = approved \cup {tx[pending].step}
  /\ Becomes(r, [Idle EXCEPT !.pc = "mark", !.tx = pending])
  /\ UNCHANGED <<pipe, store, started, faults, armed, bare, completions>>

MarkConfirmed(r) ==
  /\ At(r, "mark")
  /\ tx' = [tx EXCEPT ![req[r].tx].status = "confirmed"]
  /\ Becomes(r, [req[r] EXCEPT !.pc = "load"])
  /\ Alone /\ UNCHANGED <<ckpt, pending, history>>

\* Mutant: the confirmed steps are not taken over from the checkpoint.
LoadMutant(r) ==
  /\ At(r, "load")
  /\ Becomes(r, IF ~ckpt.steps THEN [req[r] EXCEPT !.pc = "clear"]
                ELSE [req[r] EXCEPT !.pc = "gate",
                        !.confirmed = ckpt.result.awaiting,
                        !.result = NewResult({})])
  /\ Alone /\ UNCHANGED <<store, history>>

\* resume(): the confirmed steps of the checkpoint and the ones it says are
\* waiting are confirmed now, the completed ones are kept.  A checkpoint
\* without steps ends the matter.
Load(r) ==
  /\ At(r, "load")
  /\ Becomes(r, IF ~ckpt.steps THEN [req[r] EXCEPT !.pc = "clear"]
                ELSE [req[r] EXCEPT !.pc = "gate",
                        !.confirmed = ckpt.confirmed \cup ckpt.result.awaiting,
                        !.result = NewResult(ckpt.result.done)])
  /\ Alone /\ UNCHANGED <<store, history>>

\* Mutant: one confirmation lets every step through.
GateMutant(r) ==
  LET l == req[r] IN
  /\ At(r, "gate")
  /\ Becomes(r, IF ~l.auto /\ l.confirmed = {} /\ pipe.confirm # {}
                THEN Pause([l EXCEPT !.result = NewResult({})], Min(pipe.confirm))
                ELSE Checkpoint([l EXCEPT !.auto = TRUE], {"steps"}, "groups"))
  /\ Alone /\ UNCHANGED <<store, history>>

\* The pre-flight gate of execute(), or the initial checkpoint.  The gate
\* pauses with a result of its own: what was completed is not in it.
Gate(r) ==
  LET l == req[r]
      open == pipe.confirm \ l.confirmed
  IN
  /\ At(r, "gate")
  /\ Becomes(r, IF ~l.auto /\ l.confirmed = {} /\ pipe.confirm # {}
                THEN Pause([l EXCEPT !.result = NewResult({})], Min(pipe.confirm))
                ELSE Checkpoint([l EXCEPT !.at = IF l.auto \/ open = {} THEN None ELSE Min(open)],
                                {"steps"}, "groups"))
  /\ Alone /\ UNCHANGED <<store, history>>

-----------------------------------------------------------------------------

Plan == [p \in Pipelines |-> Groups(p)]

\* Mutant: only a group that is that step alone is paused before.
PausesMutant(l, k) == Plan[pipe][k] = {l.at}

Pauses(l, k) == l.at \in Plan[pipe][k]

\* The next group with something to do: the one to pause before, or one with
\* steps that are not completed yet.
NextGroups(l) ==
  {k \in DOMAIN Plan[pipe] :
     k > l.group /\ (Pauses(l, k) \/ ~(Plan[pipe][k] \subseteq l.result.done))}

\* Mutant: a failed step does not end the loop.
LoopEndsMutant(l) == l.result.cancelled # {} \/ NextGroups(l) = {}

LoopEnds(l) == l.result.cancelled # {} \/ l.result.failed # {} \/ NextGroups(l) = {}

\* From a checkpoint of the loop to its next await: a cancelled or failed
\* step ends it, else the next group is paused before or its steps begin.
Proceed(r) ==
  LET l == req[r] IN
  /\ At(r, "groups")
  /\ IF LoopEnds(l)
     THEN /\ Becomes(r, Settle(IF l.result.cancelled = {} THEN l
                               ELSE [l EXCEPT !.result.status = "cancelled"]))
          /\ UNCHANGED <<armed, bare>>
     ELSE LET k == Min(NextGroups(l))
              todo == Plan[pipe][k] \ l.result.done
              confirmed == IF l.auto THEN todo ELSE todo \cap l.confirmed
          IN IF Pauses(l, k)
             THEN Becomes(r, Pause([l EXCEPT !.guarded = TRUE], l.at)) /\ UNCHANGED <<armed, bare>>
             ELSE /\ Becomes(r, [l EXCEPT !.pc = "steps", !.guarded = TRUE,
                                   !.group = k, !.todo = todo, !.out = <<>>])
                  /\ armed' = armed \cup confirmed
                  /\ bare' = bare \cup (todo \ confirmed)
  /\ Alone /\ UNCHANGED <<store, approved, completions>>

\* _execute_step returns, its retries included.
StepEnds(r, i, status) ==
  /\ At(r, "steps")
  /\ i \in req[r].todo \ DOMAIN req[r].out
  /\ Becomes(r, [req[r] EXCEPT !.out = [j \in DOMAIN @ \cup {i} |-> IF j = i THEN status ELSE @[j]]])
  /\ completions' = IF status = "completed" THEN [completions EXCEPT ![i] = @ + 1] ELSE completions
  /\ Alone /\ UNCHANGED <<store, approved, armed, bare>>

\* It raises.  gather() makes a failed step of that; a step that runs alone
\* fails the pipeline and has no result.
StepRaises(r, i) ==
  LET l == req[r] IN
  /\ At(r, "steps") /\ l.todo = {i} /\ l.out = <<>>
  /\ Becomes(r, Settle([l EXCEPT !.result.status = "failed", !.todo = {}]))
  /\ Alone /\ UNCHANGED <<store, history>>

\* Mutant: the failed steps of a group are run again until none is left.
GroupDoneMutant(r) ==
  LET l == req[r]
      Ended(status) == {i \in DOMAIN l.out : l.out[i] = status}
      again == [l EXCEPT !.result.done = @ \cup Ended("completed"), !.out = <<>>]
  IN
  /\ At(r, "steps") /\ DOMAIN l.out = l.todo
  /\ Becomes(r, IF Ended("failed") # {} THEN [again EXCEPT !.todo = Ended("failed")]
                ELSE Checkpoint([again EXCEPT !.result.cancelled = @ \cup Ended("cancelled"),
                                              !.todo = {}], {}, "groups"))
  /\ Alone /\ UNCHANGED <<store, history>>

\* Every step of the group has ended.
GroupDone(r) ==
  LET l == req[r]
      Ended(status) == {i \in DOMAIN l.out : l.out[i] = status}
  IN
  /\ At(r, "steps") /\ DOMAIN l.out = l.todo
  /\ Becomes(r, Checkpoint(
       [l EXCEPT !.result.done = @ \cup Ended("completed"),
                 !.result.failed = @ \cup Ended("failed"),
                 !.result.cancelled = @ \cup Ended("cancelled"),
                 !.todo = {}, !.out = <<>>],
       {}, "groups"))
  /\ Alone /\ UNCHANGED <<store, history>>

-----------------------------------------------------------------------------

\* create_pending stores the transaction, then points the session at it.
Journal(r) ==
  /\ At(r, "journal")
  /\ tx' = Append(tx, [status |-> "pending", step |-> req[r].at])
  /\ Becomes(r, [req[r] EXCEPT !.pc = "key", !.ask = Len(tx')])
  /\ Alone /\ UNCHANGED <<ckpt, pending, history>>

SetPending(r) ==
  /\ At(r, "key")
  /\ pending' = req[r].ask
  /\ Becomes(r, Checkpoint(req[r], {"steps", "confirmed"}, "idle"))
  /\ Alone /\ UNCHANGED <<ckpt, tx, history>>

\* _checkpoint reads the old payload and writes it back with the new fields.
ReadCheckpoint(r) ==
  /\ At(r, "read")
  /\ Becomes(r, [req[r] EXCEPT !.pc = "write", !.payload = ckpt])
  /\ Alone /\ UNCHANGED <<store, history>>

Return(r, l) == Becomes(r, IF l.next = "idle" THEN Idle
                           ELSE [l EXCEPT !.pc = l.next, !.put = {}, !.payload = NoCheckpoint,
                                          !.next = "idle"])

WriteCheckpoint(r) ==
  LET l == req[r] IN
  /\ At(r, "write")
  /\ ckpt' = [result |-> l.result,
              steps |-> "steps" \in l.put \/ l.payload.steps,
              confirmed |-> IF "confirmed" \in l.put THEN l.confirmed ELSE l.payload.confirmed]
  /\ Return(r, l)
  /\ Alone /\ UNCHANGED <<pending, tx, history>>

\* The end of a resume that did not pause again: the route settles the
\* transaction and clears the session's pending key, whatever it holds.
MarkExecuted(r) ==
  /\ At(r, "executed")
  /\ tx' = [tx EXCEPT ![req[r].tx].status = "executed"]
  /\ Becomes(r, [req[r] EXCEPT !.pc = "clear"])
  /\ Alone /\ UNCHANGED <<ckpt, pending, history>>

\* Mutant: the pending key stays.
ClearPendingMutant(r) ==
  /\ At(r, "clear")
  /\ Becomes(r, Idle)
  /\ Alone /\ UNCHANGED <<store, history>>

ClearPending(r) ==
  /\ At(r, "clear")
  /\ pending' = None
  /\ Becomes(r, Idle)
  /\ Alone /\ UNCHANGED <<ckpt, tx, history>>

-----------------------------------------------------------------------------

Fault == faults < MaxFaults /\ faults' = faults + 1

\* The client disconnects or the run is cancelled.  In the try block that is
\* recorded before the request ends; the results of steps still running
\* beside completed ones are lost with it.
Cancel(r) ==
  LET l == req[r] IN
  /\ Fault
  /\ l.pc \notin {"idle", "gate", "groups"}
  /\ Becomes(r, IF l.guarded
                THEN Checkpoint([l EXCEPT !.result.status = "cancelled", !.guarded = FALSE,
                                          !.todo = {}, !.out = <<>>], {}, "idle")
                ELSE Idle)
  /\ UNCHANGED <<pipe, store, started, confirms, history>>

\* _checkpoint swallows a failing read or write.
CheckpointFails(r) ==
  /\ Fault
  /\ req[r].pc \in {"read", "write"}
  /\ Return(r, req[r])
  /\ UNCHANGED <<pipe, store, started, confirms, history>>

\* A failing call of the journal: within the try block of execute() the
\* pipeline has failed, elsewhere the request has.
JournalFails(r) ==
  LET l == req[r] IN
  /\ Fault
  /\ l.pc \in {"journal", "key", "mark", "executed", "clear"}
  /\ Becomes(r, IF l.guarded THEN Settle([l EXCEPT !.result.status = "failed"]) ELSE Idle)
  /\ UNCHANGED <<pipe, store, started, confirms, history>>

\* _load_checkpoint takes a failing read for a missing checkpoint.
LoadFails(r) ==
  /\ Fault /\ At(r, "load")
  /\ Becomes(r, [req[r] EXCEPT !.pc = "clear"])
  /\ UNCHANGED <<pipe, store, started, confirms, history>>

Crash ==
  /\ Fault
  /\ req' = [r \in Requests |-> Idle]
  /\ UNCHANGED <<pipe, store, started, confirms, history>>

\* The checkpoint lives for an hour, the pending key for a day.
CheckpointExpires ==
  /\ Fault
  /\ ckpt' = NoCheckpoint
  /\ UNCHANGED <<pipe, pending, tx, req, started, confirms, history>>

\* The session has one pending key, and another operation that asks for
\* confirmation takes it.
OtherPending ==
  /\ Fault
  /\ pending' = Other
  /\ UNCHANGED <<pipe, ckpt, tx, req, started, confirms, history>>

-----------------------------------------------------------------------------

Work(r) ==
  \/ MarkConfirmed(r)
  \/ Load(r)
  \/ Gate(r)
  \/ Proceed(r)
  \/ \E i \in Index(pipe), status \in {"completed", "failed", "cancelled"} : StepEnds(r, i, status)
  \/ \E i \in Index(pipe) : StepRaises(r, i)
  \/ GroupDone(r)
  \/ Journal(r)
  \/ SetPending(r)
  \/ ReadCheckpoint(r)
  \/ WriteCheckpoint(r)
  \/ MarkExecuted(r)
  \/ ClearPending(r)

Next ==
  \/ \E r \in Requests :
       \/ \E auto \in BOOLEAN : Start(r, auto)
       \/ Lookup(r)
       \/ Work(r)
       \/ Cancel(r)
       \/ CheckpointFails(r)
       \/ JournalFails(r)
       \/ LoadFails(r)
  \/ Crash
  \/ CheckpointExpires
  \/ OtherPending

\* A request that is not waiting for the user gets to its next await: Redis
\* answers or fails, and every attempt of a step has a timeout.
Fairness == \A r \in Requests : WF_vars(Work(r))

Spec == Init /\ [][Next]_vars /\ Fairness

-----------------------------------------------------------------------------
(* Properties *)

Statuses == {"none", "running", "awaiting_confirmation", "completed", "failed",
             "cancelled", "partial"}
Results == [status : Statuses, done : SUBSET Index(pipe), failed : SUBSET Index(pipe),
            cancelled : SUBSET Index(pipe), awaiting : SUBSET Index(pipe)]
Checkpoints == [result : Results, steps : BOOLEAN, confirmed : SUBSET Index(pipe)]

\* The types; a request refers to an existing transaction, and only steps
\* that require it are asked for.
TypeOK ==
  /\ ckpt \in Checkpoints
  /\ pending \in {None, Other} \cup DOMAIN tx
  /\ \A t \in DOMAIN tx : tx[t].status \in {"pending", "confirmed", "executed"}
                          /\ tx[t].step \in pipe.confirm
  /\ \A r \in Requests :
       /\ req[r].result \in Results /\ req[r].payload \in Checkpoints
       /\ req[r].tx \in {None} \cup DOMAIN tx
       /\ req[r].confirmed \subseteq pipe.confirm
       /\ DOMAIN req[r].out \subseteq req[r].todo
  /\ confirms \in 0..MaxConfirms /\ faults \in 0..MaxFaults

\* A step's agent runs only when the steps whose results it relies on have
\* been completed, before or after a pause, a crash or a cancelled run: the
\* groups and their order, the break after a failed or cancelled step.
DependenciesFirst ==
  \A r \in Requests : \A i \in req[r].todo : \A d \in Before(pipe, i) : completions[d] > 0

\* The pause is answerable (one request at a time, nothing lost): when no
\* request runs, the checkpoint waits for a step exactly when the session's
\* pending transaction asks for that step.
AwaitingIsConfirmable ==
  (faults = 0 /\ \A r \in Requests : At(r, "idle")) =>
     /\ pending = None <=> ckpt.result.awaiting = {}
     /\ pending # None => ckpt.result.awaiting = {tx[pending].step} /\ ckpt.steps

\* A step is completed again only by what a crash, a disconnect or a failing
\* or lost checkpoint took away, and by each of them at most once (one
\* request at a time).
NothingRepeated == \A i \in Index(pipe) : completions[i] <= 1 + faults

\* The checkpoint of a completed pipeline: every step was, and no later write
\* of the same request changes that.
CompletedMeansAll ==
  ckpt.result.status = "completed" =>
     ckpt.result.done = Index(pipe) /\ \A i \in Index(pipe) : completions[i] > 0

\* Where the groups follow the order of the indices, as they do when nothing
\* is declared, a step that needs the user's confirmation never runs without
\* one, whatever fails in between: the gate takes the first step that needs
\* it, the loop the first open one, and an interrupted resume forgets
\* confirmations but never invents one.
InOrder ==
  \A j, k \in DOMAIN Plan[pipe] :
    j < k => \A a \in Plan[pipe][j], b \in Plan[pipe][k] : a < b

AsksInOrder == InOrder => bare \cap pipe.confirm = {}

\* When nothing fails and one request runs at a time, the agent is told
\* confirmed only for a step the user was asked about (or for all of them by
\* a profile that confirms everything).
ArmedMeansApproved == faults = 0 => armed \subseteq approved

\* Every request ends.
RequestsEnd == \A r \in Requests : []<>At(r, "idle")

\* core/pipeline_engine.py:974-978 says of resume() that it confirms only the step
\* that was waiting last, and that one confirmation never authorises the
\* whole pipeline.  With a second request, or a disconnect, in between, the
\* step the checkpoint names is not the one the user was asked about.
OneConfirmationOneStep == armed \subseteq approved
=============================================================================
