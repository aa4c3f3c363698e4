------------------------------ MODULE Approvals ------------------------------
(***************************************************************************)
(* The approval of tool calls: agents/base_agent.py with the middleware    *)
(* that runs an agent (agents/middleware/execution.py), the clean-up loop  *)
(* of core/safeguard.py and the callers that confirm or discard.           *)
(*                                                                         *)
(* A run of an agent drives its graph: the model proposes a batch of tool  *)
(* calls, the graph is interrupted, the safeguard decides.  A batch that   *)
(* needs an approval is written to Redis under the session, the graph is   *)
(* kept in memory, and the run ends.  A resume takes the kept graph and    *)
(* drives it further; a discard forgets it.  The Redis key lives for five  *)
(* minutes.  Resumes and discards hold a global lock and the lock of the   *)
(* session, runs hold the lock of the session, the clean-up loop holds the *)
(* global lock.                                                            *)
(***************************************************************************)
EXTENDS Naturals

CONSTANTS
    Sessions,      \* session ids
    Runs,          \* runs of agents with tools and the safeguard enabled
    Requests,      \* calls of resume_safeguard_tool and discard_pending_safeguard
    SessionOf,     \* the session of each run and request
    MaxBatches,    \* bound on the batches of tool calls of each run
    MaxFaults,     \* bound on cancellations, Redis errors and restarts
    None

Workers == Runs \cup Requests
Cleaner == "cleaner"

ASSUME SessionAssumption == SessionOf \in [Workers -> Sessions]
ASSUME BoundAssumption == MaxBatches \in [Runs -> Nat] /\ MaxFaults \in Nat
ASSUME NamesDistinct ==
    /\ Runs \cap Requests = {}
    /\ None \notin Workers \cup {Cleaner}
    /\ Cleaner \notin Workers
    /\ None \notin Runs \X Nat

VARIABLES
    channel,  \* where each session lives: it decides which calls there are
    key,      \* Redis: the pending approval of each session
    paused,   \* _paused_sg_agents: the run whose graph is kept
    aged,     \* the entry of _paused_sg_agents_ts is older than its TTL
    graph,    \* checkpoint of each run: the batch and the node that comes next
    pc,       \* where each worker stands
    call,     \* of a request: what it asks for, and the run it drives
    glock,    \* holder of _paused_sg_agents_lock
    slock,    \* holder of each session's lock
    clean,    \* the clean-up loop
    faults,
    buttons,  \* Telegram: approvals whose buttons were not pressed
    shown,    \* history: approvals that reached a user
    overlap,  \* history: runs that waited for the session when it paused last
    orphaned  \* history: sessions whose kept graph and key came apart by a fault

vars == <<channel, key, paused, aged, graph, pc, call, glock, slock, clean, faults,
          buttons, shown, overlap, orphaned>>
memory == <<paused, aged>>
locks == <<glock, slock>>
history == <<buttons, shown, overlap, orphaned>>

Approval == UNION {{r} \X (1..MaxBatches[r]): r \in Runs}
Idle == [pc |-> "sleep", todo |-> {}, stale |-> {}]
NoCall == [kind |-> "none", id |-> None, drives |-> None]

Drives(w) == IF w \in Runs THEN w ELSE call[w].drives
Here(r) == <<r, graph[r].batch>>
Sess(w) == SessionOf[w]

Driving == {"run", "decide", "write", "set", "hung"}

Channels == {"chat", "telegram", "background"}

TypeOK ==
    /\ channel \in [Sessions -> Channels]
    /\ key \in [Sessions -> Approval \cup {None}]
    /\ paused \in [Sessions -> Runs \cup {None}]
    /\ aged \in [Sessions -> BOOLEAN]
    /\ graph \in [Runs -> [batch: Nat, at: {"model", "tools", "end"}]]
    /\ pc \in [Workers -> {"new", "look", "glock", "slock", "check", "drop",
                           "erase", "done"} \cup Driving]
    /\ call \in [Requests -> [kind: {"none", "resume", "discard"},
                              id: Approval \cup {None},
                              drives: Runs \cup {None}]]
    /\ glock \in Workers \cup {Cleaner, None}
    /\ slock \in [Sessions -> Workers \cup {None}]
    /\ clean \in [pc: {"sleep", "look", "lock", "check", "pop", "ended"},
                  todo: SUBSET Sessions, stale: SUBSET Sessions]
    /\ faults \in 0..MaxFaults
    /\ buttons \subseteq Approval /\ shown \subseteq Approval
    /\ overlap \in [Sessions -> SUBSET Runs]
    /\ orphaned \subseteq Sessions

Init ==
    /\ channel \in [Sessions -> Channels]
    /\ key = [s \in Sessions |-> None]
    /\ paused = [s \in Sessions |-> None]
    /\ aged = [s \in Sessions |-> FALSE]
    /\ graph = [r \in Runs |-> [batch |-> 0, at |-> "model"]]
    /\ pc = [w \in Workers |-> "new"]
    /\ call = [q \in Requests |-> NoCall]
    /\ glock = None
    /\ slock = [s \in Sessions |-> None]
    /\ clean = Idle
    /\ faults = 0
    /\ buttons = {} /\ shown = {} /\ orphaned = {}
    /\ overlap = [s \in Sessions |-> {}]

Goto(w, l) == pc' = [pc EXCEPT ![w] = l]

Pop(s) ==
    /\ paused' = [paused EXCEPT ![s] = None]
    /\ aged' = [aged EXCEPT ![s] = FALSE]

\* The end of the `async with` blocks of a worker.
Release(w) ==
    /\ glock' = IF glock = w THEN None ELSE glock
    /\ slock' = [s \in Sessions |-> IF slock[s] = w THEN None ELSE slock[s]]

Return(w) ==
    /\ Goto(w, "done")
    /\ Release(w)
    /\ call' = [q \in Requests |-> IF q = w THEN NoCall ELSE call[q]]

\* The pending key is deleted; with it nothing is orphaned any more.
KeyGone(s) ==
    /\ key' = [key EXCEPT ![s] = None]
    /\ orphaned' = orphaned \ {s}
    /\ overlap' = [overlap EXCEPT ![s] = {}]

\* A fault separates a key that lives from its graph.
Orphan(S) == orphaned' = orphaned \cup {s \in S: key[s] # None}

Fault == faults < MaxFaults /\ faults' = faults + 1

-----------------------------------------------------------------------------
(* The run of an agent.                                                    *)

\* Mutant: the session's own entry is not looked at.
BeginMutant(r) ==
    /\ pc[r] = "new"
    /\ paused' = [s \in Sessions |-> IF aged[s] THEN None ELSE paused[s]]
    /\ aged' = [s \in Sessions |-> FALSE]
    /\ Goto(r, "slock")
    /\ UNCHANGED <<channel, key, graph, call, locks, clean, faults, history>>

\* pre_process drops the entries of every session that are too old, then
\* refuses the run of a session that still waits for an approval.
Begin(r) ==
    LET kept == [s \in Sessions |-> IF aged[s] THEN None ELSE paused[s]] IN
    /\ pc[r] = "new"
    /\ paused' = kept
    /\ aged' = [s \in Sessions |-> FALSE]
    /\ Goto(r, IF kept[Sess(r)] = None THEN "slock" ELSE "done")
    /\ UNCHANGED <<channel, key, graph, call, locks, clean, faults, history>>

\* The model proposes the next batch of tool calls, or answers.
Model(w) ==
    LET r == Drives(w) IN
    /\ pc[w] = "run" /\ graph[r].at = "model"
    /\ \/ /\ graph[r].batch < MaxBatches[r]
          /\ graph' = [graph EXCEPT ![r] = [batch |-> @.batch + 1, at |-> "tools"]]
          /\ Goto(w, "decide")
       \/ /\ graph' = [graph EXCEPT ![r].at = "end"]
          /\ UNCHANGED pc
    /\ UNCHANGED <<channel, key, memory, call, locks, clean, faults, history>>

\* The tools of the batch are executed; a checkpoint follows.
Tools(w) ==
    LET r == Drives(w) IN
    /\ pc[w] = "run" /\ graph[r].at = "tools"
    /\ graph' = [graph EXCEPT ![r].at = "model"]
    /\ UNCHANGED <<channel, key, memory, pc, call, locks, clean, faults, history>>

\* A call that does not come back: a slow tool or model, or an agent called
\* by the tool in the same session, which waits for the lock its caller holds.
Hang(w) ==
    LET r == Drives(w) IN
    /\ pc[w] = "run" /\ graph[r].at # "end"
    /\ Goto(w, "hung")
    /\ UNCHANGED <<channel, key, memory, graph, call, locks, clean, faults, history>>

\* check_tool_call on the calls of the batch: they are let through, one of
\* them needs an approval, or the safeguard refuses it and the loop is left.
Decide(w) ==
    /\ pc[w] = "decide"
    /\ \/ Goto(w, "run") /\ UNCHANGED graph
       \/ Goto(w, "write") /\ UNCHANGED graph
       \/ Goto(w, "run") /\ graph' = [graph EXCEPT ![Drives(w)].at = "end"]
    /\ UNCHANGED <<channel, key, memory, call, locks, clean, faults, history>>

\* setex of the pending key ...
Write(w) ==
    /\ pc[w] = "write"
    /\ key' = [key EXCEPT ![Sess(w)] = Here(Drives(w))]
    /\ Goto(w, "set")
    /\ UNCHANGED <<channel, memory, graph, call, locks, clean, faults, history>>

\* ... and, when its answer has arrived, the graph is kept and the sentinel
\* with the approval id returned.
SetPaused(w) ==
    LET s == Sess(w) IN
    /\ pc[w] = "set"
    /\ paused' = [paused EXCEPT ![s] = Drives(w)]
    /\ aged' = [aged EXCEPT ![s] = FALSE]
    /\ shown' = shown \cup {Here(Drives(w))}
    /\ buttons' = buttons \cup {a \in {Here(Drives(w))}: channel[s] = "telegram"}
    /\ overlap' = [overlap EXCEPT ![s] = {r \in Runs: Sess(r) = s /\ pc[r] = "slock"}]
    /\ orphaned' = orphaned \ {s}
    /\ Return(w)
    /\ UNCHANGED <<channel, key, graph, clean, faults>>

\* Mutant: the key of a resume that is over is left to expire.
LoopEndsMutant(w) ==
    \/ w \in Runs /\ Return(w) /\ UNCHANGED memory
    \/ w \in Requests /\ Return(w) /\ Pop(Sess(w))

\* The loop returned a result, or raised: a run ends; a resume forgets the
\* graph, then deletes the key.
LoopEnds(w) ==
    \/ w \in Runs /\ Return(w) /\ UNCHANGED memory
    \/ w \in Requests /\ Goto(w, "erase") /\ Pop(Sess(w)) /\ UNCHANGED <<call, locks>>

Finish(w) ==
    /\ pc[w] = "run" /\ graph[Drives(w)].at = "end"
    /\ LoopEnds(w)
    /\ UNCHANGED <<channel, key, graph, clean, faults, history>>

\* wait_for gives up, or the call fails with an error the caller handles.
TimedOut(w) ==
    /\ pc[w] = "hung"
    /\ LoopEnds(w)
    /\ UNCHANGED <<channel, key, graph, clean, faults, history>>

\* setex fails, with an error the caller handles or, as those of redis-py,
\* with one it does not: then a resume leaves the entry and its key as they
\* were, with the graph at a batch nobody has seen.
WriteFails(w) ==
    /\ pc[w] = "write" /\ Fault
    /\ LoopEnds(w) \/ (Return(w) /\ UNCHANGED memory)
    /\ UNCHANGED <<channel, key, graph, clean, history>>

-----------------------------------------------------------------------------
(* Confirming and discarding.                                              *)

\* What a caller may ask for: a chat confirms without an id, a Telegram
\* button carries the id it was sent with, an unattended run is discarded.
Asked(s) ==
    CASE channel[s] = "chat" -> {[kind |-> "resume", id |-> None, drives |-> None]}
      [] channel[s] = "telegram" ->
            [kind: {"resume", "discard"}, drives: {None},
             id: {a \in buttons: SessionOf[a[1]] = s}]
      [] OTHER -> {[kind |-> "discard", id |-> None, drives |-> None]}

Ask(q) ==
    /\ pc[q] = "new"
    /\ shown # {}
    /\ \E c \in Asked(Sess(q)):
          /\ call' = [call EXCEPT ![q] = c]
          /\ buttons' = buttons \ {c.id}
          /\ Goto(q, IF c.kind = "resume" THEN "look" ELSE "glock")
    /\ UNCHANGED <<channel, key, memory, graph, locks, clean, faults, shown, overlap, orphaned>>

\* The orchestrator reads the key first, to find the agent.
Look(q) ==
    /\ pc[q] = "look"
    /\ IF key[Sess(q)] = None
       THEN Return(q)
       ELSE Goto(q, "glock") /\ UNCHANGED <<call, locks>>
    /\ UNCHANGED <<channel, key, memory, graph, clean, faults, history>>

TakeGlobal(q) ==
    /\ pc[q] = "glock" /\ glock = None
    /\ glock' = q
    /\ Goto(q, "slock")
    /\ UNCHANGED <<channel, key, memory, graph, call, slock, clean, faults, history>>

TakeSession(w) ==
    /\ pc[w] = "slock" /\ slock[Sess(w)] = None
    /\ slock' = [slock EXCEPT ![Sess(w)] = w]
    /\ Goto(w, IF w \in Runs THEN "run" ELSE "check")
    /\ UNCHANGED <<channel, key, memory, graph, call, glock, clean, faults, history>>

\* Mutant: any pending request will do.
IsCurrentMutant(q) == call[q].id = None \/ key[Sess(q)] # None

\* The id a resume or discard came with is compared under the locks.
IsCurrent(q) == call[q].id = None \/ key[Sess(q)] = call[q].id

Resume(q) ==
    LET s == Sess(q) IN
    /\ pc[q] = "check" /\ call[q].kind = "resume"
    /\ IF paused[s] # None /\ IsCurrent(q)
       THEN /\ call' = [call EXCEPT ![q].drives = paused[s]]
            /\ Goto(q, "run")
            /\ UNCHANGED locks
       ELSE Return(q)
    /\ UNCHANGED <<channel, key, memory, graph, clean, faults, history>>

\* Compare and delete in one script; without an id the key is deleted.
Discard(q) ==
    LET s == Sess(q) IN
    /\ pc[q] = "check" /\ call[q].kind = "discard"
    /\ IF IsCurrent(q)
       THEN /\ KeyGone(s)
            /\ Goto(q, "drop")
            /\ UNCHANGED <<call, locks>>
       ELSE Return(q) /\ UNCHANGED <<key, overlap, orphaned>>
    /\ UNCHANGED <<channel, memory, graph, clean, faults, buttons, shown>>

Drop(q) ==
    /\ pc[q] = "drop"
    /\ Pop(Sess(q))
    /\ Return(q)
    /\ UNCHANGED <<channel, key, graph, clean, faults, history>>

\* The last step of a resume that is over: the key is deleted.
Erase(q) ==
    /\ pc[q] = "erase"
    /\ KeyGone(Sess(q))
    /\ Return(q)
    /\ UNCHANGED <<channel, memory, graph, clean, faults, buttons, shown>>

-----------------------------------------------------------------------------
(* Redis and time.                                                         *)

Expire(s) ==
    /\ key[s] # None
    /\ KeyGone(s)
    /\ UNCHANGED <<channel, memory, graph, pc, call, locks, clean, faults, buttons, shown>>

\* The key is written before the time of the entry is taken.
Age(s) ==
    /\ paused[s] # None /\ ~aged[s]
    /\ key[s] \notin {paused[s]} \X Nat
    /\ aged' = [aged EXCEPT ![s] = TRUE]
    /\ UNCHANGED <<channel, key, paused, graph, pc, call, locks, clean, faults, history>>

-----------------------------------------------------------------------------
(* The clean-up loop: sessions whose key is gone, looked up one by one      *)
(* without the lock and once more under it.                                 *)

CleanUnchanged == <<channel, key, graph, pc, call, slock, faults, buttons, shown, overlap>>

CleanStart ==
    /\ clean.pc = "sleep"
    /\ \E s \in Sessions: paused[s] # None
    /\ clean' = [clean EXCEPT !.pc = "look", !.todo = {s \in Sessions: paused[s] # None}]
    /\ UNCHANGED <<CleanUnchanged, memory, glock, orphaned>>

CleanLook ==
    /\ clean.pc = "look"
    /\ \E s \in clean.todo:
          LET todo == clean.todo \ {s}
              stale == clean.stale \cup (IF key[s] = None THEN {s} ELSE {})
          IN  clean' = CASE todo # {} -> [pc |-> "look", todo |-> todo, stale |-> stale]
                         [] todo = {} /\ stale # {} -> [pc |-> "lock", todo |-> {}, stale |-> stale]
                         [] OTHER -> Idle
    /\ UNCHANGED <<CleanUnchanged, memory, glock, orphaned>>

CleanTake ==
    /\ clean.pc = "lock" /\ glock = None
    /\ glock' = Cleaner
    /\ clean' = [clean EXCEPT !.pc = "check"]
    /\ UNCHANGED <<CleanUnchanged, memory, orphaned>>

\* Mutant: the second look keeps the wrong ones.
CleanCheckMutant ==
    /\ clean.pc = "check"
    /\ \/ /\ \E s \in clean.stale:
               clean' = IF paused[s] # None /\ key[s] # None
                        THEN [pc |-> "pop", todo |-> {s}, stale |-> clean.stale \ {s}]
                        ELSE [clean EXCEPT !.stale = @ \ {s}]
          /\ UNCHANGED glock
       \/ /\ clean.stale = {}
          /\ clean' = Idle
          /\ glock' = None
    /\ UNCHANGED <<CleanUnchanged, memory, orphaned>>

\* The second look; the answer is used when it arrives.
CleanCheck ==
    /\ clean.pc = "check"
    /\ \/ /\ \E s \in clean.stale:
               clean' = IF paused[s] # None /\ key[s] = None
                        THEN [pc |-> "pop", todo |-> {s}, stale |-> clean.stale \ {s}]
                        ELSE [clean EXCEPT !.stale = @ \ {s}]
          /\ UNCHANGED glock
       \/ /\ clean.stale = {}
          /\ clean' = Idle
          /\ glock' = None
    /\ UNCHANGED <<CleanUnchanged, memory, orphaned>>

\* What it pops may be younger than the look: another run of the session may
\* have paused in between, with the session's lock and without the global one.
CleanPop ==
    /\ clean.pc = "pop"
    /\ \E s \in clean.todo:
          /\ Pop(s)
          /\ Orphan({s})
    /\ clean' = [clean EXCEPT !.pc = "check", !.todo = {}]
    /\ UNCHANGED <<CleanUnchanged, glock>>

Clean == CleanStart \/ CleanLook \/ CleanTake \/ CleanCheck \/ CleanPop

-----------------------------------------------------------------------------
(* Faults.                                                                 *)

\* A caller is cancelled at an await, or ended there by an error that nothing
\* catches: its locks are released, nothing else is undone.
Cancel(w) ==
    /\ pc[w] \notin {"new", "done"} /\ Fault
    /\ Return(w)
    /\ Orphan(IF pc[w] \in {"set", "erase"} THEN {Sess(w)} ELSE {})
    /\ UNCHANGED <<channel, key, memory, graph, clean, buttons, shown, overlap>>

\* Redis does not answer: a lookup or comparison fails and the request with
\* it; the key of a finished resume stays; a discard without an id forgets the
\* graph if it handles the error, and does nothing if not.
RedisFails ==
    /\ Fault
    /\ \E q \in Requests:
          \/ /\ \/ pc[q] = "look"
                \/ pc[q] = "check" /\ call[q].id # None
                \/ pc[q] = "check" /\ call[q].kind = "discard"
                \/ pc[q] = "erase"
             /\ Return(q)
             /\ Orphan(IF pc[q] = "erase" THEN {Sess(q)} ELSE {})
             /\ UNCHANGED memory
          \/ /\ pc[q] = "check" /\ call[q].kind = "discard" /\ call[q].id = None
             /\ Pop(Sess(q))
             /\ Return(q)
             /\ Orphan({Sess(q)})
    /\ UNCHANGED <<channel, key, graph, clean, buttons, shown, overlap>>

\* A look of the clean-up fails: it waits for its next round, or the loop ends
\* for good with an error it does not catch, as those of redis-py.
CleanFails ==
    /\ clean.pc \in {"look", "check"} /\ Fault
    /\ \E p \in {"sleep", "ended"}: clean' = [Idle EXCEPT !.pc = p]
    /\ glock' = IF glock = Cleaner THEN None ELSE glock
    /\ UNCHANGED <<channel, key, memory, graph, pc, call, slock, history>>

\* The backend restarts, the clean-up loop with it: what it kept in memory is
\* lost, the keys are not.
Restart ==
    /\ Fault
    /\ paused' = [s \in Sessions |-> None]
    /\ aged' = [s \in Sessions |-> FALSE]
    /\ pc' = [w \in Workers |-> IF pc[w] = "new" THEN "new" ELSE "done"]
    /\ glock' = None
    /\ slock' = [s \in Sessions |-> None]
    /\ clean' = Idle
    /\ call' = [q \in Requests |-> NoCall]
    /\ Orphan(Sessions)
    /\ UNCHANGED <<channel, key, graph, buttons, shown, overlap>>

-----------------------------------------------------------------------------
Drive(w) ==
    \/ Model(w) \/ Tools(w) \/ Decide(w) \/ Write(w) \/ SetPaused(w)
    \/ Finish(w) \/ TimedOut(w)
Answer(q) ==
    Look(q) \/ Resume(q) \/ Discard(q) \/ Drop(q) \/ Erase(q)
Faults == (\E w \in Workers: Cancel(w) \/ WriteFails(w))
          \/ RedisFails \/ CleanFails \/ Restart

Next ==
    \/ \E r \in Runs: Begin(r)
    \/ \E q \in Requests: Ask(q) \/ Answer(q) \/ TakeGlobal(q)
    \/ \E w \in Workers: Drive(w) \/ Hang(w) \/ TakeSession(w)
    \/ \E s \in Sessions: Expire(s) \/ Age(s)
    \/ Clean
    \/ Faults

\* The event loop runs what can run, timers fire, keys expire and entries age.
\* A worker takes a lock once and the clean-up, until its loop ends, only for a
\* session to be cleaned, so weak fairness is enough for who waits.  Runs,
\* requests and restarts owe nothing.
Fairness ==
    /\ \A w \in Workers: WF_vars(Drive(w) \/ TakeSession(w))
    /\ \A q \in Requests: WF_vars(Answer(q) \/ TakeGlobal(q))
    /\ \A s \in Sessions: WF_vars(Expire(s)) /\ WF_vars(Age(s))
    /\ WF_vars(Clean)

Spec == Init /\ [][Next]_vars
FairSpec == Spec /\ Fairness

-----------------------------------------------------------------------------
\* A confirmation that carries an id drives the graph from the very batch the
\* user saw under that id, not from a newer one and not from one that another
\* drive has already begun (resume_safeguard_tool;
\* docs/agent-execution-runtime.md:124).
Confirms(q) == pc[q] = "check" /\ call[q].id # None /\ call'[q].drives # None
ConfirmedStep ==
    [][\A q \in Requests: Confirms(q) =>
          /\ Here(call'[q].drives) = call[q].id
          /\ graph[call'[q].drives].at = "tools"]_vars

\* As long as the key of an approval the user has seen lives, its graph is
\* kept, so that confirming it works: between two calls, and unless a fault
\* has separated the two (base_agent.py, safeguard.py:1301).
Servable ==
    \A s \in Sessions:
       (key[s] \in shown /\ slock[s] = None) => (paused[s] = key[s][1] \/ s \in orphaned)

\* An approval the user has been asked for is not replaced by that of another
\* run of the session, unless that run had passed pre_process before the
\* session paused, or a fault had lost the graph (execution.py:142).
Replaced ==
    [][\A s \in Sessions: \A r \in Runs:
          /\ key[s] \in shown /\ key[s] \notin {r} \X Nat
          /\ key'[s] \in {r} \X Nat
          => r \in overlap[s] \/ s \in orphaned]_vars

\* Every session becomes free again: no lock stays held for ever, whatever is
\* cancelled, fails or hangs, and no approval stays open.  Unless a failing
\* look has ended the clean-up loop (main.py:547-561): what is kept then is
\* at least so old that the next run of any session drops it.
SessionFrees ==
    \A s \in Sessions: []<>
       /\ slock[s] = None /\ glock = None
       /\ paused[s] = None \/ (aged[s] /\ clean.pc = "ended")
=============================================================================
