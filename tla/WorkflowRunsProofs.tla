-------------------------- MODULE WorkflowRunsProofs --------------------------
(***************************************************************************)
(* The run list and the run index, for any runs, retries, workflows and    *)
(* list lengths: what the list shows of a run, which step is retried and   *)
(* what the index finds.                                                   *)
(***************************************************************************)
EXTENDS WorkflowRuns, SequenceTheorems, TLAPS
LOCAL INSTANCE SequencesExt

-----------------------------------------------------------------------------
(* Lists of entries *)

Elems(l) == {l[i] : i \in DOMAIN l}
Runs(l) == {e.run : e \in Elems(l)}
IsSeq(l) == l \in Seq(Elems(l))

LEMMA SeqElim ==
  ASSUME NEW l, IsSeq(l)
  PROVE  /\ Len(l) \in Nat /\ DOMAIN l = 1..Len(l)
         /\ l = [i \in 1..Len(l) |-> l[i]]
BY DEF IsSeq

LEMMA SeqIntro ==
  ASSUME NEW n \in Nat, NEW f, f = [i \in 1..n |-> f[i]]
  PROVE  IsSeq(f) /\ Len(f) = n
<1>1. \A i \in 1..n : f[i] \in Elems(f) BY DEF Elems
<1>2. f \in [1..n -> Elems(f)] BY <1>1
<1>3. f \in Seq(Elems(f)) BY <1>2, SeqDef
<1>4. DOMAIN f = 1..n BY <1>2
<1> QED BY <1>3, <1>4 DEF IsSeq

LEMMA EmptyFacts == IsSeq(<<>>) /\ Elems(<<>>) = {} /\ Runs(<<>>) = {}
<1>1. Elems(<<>>) = {} BY DEF Elems
<1> QED BY <1>1 DEF IsSeq, Runs

LEMMA HasRuns == ASSUME NEW l, NEW r PROVE Has(l, r) <=> r \in Runs(l)
BY DEF Has, Position, Runs, Elems

LEMMA FindFacts ==
  ASSUME NEW l, NEW r, r \in Runs(l)
  PROVE  Find(l, r) \in Elems(l) /\ Find(l, r).run = r
<1>1. Position(l, r) # {} BY HasRuns DEF Has
<1>2. PICK i \in Position(l, r) : Find(l, r) = l[i] BY <1>1 DEF Find
<1> QED BY <1>2 DEF Position, Elems

LEMMA AppendFacts ==
  ASSUME NEW l, IsSeq(l), NEW e
  PROVE  /\ IsSeq(Trim(Append(l, e)))
         /\ Elems(Trim(Append(l, e))) \subseteq Elems(l) \cup {e}
<1> DEFINE m == Append(l, e)
           S == Elems(l) \cup {e}
           t == Trim(m)
<1>1. l \in Seq(S)
  <2>1. \A i \in 1..Len(l) : l[i] \in S BY SeqElim DEF Elems
  <2>2. l \in [1..Len(l) -> S] BY <2>1, SeqElim
  <2> QED BY <2>2, SeqElim, SeqDef
<1>2. e \in S OBVIOUS
<1> HIDE DEF S
<1>3. m \in Seq(S) BY <1>1, <1>2
<1>4. Len(m) \in Nat BY <1>3
<1> HIDE DEF m
<1>5. PICK k \in Nat : k >= 1 /\ t = SubSeq(m, k, Len(m))
  <2> DEFINE k == (IF Len(m) > MaxRuns THEN Len(m) - MaxRuns ELSE 0) + 1
  <2>1. k \in Nat /\ k >= 1 BY <1>4, RunsAssumption
  <2>2. t = SubSeq(m, k, Len(m)) BY DEF Trim
  <2> QED BY <2>1, <2>2
<1>6. t \in Seq(S) BY <1>3, <1>4, <1>5
<1> HIDE DEF t
<1>7. /\ Len(t) \in Nat /\ DOMAIN t = 1..Len(t) /\ t = [i \in 1..Len(t) |-> t[i]]
      /\ \A i \in DOMAIN t : t[i] \in S
  BY <1>6
<1>8. IsSeq(t) BY <1>7, SeqIntro
<1>9. Elems(t) \subseteq S BY <1>7 DEF Elems
<1> QED BY <1>8, <1>9 DEF t, m, S

\* Every entry of the run is replaced, the others stay.
LEMMA PutFacts ==
  ASSUME NEW l, IsSeq(l), NEW r, NEW status, NEW steps
  PROVE  LET m == Put(l, r, status, steps) IN
         /\ IsSeq(m) /\ Runs(m) = Runs(l)
         /\ \A e \in Elems(m) : e = Entry(r, status, steps) \/ (e \in Elems(l) /\ e.run # r)
<1> DEFINE m == Put(l, r, status, steps)
<1>1. m = [i \in 1..Len(l) |-> IF l[i].run = r THEN Entry(r, status, steps) ELSE l[i]]
  BY SeqElim DEF Put
<1>2. DOMAIN m = DOMAIN l BY <1>1, SeqElim
<1>3. \A i \in DOMAIN l : m[i] = IF l[i].run = r THEN Entry(r, status, steps) ELSE l[i]
  BY <1>1, SeqElim
<1>4. m = [i \in 1..Len(l) |-> m[i]] BY <1>1
<1> HIDE DEF m
<1>5. IsSeq(m) BY <1>4, SeqElim, SeqIntro
<1>6. Entry(r, status, steps).run = r BY DEF Entry
<1>7. \A i \in DOMAIN l : m[i].run = l[i].run BY <1>3, <1>6
<1>8. Runs(m) = Runs(l) BY <1>2, <1>7 DEF Runs, Elems
<1>9. \A e \in Elems(m) : e = Entry(r, status, steps) \/ (e \in Elems(l) /\ e.run # r)
  BY <1>2, <1>3 DEF Elems
<1> QED BY <1>5, <1>8, <1>9 DEF m

-----------------------------------------------------------------------------
(* Coroutines *)

RunPlaces == {"idle", "route", "append", "route_after", "route_index", "tool", "tool_append",
              "engine", "engine_index", "ensure", "ensure_append", "read", "write", "work",
              "done", "dead"}
RetryPlaces == {"idle", "reset", "load", "read", "write", "retry_step", "gather"}

\* Where the lock is held, and where a copy of the list is.
Holding == {"tool_append", "ensure_append", "write", "reset"}
Copying == Holding \cup {"append"}

\* Where a run has not written its entry yet.
Fresh == {"idle", "route", "append", "tool", "tool_append"}

\* Where a retry has reset its step and is not over.
Retrying == {"load", "read", "write", "retry_step", "gather"}

Fields == {"pc", "list", "index", "steps", "status", "next", "run", "step", "before",
           "queue", "visited", "broken"}
IsJob(l) == l = [f \in Fields |-> l[f]]

Updating(l) == l.pc \in {"read", "write"}
FullSteps(steps) == steps # NoSteps /\ DOMAIN steps = Step

RunFits(c, l) ==
  /\ l.pc \in RunPlaces /\ l.run = c
  /\ Updating(l) => l.next \in {"work", "finally", "done"} /\ DOMAIN l.steps = Step

RetryFits(l) ==
  /\ l.pc \in RetryPlaces
  /\ l.pc # "idle" => l.run \in Run /\ l.step \in Step
  /\ l.pc = "reset" => /\ l.run \in Runs(l.list) /\ FullSteps(Find(l.list, l.run).steps)
                       /\ Find(l.list, l.run).steps[l.step] = "failed"
  /\ Updating(l) => l.next \in {"retry_step", "retried", "gathered", "idle"}
  /\ l.pc \in {"read", "write", "retry_step", "gather"} => DOMAIN l.steps = Step
  /\ l.pc \in {"retry_step", "gather"} \/ (Updating(l) /\ l.next # "idle") =>
       l.steps[l.step] # "failed"
  /\ l.pc = "gather" \/ (Updating(l) /\ l.next = "gathered") => l.step \in l.visited

Fits(c, l) ==
  /\ IsJob(l) /\ IsSeq(l.list)
  /\ l.pc \notin Copying => l.list = <<>>
  /\ c \in Run => RunFits(c, l)
  /\ c \in Retrier => RetryFits(l)

\* The runs that have written their entry once.
Begun == {r \in Run : job[r].pc \notin Fresh}

\* A list of entries of runs in begun, each what its run wrote last unless
\* that has changed under the run route.
Shows(l, begun, old, la) ==
  /\ IsSeq(l) /\ Runs(l) \subseteq begun
  /\ \A e \in Elems(l) : /\ e.steps = NoSteps \/ DOMAIN e.steps = Step
                         /\ e.run \notin old => e = la[e.run]

\* Every coroutine is at one of its places, and holds the lock where it does.
Control ==
  /\ job = [c \in Coroutine |-> job[c]]
  /\ \A c \in Coroutine : Fits(c, job[c])
  /\ \A c \in Coroutine : job[c].pc \in Holding <=> lock = c
  /\ \A q \in Retrier : job[q].pc # "idle" => job[q].run \in Begun
  /\ last = [r \in Run |-> last[r]]

Shown ==
  /\ Shows(list, Begun, stale, last)
  /\ \A c \in Coroutine : Shows(job[c].list, Begun, stale, last)

\* No copy lacks the entry it is made for, nor has it when it is to be
\* added; a run that has gone from the list is in no copy of the run route.
Copies ==
  /\ \A r \in Run : At(r, "ensure_append") => r \notin Runs(job[r].list)
  /\ \A d \in Run : At(d, "append") => Runs(job[d].list) \subseteq Runs(list) \cup stale
  /\ \A c \in Coroutine : At(c, "write") =>
       /\ job[c].run \in Runs(list) => job[c].run \in Runs(job[c].list) \cup stale
       /\ \A d \in Run : At(d, "append") /\ job[c].run \in Runs(job[d].list) =>
            job[c].run \in Runs(job[c].list) \cup stale

\* A run past the index is in it and in every copy another writer of the
\* index has read.
Past == {"ensure", "ensure_append", "read", "write", "work", "done"}
Found ==
  /\ exists => \A r \in Run \ crowded : job[r].pc \in Past =>
       /\ r \in index
       /\ \A d \in Run : job[d].pc \in {"route_index", "engine_index"} => r \in job[d].index
       /\ \A n \in Neighbour : neighbour[n].pc = "write_index" => r \in neighbour[n].index
  /\ neighbour = [n \in Neighbour |-> neighbour[n]]
  /\ deletion \in {"delete_runs", "write_index"} => ~exists

\* A retry at work has its run to itself: its step is not failed, the run is
\* over, and who else retries a step of it has yet to reset another one.
Alone(q) ==
  /\ last[job[q].run].steps[job[q].step] # "failed"
  /\ job[job[q].run].pc \in {"done", "dead"}
  /\ \A p \in Retrier \ {q} : job[p].pc # "idle" /\ job[p].run = job[q].run =>
       job[p].pc = "reset" /\ job[p].step # job[q].step
OneRetry ==
  \A q \in Retrier :
    job[q].pc \in Retrying /\ job[q].run \notin shared \cup stale => Alone(q)

IInv == Control /\ Shown /\ Copies /\ Found /\ OneRetry

-----------------------------------------------------------------------------
(* What one step of a coroutine does: c leaves job[c] for m.               *)

\* It goes on where it was; a run that is over takes no step.
Moves(c, m) ==
  /\ Becomes(c, m) /\ Fits(c, m)
  /\ c \in Run =>
       /\ job[c].pc \notin {"done", "dead"}
       /\ job[c].pc \notin Fresh => m.pc \notin Fresh
  /\ c \in Retrier =>
       /\ job[c].pc = "idle" => m.pc = "reset" /\ m.run \in Begun
       /\ job[c].pc # "idle" /\ m.pc # "idle" =>
            m.pc \in Retrying /\ m.run = job[c].run /\ m.step = job[c].step

Quiet(c, m) ==
  /\ job[c].pc \notin Copying /\ m.pc \notin Copying
  /\ UNCHANGED <<list, last, stale, shared, lock>>

Reads(c, m) ==
  /\ job[c].pc \notin Copying /\ m.pc \in Holding /\ m.list = list
  /\ m.pc = "ensure_append" => c \notin Runs(list)
  /\ lock = None /\ lock' = c
  /\ UNCHANGED <<list, last, stale, shared>>

RouteReads(c, m) ==
  /\ c \in Run /\ job[c].pc \notin Copying /\ m.pc = "append" /\ m.list = list
  /\ UNCHANGED <<list, last, stale, shared, lock>>

\* A retry is refused, or the coroutine dies.
Drops(c, m) ==
  /\ job[c].pc \in Holding /\ m.pc \in {"idle", "dead"}
  /\ lock' = None
  /\ UNCHANGED <<list, last, stale, shared>>

Appends(c, m) ==
  /\ c \in Run /\ job[c].pc \in {"append", "tool_append", "ensure_append"}
  /\ m.pc \notin Copying \cup Fresh
  /\ list' = Trim(Append(job[c].list, NewEntry(c))) /\ Wrote(c, NewEntry(c))
  /\ lock' = IF job[c].pc = "append" THEN lock ELSE None
  /\ Outdates(c, {c})
  /\ UNCHANGED shared

Puts(c, m) ==
  LET l == job[c] IN
  /\ l.pc \in {"write", "reset"} /\ m.pc \notin Copying
  /\ \E status, steps :
       /\ DOMAIN steps = Step
       /\ list' = IF Has(l.list, l.run) THEN Put(l.list, l.run, status, steps) ELSE list
       /\ Wrote(l.run, Entry(l.run, status, steps))
       /\ c \in Retrier /\ m.pc # "idle" => steps[l.step] # "failed"
  /\ lock' = None
  /\ Outdates(c, {l.run})
  /\ shared' = IF l.pc = "reset" /\ Busy(c) THEN shared \cup {l.run} ELSE shared

ListStep(c, m) ==
  \/ Quiet(c, m) \/ Reads(c, m) \/ RouteReads(c, m)
  \/ Drops(c, m) \/ Appends(c, m) \/ Puts(c, m)

\* What it does to the index.
IndexStep(c, m) ==
  /\ UNCHANGED <<exists, deletion, neighbour>>
  /\ \/ /\ UNCHANGED <<index, crowded>>
        /\ c \in Run => /\ m.pc \in Past => job[c].pc \in Past
                        /\ m.pc \in {"route_index", "engine_index"} => m.index = index
     \/ /\ c \in Run /\ job[c].pc \in {"route_index", "engine_index"}
        /\ m.pc \in {"engine", "ensure"}
        /\ index' = job[c].index \cup {c}
        /\ \E new \in SUBSET {c} : (m.pc = "ensure" => c \in new) /\ Crowds(c, new)


LEMMA IdleFacts ==
  /\ IsJob(Idle) /\ Idle.pc = "idle" /\ Idle.list = <<>> /\ Idle.run = None
  /\ \A r : /\ IsJob(Of(r)) /\ Of(r).pc = "idle" /\ Of(r).run = r /\ Of(r).list = <<>>
            /\ Of(r).index = {}
  /\ \A r, p : /\ IsJob([Of(r) EXCEPT !.pc = p]) /\ [Of(r) EXCEPT !.pc = p].pc = p
               /\ [Of(r) EXCEPT !.pc = p].run = r /\ [Of(r) EXCEPT !.pc = p].list = <<>>
<1>1. IsJob(Idle) /\ Idle.pc = "idle" /\ Idle.list = <<>> /\ Idle.run = None /\ Idle.index = {}
  BY DEF Idle, IsJob, Fields
<1>2. \A r : /\ IsJob(Of(r)) /\ Of(r).pc = "idle" /\ Of(r).run = r /\ Of(r).list = <<>>
             /\ Of(r).index = {}
  BY <1>1 DEF Of, IsJob, Fields
<1>3. ASSUME NEW r, NEW p
      PROVE  /\ IsJob([Of(r) EXCEPT !.pc = p]) /\ [Of(r) EXCEPT !.pc = p].pc = p
             /\ [Of(r) EXCEPT !.pc = p].run = r /\ [Of(r) EXCEPT !.pc = p].list = <<>>
  BY <1>2 DEF IsJob, Fields
<1> QED BY <1>1, <1>2, <1>3

\* What Update, NextBatch and Continue leave of a job.
LEMMA UpdateFields ==
  ASSUME NEW l, IsJob(l), NEW status, NEW next
  PROVE  LET m == Update(l, status, next) IN
         /\ IsJob(m) /\ m.pc = "read" /\ m.status = status /\ m.next = next
         /\ m.list = l.list /\ m.index = l.index /\ m.steps = l.steps /\ m.run = l.run
         /\ m.step = l.step /\ m.before = l.before /\ m.queue = l.queue
         /\ m.visited = l.visited /\ m.broken = l.broken
BY DEF Update, IsJob, Fields

LEMMA NextBatchFields ==
  ASSUME NEW l, IsJob(l)
  PROVE  LET m == NextBatch(l) IN
         /\ IsJob(m) /\ m.pc \in {"read", "gather"} /\ (m.pc = "read" => m.next = "idle")
         /\ m.list = l.list /\ m.index = l.index /\ m.steps = l.steps /\ m.run = l.run
         /\ m.step = l.step /\ m.visited = l.visited
<1> DEFINE k == [l EXCEPT !.queue = <<>>]
           g == [l EXCEPT !.pc = "gather"]
<1>1. /\ IsJob(k) /\ k.list = l.list /\ k.index = l.index /\ k.steps = l.steps /\ k.run = l.run
      /\ k.step = l.step /\ k.visited = l.visited
  BY DEF IsJob, Fields
<1>2. /\ IsJob(g) /\ g.list = l.list /\ g.index = l.index /\ g.steps = l.steps /\ g.run = l.run
      /\ g.step = l.step /\ g.visited = l.visited /\ g.pc = "gather"
  BY DEF IsJob, Fields
<1>3. NextBatch(l) = IF Batch(l) = {} THEN Update(k, Verdict(l.steps), "idle") ELSE g
  BY DEF NextBatch
<1> HIDE DEF k, g
<1> QED BY <1>1, <1>2, <1>3, UpdateFields

LEMMA ContinueRun ==
  ASSUME NEW l, IsJob(l), l.next \in {"work", "finally", "done"}
  PROVE  LET m == Continue(l) IN
         /\ IsJob(m) /\ m.pc \in {"work", "read", "done"} /\ m.run = l.run
         /\ m.pc = "read" => m.next = "done" /\ m.steps = l.steps
         /\ m.list \in {l.list, <<>>}
<1>1. CASE l.next = "work"
  <2>1. Continue(l) = [l EXCEPT !.pc = l.next, !.next = "idle", !.status = None]
    BY <1>1 DEF Continue
  <2> QED BY <1>1, <2>1 DEF IsJob, Fields
<1>2. CASE l.next = "finally"
  <2>1. Continue(l) = Update(l, Verdict(l.steps), "done") BY <1>2 DEF Continue
  <2> QED BY <2>1, UpdateFields
<1>3. CASE l.next = "done"
  <2>1. Continue(l) = [Of(l.run) EXCEPT !.pc = "done"] BY <1>3 DEF Continue
  <2> QED BY <2>1, IdleFacts
<1> QED BY <1>1, <1>2, <1>3

LEMMA ContinueRetry ==
  ASSUME NEW l, IsJob(l), l.next \in {"retry_step", "retried", "gathered", "idle"},
         l.next = "gathered" => l.step \in l.visited
  PROVE  LET m == Continue(l) IN
         /\ IsJob(m) /\ m.pc \in {"retry_step", "read", "gather", "idle"}
         /\ m.pc = "read" => m.next = "idle"
         /\ m.pc # "idle" => /\ m.run = l.run /\ m.step = l.step /\ m.list = l.list
                             /\ m.steps = l.steps /\ l.next # "idle"
         /\ m.pc = "idle" => m.list = <<>>
         /\ m.pc = "gather" => l.step \in m.visited
<1>1. CASE l.next = "retry_step"
  <2>1. Continue(l) = [l EXCEPT !.pc = l.next, !.next = "idle", !.status = None]
    BY <1>1 DEF Continue
  <2> QED BY <1>1, <2>1 DEF IsJob, Fields
<1>2. CASE l.next = "retried"
  <2> DEFINE k == [l EXCEPT !.queue = Targets(l.steps, l.step), !.visited = {l.step}]
  <2>1. Continue(l) = NextBatch(k) BY <1>2 DEF Continue
  <2>2. /\ IsJob(k) /\ k.run = l.run /\ k.step = l.step /\ k.list = l.list
        /\ k.steps = l.steps /\ k.visited = {l.step}
    BY DEF IsJob, Fields
  <2>3. l.step \in k.visited BY <2>2
  <2> HIDE DEF k
  <2>4. PICK m : m = NextBatch(k) OBVIOUS
  <2>5. /\ IsJob(m) /\ m.pc \in {"read", "gather"} /\ (m.pc = "read" => m.next = "idle")
        /\ m.list = l.list /\ m.run = l.run /\ m.step = l.step /\ m.steps = l.steps
        /\ l.step \in m.visited
    BY <2>2, <2>3, <2>4, NextBatchFields
  <2> QED BY <1>2, <2>1, <2>4, <2>5
<1>3. CASE l.next = "gathered" /\ l.broken
  <2>1. Continue(l) = Update(l, "failed", "idle") BY <1>3 DEF Continue
  <2> QED BY <1>3, <2>1, UpdateFields
<1>4. CASE l.next = "gathered" /\ ~l.broken
  <2> DEFINE of(i) == IF i \in Batch(l) THEN Targets(l.steps, l.queue[i]) ELSE <<>>
             next == FlattenSeq([i \in DOMAIN l.queue |-> of(i)])
             seen == l.visited \cup {l.queue[i] : i \in DOMAIN l.queue}
             k == [l EXCEPT !.queue = next, !.visited = seen]
  <2>1. Continue(l) = NextBatch(k) BY <1>4 DEF Continue
  <2> HIDE DEF next
  <2>2. /\ IsJob(k) /\ k.run = l.run /\ k.step = l.step /\ k.list = l.list
        /\ k.steps = l.steps /\ k.visited = seen
    BY DEF IsJob, Fields
  <2>3. l.step \in k.visited BY <1>4, <2>2
  <2> HIDE DEF k, seen
  <2>4. PICK m : m = NextBatch(k) OBVIOUS
  <2>5. /\ IsJob(m) /\ m.pc \in {"read", "gather"} /\ (m.pc = "read" => m.next = "idle")
        /\ m.list = l.list /\ m.run = l.run /\ m.step = l.step /\ m.steps = l.steps
        /\ l.step \in m.visited
    BY <2>2, <2>3, <2>4, NextBatchFields
  <2> QED BY <1>4, <2>1, <2>4, <2>5
<1>5. CASE l.next = "idle"
  <2>1. Continue(l) = Idle BY <1>5 DEF Continue
  <2> QED BY <1>5, <2>1, IdleFacts
<1> QED BY <1>1, <1>2, <1>3, <1>4, <1>5

-----------------------------------------------------------------------------
(* Every step is one of these. *)

\* The coroutine that moves, and the others.
LEMMA JobAfter ==
  ASSUME job = [c \in Coroutine |-> job[c]], NEW c \in Coroutine, NEW m, Becomes(c, m)
  PROVE  /\ job'[c] = m /\ \A d \in Coroutine \ {c} : job'[d] = job[d]
         /\ job' = [d \in Coroutine |-> job'[d]]
BY DEF Becomes

\* The fields of a job that goes from one await to the next.
Alike(m, l) ==
  /\ m.steps = l.steps /\ m.status = l.status /\ m.next = l.next /\ m.run = l.run
  /\ m.step = l.step /\ m.before = l.before /\ m.queue = l.queue
  /\ m.visited = l.visited /\ m.broken = l.broken

Goes(l, p) == [l EXCEPT !.pc = p]
WithList(l, p, x) == [l EXCEPT !.pc = p, !.list = x]
WithIndex(l, p, x) == [l EXCEPT !.pc = p, !.index = x]

LEMMA GoesFields ==
  ASSUME NEW l, IsJob(l), NEW p
  PROVE  /\ IsJob(Goes(l, p)) /\ Goes(l, p).pc = p /\ Goes(l, p).list = l.list
         /\ Goes(l, p).index = l.index /\ Alike(Goes(l, p), l)
BY DEF IsJob, Fields, Alike, Goes

LEMMA ListFields ==
  ASSUME NEW l, IsJob(l), NEW p, NEW x
  PROVE  /\ IsJob(WithList(l, p, x)) /\ WithList(l, p, x).pc = p
         /\ WithList(l, p, x).list = x /\ WithList(l, p, x).index = l.index
         /\ Alike(WithList(l, p, x), l)
BY DEF IsJob, Fields, Alike, WithList

LEMMA IndexFields ==
  ASSUME NEW l, IsJob(l), NEW p, NEW x
  PROVE  /\ IsJob(WithIndex(l, p, x)) /\ WithIndex(l, p, x).pc = p
         /\ WithIndex(l, p, x).index = x /\ WithIndex(l, p, x).list = l.list
         /\ Alike(WithIndex(l, p, x), l)
BY DEF IsJob, Fields, Alike, WithIndex

WithSteps(l, x) == [l EXCEPT !.steps = x]
Cleared(l) == [l EXCEPT !.list = <<>>]

LEMMA StepsFields ==
  ASSUME NEW l, IsJob(l), NEW x
  PROVE  LET m == WithSteps(l, x) IN
         /\ IsJob(m) /\ m.steps = x /\ m.pc = l.pc /\ m.list = l.list /\ m.index = l.index
         /\ m.status = l.status /\ m.next = l.next /\ m.run = l.run /\ m.step = l.step
         /\ m.before = l.before /\ m.queue = l.queue /\ m.visited = l.visited
         /\ m.broken = l.broken
BY DEF IsJob, Fields, WithSteps

LEMMA ClearedFields ==
  ASSUME NEW l, IsJob(l)
  PROVE  LET m == Cleared(l) IN
         IsJob(m) /\ m.list = <<>> /\ m.pc = l.pc /\ m.index = l.index /\ Alike(m, l)
BY DEF IsJob, Fields, Alike, Cleared

\* Starting a run.
LEMMA StartsStep ==
  ASSUME Control, Shown, NEW r \in Run, Starts(r)
  PROVE  \E m : Moves(r, m) /\ ListStep(r, m) /\ IndexStep(r, m)
<1> DEFINE l == job[r]
<1>0. /\ r \in Coroutine /\ r \notin Retrier /\ IsJob(l) /\ RunFits(r, l)
      /\ (l.pc \notin Copying => l.list = <<>>) /\ IsSeq(list) /\ IsSeq(<<>>)
      /\ lock = r <=> l.pc \in Holding
  BY RunsAssumption, EmptyFacts DEF Control, Fits, Coroutine, Shown, Shows
<1> USE DEF Fits, RunFits, Updating, RunPlaces, Copying, Holding, Fresh, Past
<1>1. ASSUME NEW kind \in {"route", "tool", "schedule"}, Start(r, kind)
      PROVE  \E m : Moves(r, m) /\ ListStep(r, m) /\ IndexStep(r, m)
  <2> DEFINE p == CASE kind = "route" -> "route"
                    [] kind = "tool" -> "tool"
                    [] kind = "schedule" -> "engine"
             m == [Of(r) EXCEPT !.pc = p]
  <2>1. p \in {"route", "tool", "engine"} BY <1>1
  <2>2. /\ l.pc = "idle" /\ Becomes(r, m)
        /\ UNCHANGED <<exists, stored, lock, deletion, neighbour, history>>
    BY <1>1 DEF Start, At
  <2> HIDE DEF p
  <2>3. IsJob(m) /\ m.pc = p /\ m.run = r /\ m.list = <<>> BY IdleFacts
  <2> HIDE DEF m
  <2>4. Moves(r, m) BY <1>0, <2>1, <2>2, <2>3 DEF Moves
  <2>5. Quiet(r, m) BY <2>1, <2>2, <2>3 DEF Quiet, stored, history
  <2>6. IndexStep(r, m) BY <2>1, <2>2, <2>3 DEF IndexStep, stored, history
  <2> QED BY <2>4, <2>5, <2>6 DEF ListStep
<1>2. CASE RouteRead(r)
  <2> DEFINE m == WithList(l, "append", list)
  <2>1. /\ l.pc = "route" /\ Becomes(r, m)
        /\ UNCHANGED <<exists, stored, lock, deletion, neighbour, history>>
    BY <1>2 DEF RouteRead, At, WithList
  <2>2. IsJob(m) /\ m.pc = "append" /\ m.list = list /\ m.run = l.run
    BY <1>0, ListFields DEF Alike
  <2> HIDE DEF m
  <2>3. Moves(r, m) BY <1>0, <2>1, <2>2 DEF Moves
  <2>4. RouteReads(r, m) BY <2>1, <2>2 DEF RouteReads, stored, history
  <2>5. IndexStep(r, m) BY <2>1, <2>2 DEF IndexStep, stored, history
  <2> QED BY <2>3, <2>4, <2>5 DEF ListStep
<1>3. CASE RouteAppend(r)
  <2> DEFINE m == WithList(l, "route_after", <<>>)
  <2>1. /\ l.pc = "append" /\ Becomes(r, m)
        /\ UNCHANGED <<exists, index, lock, deletion, neighbour, crowded, shared>>
        /\ list' = Trim(Append(l.list, NewEntry(r))) /\ Wrote(r, NewEntry(r)) /\ Outdates(r, {r})
    BY <1>3 DEF RouteAppend, At, WithList
  <2>2. IsJob(m) /\ m.pc = "route_after" /\ m.list = <<>> /\ m.run = l.run
    BY <1>0, ListFields DEF Alike
  <2> HIDE DEF m
  <2>3. Moves(r, m) BY <1>0, <2>1, <2>2 DEF Moves
  <2>4. Appends(r, m) BY <2>1, <2>2 DEF Appends
  <2>5. IndexStep(r, m) BY <2>1, <2>2 DEF IndexStep
  <2> QED BY <2>3, <2>4, <2>5 DEF ListStep
<1>4. CASE RouteReadIndex(r)
  <2> DEFINE m == WithIndex(l, "route_index", index)
  <2>1. /\ l.pc = "route_after" /\ Becomes(r, m)
        /\ UNCHANGED <<exists, stored, lock, deletion, neighbour, history>>
    BY <1>4 DEF RouteReadIndex, At, WithIndex
  <2>2. IsJob(m) /\ m.pc = "route_index" /\ m.index = index /\ m.run = l.run /\ m.list = l.list
    BY <1>0, IndexFields DEF Alike
  <2> HIDE DEF m
  <2>3. Moves(r, m) BY <1>0, <2>1, <2>2 DEF Moves
  <2>4. Quiet(r, m) BY <2>1, <2>2 DEF Quiet, stored, history
  <2>5. IndexStep(r, m) BY <2>1, <2>2 DEF IndexStep, stored, history
  <2> QED BY <2>3, <2>4, <2>5 DEF ListStep
<1>5. CASE RouteWriteIndex(r)
  <2> DEFINE m == WithIndex(l, "engine", {})
  <2>1. /\ l.pc = "route_index" /\ Becomes(r, m) /\ index' = l.index \cup {r} /\ Crowds(r, {})
        /\ UNCHANGED <<exists, list, lock, deletion, neighbour, last, stale, shared>>
    BY <1>5 DEF RouteWriteIndex, At, WithIndex
  <2>2. IsJob(m) /\ m.pc = "engine" /\ m.run = l.run /\ m.list = l.list
    BY <1>0, IndexFields DEF Alike
  <2> HIDE DEF m
  <2>3. Moves(r, m) BY <1>0, <2>1, <2>2 DEF Moves
  <2>4. Quiet(r, m) BY <2>1, <2>2 DEF Quiet
  <2>5. IndexStep(r, m) BY <2>1, <2>2 DEF IndexStep
  <2> QED BY <2>3, <2>4, <2>5 DEF ListStep
<1>6. CASE ToolRead(r)
  <2> DEFINE m == WithList(l, "tool_append", list)
  <2>1. /\ l.pc = "tool" /\ lock = None /\ lock' = r /\ Becomes(r, m)
        /\ UNCHANGED <<exists, stored, deletion, neighbour, history>>
    BY <1>6 DEF ToolRead, At, WithList
  <2>2. IsJob(m) /\ m.pc = "tool_append" /\ m.list = list /\ m.run = l.run
    BY <1>0, ListFields DEF Alike
  <2> HIDE DEF m
  <2>3. Moves(r, m) BY <1>0, <2>1, <2>2 DEF Moves
  <2>4. Reads(r, m) BY <2>1, <2>2 DEF Reads, stored, history
  <2>5. IndexStep(r, m) BY <2>1, <2>2 DEF IndexStep, stored, history
  <2> QED BY <2>3, <2>4, <2>5 DEF ListStep
<1>7. CASE ToolAppend(r)
  <2> DEFINE m == WithList(l, "engine", <<>>)
  <2>1. /\ l.pc = "tool_append" /\ lock' = None /\ Becomes(r, m)
        /\ UNCHANGED <<exists, index, deletion, neighbour, crowded, shared>>
        /\ list' = Trim(Append(l.list, NewEntry(r))) /\ Wrote(r, NewEntry(r)) /\ Outdates(r, {r})
    BY <1>7 DEF ToolAppend, At, WithList
  <2>2. IsJob(m) /\ m.pc = "engine" /\ m.list = <<>> /\ m.run = l.run
    BY <1>0, ListFields DEF Alike
  <2> HIDE DEF m
  <2>3. Moves(r, m) BY <1>0, <2>1, <2>2 DEF Moves
  <2>4. Appends(r, m) BY <2>1, <2>2 DEF Appends
  <2>5. IndexStep(r, m) BY <2>1, <2>2 DEF IndexStep
  <2> QED BY <2>3, <2>4, <2>5 DEF ListStep
<1> QED BY <1>1, <1>2, <1>3, <1>4, <1>5, <1>6, <1>7 DEF Starts

\* The engine, up to its first update.
LEMMA EngineStep ==
  ASSUME Control, Shown, NEW r \in Run, Engine(r)
  PROVE  \E m : Moves(r, m) /\ ListStep(r, m) /\ IndexStep(r, m)
<1> DEFINE l == job[r]
<1>0. /\ r \in Coroutine /\ r \notin Retrier /\ IsJob(l) /\ RunFits(r, l)
      /\ (l.pc \notin Copying => l.list = <<>>) /\ IsSeq(list) /\ IsSeq(<<>>)
  BY RunsAssumption, EmptyFacts DEF Control, Fits, Coroutine, Shown, Shows
<1> USE DEF Fits, RunFits, Updating, RunPlaces, Copying, Holding, Fresh, Past
<1>1. CASE ReadIndex(r)
  <2> DEFINE m == WithIndex(l, "engine_index", index)
  <2>1. /\ l.pc = "engine" /\ Becomes(r, m)
        /\ UNCHANGED <<exists, stored, lock, deletion, neighbour, history>>
    BY <1>1 DEF ReadIndex, At, WithIndex
  <2>2. IsJob(m) /\ m.pc = "engine_index" /\ m.index = index /\ m.run = l.run /\ m.list = l.list
    BY <1>0, IndexFields DEF Alike
  <2> HIDE DEF m
  <2>3. Moves(r, m) BY <1>0, <2>1, <2>2 DEF Moves
  <2>4. Quiet(r, m) BY <2>1, <2>2 DEF Quiet, stored, history
  <2>5. IndexStep(r, m) BY <2>1, <2>2 DEF IndexStep, stored, history
  <2> QED BY <2>3, <2>4, <2>5 DEF ListStep
<1>2. CASE WriteIndex(r)
  <2> DEFINE m == WithIndex(l, "ensure", {})
  <2>1. /\ l.pc = "engine_index" /\ Becomes(r, m) /\ index' = l.index \cup {r} /\ Crowds(r, {r})
        /\ UNCHANGED <<exists, list, lock, deletion, neighbour, last, stale, shared>>
    BY <1>2 DEF WriteIndex, At, WithIndex
  <2>2. IsJob(m) /\ m.pc = "ensure" /\ m.run = l.run /\ m.list = l.list
    BY <1>0, IndexFields DEF Alike
  <2> HIDE DEF m
  <2>3. Moves(r, m) BY <1>0, <2>1, <2>2 DEF Moves
  <2>4. Quiet(r, m) BY <2>1, <2>2 DEF Quiet
  <2>5. IndexStep(r, m) BY <2>1, <2>2 DEF IndexStep
  <2> QED BY <2>3, <2>4, <2>5 DEF ListStep
<1>3. CASE EnsureRead(r) /\ Has(list, r)
  <2> DEFINE k == WithSteps(l, AllPending)
             m == Update(k, "running", "work")
  <2>1. /\ l.pc = "ensure" /\ Becomes(r, m)
        /\ UNCHANGED <<exists, stored, lock, deletion, neighbour, history>>
    BY <1>3 DEF EnsureRead, At, WithSteps
  <2>2. IsJob(k) /\ k.steps = AllPending /\ k.run = l.run /\ k.list = l.list
    BY <1>0, StepsFields
  <2> HIDE DEF k
  <2>3. /\ IsJob(m) /\ m.pc = "read" /\ m.next = "work" /\ m.run = l.run /\ m.list = l.list
        /\ DOMAIN m.steps = Step
    BY <2>2, UpdateFields DEF AllPending
  <2> HIDE DEF m
  <2>4. Moves(r, m) BY <1>0, <2>1, <2>3 DEF Moves
  <2>5. Quiet(r, m) BY <2>1, <2>3 DEF Quiet, stored, history
  <2>6. IndexStep(r, m) BY <2>1, <2>3 DEF IndexStep, stored, history
  <2> QED BY <2>4, <2>5, <2>6 DEF ListStep
<1>4. CASE EnsureRead(r) /\ ~Has(list, r)
  <2> DEFINE m == WithList(l, "ensure_append", list)
  <2>1. /\ l.pc = "ensure" /\ lock = None /\ lock' = r /\ Becomes(r, m)
        /\ UNCHANGED <<exists, stored, deletion, neighbour, history>>
    BY <1>4 DEF EnsureRead, At, WithList
  <2>2. IsJob(m) /\ m.pc = "ensure_append" /\ m.list = list /\ m.run = l.run
    BY <1>0, ListFields DEF Alike
  <2>3. r \notin Runs(list) BY <1>4, HasRuns
  <2> HIDE DEF m
  <2>4. Moves(r, m) BY <1>0, <2>1, <2>2 DEF Moves
  <2>5. Reads(r, m) BY <2>1, <2>2, <2>3 DEF Reads, stored, history
  <2>6. IndexStep(r, m) BY <2>1, <2>2 DEF IndexStep, stored, history
  <2> QED BY <2>4, <2>5, <2>6 DEF ListStep
<1>5. CASE EnsureAppend(r)
  <2> DEFINE k == WithSteps(Cleared(l), AllPending)
             m == Update(k, "running", "work")
  <2>1. IsJob(k) /\ k.steps = AllPending /\ k.run = l.run /\ k.list = <<>>
    <3>1. IsJob(Cleared(l)) /\ Cleared(l).run = l.run /\ Cleared(l).list = <<>>
      BY <1>0, ClearedFields DEF Alike
    <3> QED BY <3>1, StepsFields
  <2>2. k = [l EXCEPT !.steps = AllPending, !.list = <<>>]
    BY <1>0 DEF IsJob, Fields, WithSteps, Cleared
  <2>3. /\ l.pc = "ensure_append" /\ lock' = None /\ Becomes(r, m)
        /\ UNCHANGED <<exists, index, deletion, neighbour, crowded, shared>>
        /\ list' = Trim(Append(l.list, NewEntry(r))) /\ Wrote(r, NewEntry(r)) /\ Outdates(r, {r})
    BY <1>5, <2>2 DEF EnsureAppend, At
  <2> HIDE DEF k
  <2>4. /\ IsJob(m) /\ m.pc = "read" /\ m.next = "work" /\ m.run = l.run /\ m.list = <<>>
        /\ DOMAIN m.steps = Step
    BY <2>1, UpdateFields DEF AllPending
  <2> HIDE DEF m
  <2>5. Moves(r, m) BY <1>0, <2>3, <2>4 DEF Moves
  <2>6. Appends(r, m) BY <2>3, <2>4 DEF Appends
  <2>7. IndexStep(r, m) BY <2>3, <2>4 DEF IndexStep
  <2> QED BY <2>5, <2>6, <2>7 DEF ListStep
<1>6. ASSUME NEW st \in Outcome, Work(r, st)
      PROVE  \E m : Moves(r, m) /\ ListStep(r, m) /\ IndexStep(r, m)
  <2> DEFINE k == WithSteps(l, st)
             m == Update(k, "running", "finally")
  <2>1. /\ l.pc = "work" /\ Becomes(r, m)
        /\ UNCHANGED <<exists, stored, lock, deletion, neighbour, history>>
    BY <1>6 DEF Work, At, WithSteps
  <2>2. IsJob(k) /\ k.steps = st /\ k.run = l.run /\ k.list = l.list
    BY <1>0, StepsFields
  <2> HIDE DEF k
  <2>3. DOMAIN st = Step BY DEF Outcome
  <2>4. /\ IsJob(m) /\ m.pc = "read" /\ m.next = "finally" /\ m.run = l.run /\ m.list = l.list
        /\ DOMAIN m.steps = Step
    BY <2>2, <2>3, UpdateFields
  <2> HIDE DEF m
  <2>5. Moves(r, m) BY <1>0, <2>1, <2>4 DEF Moves
  <2>6. Quiet(r, m) BY <2>1, <2>4 DEF Quiet, stored, history
  <2>7. IndexStep(r, m) BY <2>1, <2>4 DEF IndexStep, stored, history
  <2> QED BY <2>5, <2>6, <2>7 DEF ListStep
<1> QED BY <1>1, <1>2, <1>3, <1>4, <1>5, <1>6 DEF Engine

\* _update_run takes the lock.
LEMMA UpdateReadStep ==
  ASSUME Control, Shown, NEW c \in Coroutine, UpdateRead(c)
  PROVE  \E m : Moves(c, m) /\ ListStep(c, m) /\ IndexStep(c, m)
<1> DEFINE l == job[c]
           m == WithList(l, "write", list)
<1>0. /\ IsJob(l) /\ Fits(c, l) /\ IsSeq(list)
  BY DEF Control, Fits, Shown, Shows
<1>1. /\ l.pc = "read" /\ lock = None /\ lock' = c /\ Becomes(c, m)
      /\ UNCHANGED <<exists, stored, deletion, neighbour, history>>
  BY DEF UpdateRead, At, WithList
<1>2. /\ IsJob(m) /\ m.pc = "write" /\ m.list = list /\ m.run = l.run /\ m.step = l.step
      /\ m.next = l.next /\ m.steps = l.steps /\ m.visited = l.visited
  BY <1>0, ListFields DEF Alike
<1> HIDE DEF m
<1>3. Fits(c, m)
  <2>1. c \in Run => RunFits(c, m)
    BY <1>0, <1>1, <1>2 DEF Fits, RunFits, Updating, RunPlaces
  <2>2. c \in Retrier => RetryFits(m)
    BY <1>0, <1>1, <1>2 DEF Fits, RetryFits, Updating, RetryPlaces
  <2> QED BY <1>0, <1>2, <2>1, <2>2 DEF Fits, Copying, Holding
<1>4. Moves(c, m) BY <1>1, <1>2, <1>3 DEF Moves, Fresh, Retrying
<1>5. Reads(c, m) BY <1>1, <1>2 DEF Reads, stored, history, Copying, Holding
<1>6. IndexStep(c, m) BY <1>1, <1>2 DEF IndexStep, stored, history, Past
<1> QED BY <1>4, <1>5, <1>6 DEF ListStep

\* _update_run writes and gives the lock back.
LEMMA UpdateWriteStep ==
  ASSUME Control, Shown, NEW c \in Coroutine, UpdateWrite(c)
  PROVE  \E m : Moves(c, m) /\ ListStep(c, m) /\ IndexStep(c, m)
<1> DEFINE l == job[c]
           k == Cleared(l)
           m == Continue(k)
<1>0. IsJob(l) /\ Fits(c, l) /\ IsSeq(<<>>) /\ Run \cap Retrier = {} /\ c \in Run \cup Retrier
  BY EmptyFacts, RunsAssumption DEF Control, Fits, Coroutine
<1>1. /\ l.pc = "write" /\ lock' = None /\ Becomes(c, m)
      /\ list' = IF Has(l.list, l.run) THEN Put(l.list, l.run, l.status, l.steps) ELSE list
      /\ Wrote(l.run, Entry(l.run, l.status, l.steps)) /\ Outdates(c, {l.run})
      /\ UNCHANGED <<exists, index, deletion, neighbour, crowded, shared>>
  BY DEF UpdateWrite, At, Cleared
<1>2. /\ IsJob(k) /\ k.list = <<>> /\ k.pc = l.pc /\ k.next = l.next /\ k.steps = l.steps
      /\ k.run = l.run /\ k.step = l.step /\ k.visited = l.visited
  BY <1>0, ClearedFields DEF Alike
<1> HIDE DEF k
<1>3. DOMAIN l.steps = Step
  BY <1>0, <1>1 DEF Fits, RunFits, RetryFits, Updating
<1>4. /\ Fits(c, m) /\ m.pc \notin Copying
      /\ c \in Retrier /\ m.pc # "idle" => l.steps[l.step] # "failed"
      /\ c \in Run => m.pc \in {"work", "read", "done"}
      /\ c \in Retrier /\ m.pc # "idle" => m.pc \in Retrying /\ m.run = l.run /\ m.step = l.step
  <2>1. CASE c \in Run
    <3>1. l.next \in {"work", "finally", "done"} /\ l.run = c
      BY <1>0, <1>1, <2>1 DEF Fits, RunFits, Updating
    <3>2. /\ IsJob(m) /\ m.pc \in {"work", "read", "done"} /\ m.run = l.run
          /\ m.pc = "read" => m.next = "done" /\ m.steps = l.steps
          /\ m.list = <<>>
      BY <1>2, <3>1, ContinueRun
    <3> HIDE DEF m
    <3> QED
      BY <1>0, <1>3, <2>1, <3>1, <3>2 DEF Fits, RunFits, Updating, RunPlaces, Copying, Holding, Fresh
  <2>2. CASE c \in Retrier
    <3>1. /\ l.next \in {"retry_step", "retried", "gathered", "idle"}
          /\ l.next = "gathered" => l.step \in l.visited
          /\ l.next # "idle" => l.steps[l.step] # "failed"
          /\ l.run \in Run /\ l.step \in Step
      BY <1>0, <1>1, <2>2 DEF Fits, RetryFits, Updating
    <3>2. /\ IsJob(m) /\ m.pc \in {"retry_step", "read", "gather", "idle"}
          /\ m.pc = "read" => m.next = "idle"
          /\ m.pc # "idle" => /\ m.run = l.run /\ m.step = l.step /\ m.list = <<>>
                              /\ m.steps = l.steps /\ l.next # "idle"
          /\ m.pc = "idle" => m.list = <<>>
          /\ m.pc = "gather" => l.step \in m.visited
      BY <1>2, <3>1, ContinueRetry
    <3> HIDE DEF m
    <3>3. RetryFits(m)
      BY <1>3, <3>1, <3>2 DEF RetryFits, Updating, RetryPlaces
    <3> QED
      BY <1>0, <2>2, <3>1, <3>2, <3>3 DEF Fits, Copying, Holding, Retrying
  <2> QED BY <1>0, <2>1, <2>2
<1> HIDE DEF m
<1>5. Moves(c, m) BY <1>0, <1>1, <1>4 DEF Moves, Fresh
<1>6. Puts(c, m) BY <1>1, <1>3, <1>4 DEF Puts
<1>7. IndexStep(c, m) BY <1>1, <1>4 DEF IndexStep, Past
<1> QED BY <1>5, <1>6, <1>7 DEF ListStep

\* The entry a run has in the list.
LEMMA FoundEntry ==
  ASSUME Shown, NEW r, Has(list, r)
  PROVE  /\ r \in Runs(list) /\ r \in Begun
         /\ Find(list, r).steps = NoSteps \/ DOMAIN Find(list, r).steps = Step
         /\ r \notin stale => Find(list, r) = last[r]
<1>1. r \in Runs(list) BY HasRuns
<1>2. Find(list, r) \in Elems(list) /\ Find(list, r).run = r BY <1>1, FindFacts
<1> QED BY <1>1, <1>2 DEF Shown, Shows

\* A retry.
LEMMA RetriesStep ==
  ASSUME Control, Shown, NEW q \in Retrier, Retries(q)
  PROVE  \E m : Moves(q, m) /\ ListStep(q, m) /\ IndexStep(q, m)
<1> DEFINE l == job[q]
<1>0. /\ q \in Coroutine /\ q \notin Run /\ IsJob(l) /\ RetryFits(l)
      /\ (l.pc \notin Copying => l.list = <<>>) /\ IsSeq(list) /\ IsSeq(<<>>)
  BY RunsAssumption, EmptyFacts DEF Control, Fits, Coroutine, Shown, Shows
<1> USE DEF Fits, Updating, RetryPlaces, Copying, Holding, Retrying
<1>1. ASSUME NEW r \in Run, NEW s \in Step, RetryRead(q, r, s)
      PROVE  \E m : Moves(q, m) /\ ListStep(q, m) /\ IndexStep(q, m)
  <2> DEFINE m == [Of(r) EXCEPT !.pc = "reset", !.step = s, !.list = list]
  <2>1. /\ l.pc = "idle" /\ lock = None /\ lock' = q /\ Retryable(list, r, s) /\ Becomes(q, m)
        /\ UNCHANGED <<exists, stored, deletion, neighbour, history>>
    BY <1>1 DEF RetryRead, At
  <2>2. IsJob(m) /\ m.pc = "reset" /\ m.list = list /\ m.run = r /\ m.step = s
    <3>1. IsJob(Of(r)) /\ Of(r).run = r BY IdleFacts
    <3> QED BY <3>1 DEF IsJob, Fields
  <2> HIDE DEF m
  <2>3. /\ r \in Runs(list) /\ r \in Begun /\ FullSteps(Find(list, r).steps)
        /\ Find(list, r).steps[s] = "failed"
    BY <2>1, FoundEntry DEF Retryable, FullSteps
  <2>4. RetryFits(m) BY <2>2, <2>3 DEF RetryFits
  <2>5. Moves(q, m) BY <1>0, <2>1, <2>2, <2>3, <2>4 DEF Moves
  <2>6. Reads(q, m) BY <2>1, <2>2 DEF Reads, stored, history
  <2>7. IndexStep(q, m) BY <1>0, <2>1 DEF IndexStep, stored, history
  <2> QED BY <2>5, <2>6, <2>7 DEF ListStep
<1>2. CASE Reset(q) /\ exists
  <2> DEFINE m == WithList(l, "load", <<>>)
             e == Find(l.list, l.run)
             steps == [e.steps EXCEPT ![l.step] = "pending"]
  <2>1. /\ l.pc = "reset" /\ lock' = None /\ Becomes(q, m)
        /\ list' = Put(l.list, l.run, e.status, steps) /\ Wrote(l.run, Entry(l.run, e.status, steps))
        /\ Outdates(q, {l.run}) /\ shared' = IF Busy(q) THEN shared \cup {l.run} ELSE shared
        /\ UNCHANGED <<exists, index, deletion, neighbour, crowded>>
    BY <1>2 DEF Reset, At, WithList
  <2>2. /\ IsJob(m) /\ m.pc = "load" /\ m.list = <<>> /\ m.run = l.run /\ m.step = l.step
    BY <1>0, ListFields DEF Alike
  <2> HIDE DEF m
  <2>3. l.run \in Run /\ l.step \in Step /\ l.run \in Runs(l.list) /\ DOMAIN e.steps = Step
    BY <1>0, <2>1 DEF RetryFits, FullSteps
  <2>4. DOMAIN steps = Step /\ steps[l.step] # "failed" BY <2>3
  <2>5. Has(l.list, l.run) BY <2>3, HasRuns
  <2>6. RetryFits(m) BY <2>2, <2>3 DEF RetryFits
  <2>7. Moves(q, m) BY <1>0, <2>1, <2>2, <2>6 DEF Moves
  <2> HIDE DEF steps, e
  <2>8. Puts(q, m) BY <2>1, <2>2, <2>4, <2>5 DEF Puts
  <2>9. IndexStep(q, m) BY <1>0, <2>1 DEF IndexStep
  <2> QED BY <2>7, <2>8, <2>9 DEF ListStep
<1>3. ASSUME Becomes(q, Idle),
             UNCHANGED <<list, last, stale, shared, exists, index, deletion, neighbour, crowded>>,
             l.pc # "idle",
             \/ l.pc = "reset" /\ lock' = None
             \/ l.pc = "load" /\ lock' = lock
      PROVE  \E m : Moves(q, m) /\ ListStep(q, m) /\ IndexStep(q, m)
  <2>1. IsJob(Idle) /\ Idle.pc = "idle" /\ Idle.list = <<>> BY IdleFacts
  <2>2. RetryFits(Idle) BY <2>1 DEF RetryFits
  <2>3. Moves(q, Idle) BY <1>0, <1>3, <2>1, <2>2 DEF Moves
  <2>4. ListStep(q, Idle) BY <1>3, <2>1 DEF ListStep, Quiet, Drops
  <2>5. IndexStep(q, Idle) BY <1>0, <1>3 DEF IndexStep
  <2> QED BY <2>3, <2>4, <2>5
<1>4. CASE Reset(q) /\ ~exists
  BY <1>3, <1>4 DEF Reset, At
\* The steps that go on to an update.
<1>5. ASSUME NEW k, NEW status, NEW next, Becomes(q, Update(k, status, next)),
             UNCHANGED <<exists, stored, lock, deletion, neighbour, history>>,
             l.pc \in {"load", "retry_step", "gather"},
             IsJob(k), k.list = l.list, k.run = l.run, k.step = l.step, k.visited = l.visited,
             next \in {"retry_step", "retried", "gathered", "idle"}, DOMAIN k.steps = Step,
             next # "idle" => k.steps[l.step] # "failed",
             next = "gathered" => l.step \in l.visited
      PROVE  \E m : Moves(q, m) /\ ListStep(q, m) /\ IndexStep(q, m)
  <2> DEFINE m == Update(k, status, next)
  <2>1. /\ IsJob(m) /\ m.pc = "read" /\ m.next = next /\ m.list = l.list /\ m.run = l.run
        /\ m.step = l.step /\ m.steps = k.steps /\ m.visited = l.visited
    BY <1>5, UpdateFields
  <2>2. Becomes(q, m) BY <1>5
  <2> HIDE DEF m
  <2>3. l.run \in Run /\ l.step \in Step BY <1>0, <1>5 DEF RetryFits
  <2>4. RetryFits(m) BY <1>5, <2>1, <2>3 DEF RetryFits
  <2>5. Moves(q, m) BY <1>0, <1>5, <2>1, <2>2, <2>4 DEF Moves
  <2>6. Quiet(q, m) BY <1>5, <2>1 DEF Quiet, stored, history
  <2>7. IndexStep(q, m) BY <1>0, <1>5 DEF IndexStep, stored, history
  <2> QED BY <2>5, <2>6, <2>7 DEF ListStep
<1>6. CASE LoadRun(q)
  <2> DEFINE e == Find(list, l.run)
             k == [l EXCEPT !.before = e.status, !.steps = [e.steps EXCEPT ![l.step] = "running"]]
  <2>1. l.pc = "load" /\ UNCHANGED <<exists, stored, lock, deletion, neighbour, history>>
    BY <1>6 DEF LoadRun, At
  <2>2. CASE Has(list, l.run) /\ e.steps # NoSteps
    <3>1. Becomes(q, Update(k, "running", "retry_step")) BY <1>6, <2>2 DEF LoadRun
    <3>2. DOMAIN e.steps = Step BY <2>2, FoundEntry
    <3>3. l.step \in Step BY <1>0, <2>1 DEF RetryFits
    <3> DEFINE steps == [e.steps EXCEPT ![l.step] = "running"]
    <3>4. DOMAIN steps = Step /\ steps[l.step] = "running" BY <3>2, <3>3
    <3> HIDE DEF steps
    <3>5. /\ IsJob(k) /\ k.list = l.list /\ k.run = l.run /\ k.step = l.step
          /\ k.visited = l.visited /\ k.steps = steps
      <4>1. PICK x : x = e.status OBVIOUS
      <4>2. k = [l EXCEPT !.before = x, !.steps = steps] BY <4>1 DEF steps
      <4>3. ASSUME NEW j, j = [l EXCEPT !.before = x, !.steps = steps]
            PROVE  /\ IsJob(j) /\ j.list = l.list /\ j.run = l.run /\ j.step = l.step
                   /\ j.visited = l.visited /\ j.steps = steps
        BY <1>0, <4>3 DEF IsJob, Fields
      <4> QED BY <4>2, <4>3
    <3> HIDE DEF k
    <3> QED BY <1>5, <2>1, <3>1, <3>4, <3>5
  <2>3. CASE ~(Has(list, l.run) /\ e.steps # NoSteps)
    <3>1. Becomes(q, Idle) BY <1>6, <2>3 DEF LoadRun
    <3> QED BY <1>3, <2>1, <3>1 DEF stored, history
  <2> QED BY <2>2, <2>3
<1>7. ASSUME NEW new \in {"succeeded", "failed"}, new = "succeeded" => RetrySucceeds(q),
             new = "failed" => RetryFails(q)
      PROVE  \E m : Moves(q, m) /\ ListStep(q, m) /\ IndexStep(q, m)
  <2> DEFINE steps == [l.steps EXCEPT ![l.step] = new]
             k == [l EXCEPT !.before = None, !.steps = steps]
  <2>1. l.pc = "retry_step" /\ UNCHANGED <<exists, stored, lock, deletion, neighbour, history>>
    BY <1>7 DEF RetrySucceeds, RetryFails, At
  <2>2. l.step \in Step /\ DOMAIN l.steps = Step BY <1>0, <2>1 DEF RetryFits
  <2>3. DOMAIN steps = Step /\ steps[l.step] = new BY <2>2
  <2>4. \/ Becomes(q, Update(k, "running", "retried")) /\ new = "succeeded"
        \/ Becomes(q, Update(k, l.before, "idle"))
    BY <1>7 DEF RetrySucceeds, RetryFails
  <2> HIDE DEF steps
  <2>5. /\ IsJob(k) /\ k.list = l.list /\ k.run = l.run /\ k.step = l.step
        /\ k.visited = l.visited /\ k.steps = steps
    BY <1>0 DEF IsJob, Fields
  <2> HIDE DEF k
  <2> QED BY <1>5, <2>1, <2>3, <2>4, <2>5
<1>8. ASSUME NEW bad, NEW st \in [Step -> {"pending", "succeeded", "failed"}], Gather(q, bad, st)
      PROVE  \E m : Moves(q, m) /\ ListStep(q, m) /\ IndexStep(q, m)
  <2> DEFINE k == [l EXCEPT !.steps = st, !.broken = bad # {}]
  <2>1. l.pc = "gather" /\ UNCHANGED <<exists, stored, lock, deletion, neighbour, history>>
        /\ Becomes(q, Update(k, "running", "gathered"))
    BY <1>8 DEF Gather, At
  <2>2. l.step \in Step /\ l.steps[l.step] # "failed" /\ l.step \in l.visited
    BY <1>0, <2>1 DEF RetryFits
  <2>3. {i \in Batch(l) : l.queue[i] = l.step} = {} BY <2>2 DEF Batch
  <2>4. st[l.step] = l.steps[l.step] BY <1>8, <2>2, <2>3 DEF Gather
  <2>5. /\ IsJob(k) /\ k.list = l.list /\ k.run = l.run /\ k.step = l.step
        /\ k.visited = l.visited /\ k.steps = st
    BY <1>0 DEF IsJob, Fields
  <2> HIDE DEF k
  <2> QED BY <1>5, <2>1, <2>2, <2>4, <2>5
<1>9. CASE RetrySucceeds(q)
  <2>1. PICK new \in {"succeeded", "failed"} : new = "succeeded" OBVIOUS
  <2> QED BY <1>7, <1>9, <2>1
<1>10. CASE RetryFails(q)
  <2>1. PICK new \in {"succeeded", "failed"} : new = "failed" OBVIOUS
  <2> QED BY <1>7, <1>10, <2>1
<1>11. CASE \E r \in Run, s \in Step : RetryRead(q, r, s)
  BY <1>1, <1>11
<1>12. CASE \E bad \in SUBSET Batch(l), st \in [Step -> {"pending", "succeeded", "failed"}] :
              Gather(q, bad, st)
  BY <1>8, <1>12
<1> QED BY <1>2, <1>4, <1>6, <1>9, <1>10, <1>11, <1>12 DEF Retries

\* A failing call under the lock.
LEMMA DiesStep ==
  ASSUME Control, Shown, NEW c \in Coroutine, Dies(c)
  PROVE  \E m : Moves(c, m) /\ ListStep(c, m) /\ IndexStep(c, m)
<1> DEFINE m == IF c \in Run THEN [Of(c) EXCEPT !.pc = "dead"] ELSE Idle
<1>1. /\ lock = c /\ lock' = None /\ Becomes(c, m)
      /\ UNCHANGED <<exists, stored, deletion, neighbour, history>>
  BY DEF Dies
<1>2. job[c].pc \in Holding BY <1>1 DEF Control
<1>3. /\ IsJob(m) /\ m.list = <<>> /\ m.pc = (IF c \in Run THEN "dead" ELSE "idle")
      /\ c \in Run => m.run = c
  BY IdleFacts
<1> HIDE DEF m
<1>4. Fits(c, m)
  BY <1>3, EmptyFacts, RunsAssumption
  DEF Fits, RunFits, RetryFits, Updating, RunPlaces, RetryPlaces, Copying, Holding
<1>5. Moves(c, m) BY <1>2, <1>1, <1>3, <1>4, RunsAssumption DEF Moves, Fresh, Holding
<1>6. Drops(c, m) BY <1>1, <1>2, <1>3 DEF Drops, stored, history
<1>7. IndexStep(c, m) BY <1>1, <1>3 DEF IndexStep, stored, history, Past
<1> QED BY <1>5, <1>6, <1>7 DEF ListStep

\* Every step is one of a coroutine, of the deletion, of another workflow, a
\* restart or none.
LEMMA Steps ==
  ASSUME Control, Shown, [Next]_vars
  PROVE  \/ \E c \in Coroutine : \E m : Moves(c, m) /\ ListStep(c, m) /\ IndexStep(c, m)
         \/ Deletion
         \/ \E n \in Neighbour : NeighbourReadIndex(n) \/ NeighbourWriteIndex(n)
         \/ \E old \in SUBSET Run : Restart(old)
         \/ UNCHANGED vars
<1>1. CASE \E r \in Run : Starts(r) \/ Engine(r)
  BY <1>1, StartsStep, EngineStep DEF Coroutine
<1>2. CASE \E q \in Retrier : Retries(q)
  BY <1>2, RetriesStep DEF Coroutine
<1>3. CASE \E c \in Coroutine : UpdateRead(c) \/ UpdateWrite(c)
  BY <1>3, UpdateReadStep, UpdateWriteStep
<1>4. CASE Faults
  BY <1>4, DiesStep DEF Faults
<1> QED BY <1>1, <1>2, <1>3, <1>4 DEF Next

-----------------------------------------------------------------------------
(* The places, the lock and the lists. *)

LEMMA EmptyShows == ASSUME NEW begun, NEW old, NEW la PROVE Shows(<<>>, begun, old, la)
BY EmptyFacts DEF Shows

\* A list that is left alone goes on showing its runs.
LEMMA ShowsKept ==
  ASSUME NEW l, NEW begun, NEW old, NEW la, NEW begun2, NEW old2, NEW la2,
         Shows(l, begun, old, la), begun \subseteq begun2, old \subseteq old2,
         \A e \in Elems(l) : e.run \notin old2 => la2[e.run] = la[e.run]
  PROVE  Shows(l, begun2, old2, la2)
BY DEF Shows

\* The runs in a list have begun.
LEMMA RunsBegun ==
  ASSUME NEW l, NEW begun, NEW old, NEW la, Shows(l, begun, old, la)
  PROVE  \A e \in Elems(l) : e.run \in begun
BY DEF Shows, Runs

LEMMA BegunKept ==
  ASSUME Control, NEW c \in Coroutine, NEW m, Moves(c, m)
  PROVE  Begun \subseteq Begun'
<1>1. job'[c] = m /\ \A d \in Coroutine \ {c} : job'[d] = job[d]
  BY JobAfter DEF Control, Moves
<1> QED BY <1>1 DEF Begun, Moves, Coroutine

LEMMA ControlKept ==
  ASSUME Control, NEW c \in Coroutine, NEW m, Moves(c, m), ListStep(c, m)
  PROVE  Control'
<1>1. /\ job'[c] = m /\ \A d \in Coroutine \ {c} : job'[d] = job[d]
      /\ job' = [d \in Coroutine |-> job'[d]]
  BY JobAfter DEF Control, Moves
<1>2. \A d \in Coroutine : Fits(d, job'[d])
  BY <1>1 DEF Control, Moves
<1>3. \A d \in Coroutine : job'[d].pc \in Holding <=> lock' = d
  <2>1. /\ \A d \in Coroutine : job[d].pc \in Holding <=> lock = d
        /\ None \notin Coroutine
    BY RunsAssumption DEF Control
  <2>2. CASE Quiet(c, m) \/ RouteReads(c, m)
    <3>1. lock' = lock /\ job[c].pc \notin Holding /\ m.pc \notin Holding
      BY <2>2 DEF Quiet, RouteReads, Copying, Holding
    <3> QED BY <1>1, <2>1, <3>1
  <2>3. CASE Reads(c, m)
    <3>1. lock = None /\ lock' = c /\ m.pc \in Holding BY <2>3 DEF Reads
    <3> QED BY <1>1, <2>1, <3>1
  <2>4. CASE Drops(c, m) \/ Puts(c, m)
    <3>1. lock' = None /\ job[c].pc \in Holding /\ m.pc \notin Holding
      BY <2>4 DEF Drops, Puts, Holding, Copying
    <3> QED BY <1>1, <2>1, <3>1
  <2>5. CASE Appends(c, m)
    <3>1. /\ m.pc \notin Holding
          /\ IF job[c].pc \in Holding THEN lock' = None ELSE lock' = lock
      BY <2>5 DEF Appends, Holding, Copying
    <3> QED BY <1>1, <2>1, <3>1
  <2> QED BY <2>2, <2>3, <2>4, <2>5 DEF ListStep
<1>4. \A q \in Retrier : job'[q].pc # "idle" => job'[q].run \in Begun'
  <2>1. Begun \subseteq Begun' BY BegunKept
  <2>2. ASSUME NEW q \in Retrier, job'[q].pc # "idle" PROVE job'[q].run \in Begun
    BY <1>1, <2>2 DEF Control, Moves, Coroutine
  <2> QED BY <2>1, <2>2
<1>5. last' = [r \in Run |-> last'[r]]
  <2>1. \/ last' = last
        \/ \E r, e : last' = [last EXCEPT ![r] = e]
    BY DEF ListStep, Quiet, Reads, RouteReads, Drops, Appends, Puts, Wrote
  <2> QED BY <2>1 DEF Control
<1> QED BY <1>1, <1>2, <1>3, <1>4, <1>5 DEF Control

\* What a step of one coroutine finds of the others.
LEMMA Others ==
  ASSUME Control, NEW c \in Coroutine, NEW d \in Coroutine, d # c
  PROVE  /\ job[d].pc \in Copying => (d \in Run /\ At(d, "append")) \/ job[d].pc \in Holding
         /\ job[d].pc \notin Copying => job[d].list = <<>>
         /\ job[c].pc \in Holding => job[d].pc \notin Holding
<1>1. Fits(d, job[d]) /\ (job[d].pc \in Holding <=> lock = d) /\ (job[c].pc \in Holding <=> lock = c)
  BY DEF Control
<1>2. job[d].pc = "append" => d \in Run
  <2>1. d \notin Run => RetryFits(job[d]) BY <1>1 DEF Fits, Coroutine
  <2> QED BY <2>1 DEF RetryFits, RetryPlaces
<1> QED BY <1>1, <1>2 DEF Fits, Copying, At

\* The lists after a step that writes none.
LEMMA ShownUnwritten ==
  ASSUME Control, Shown, Copies, NEW c \in Coroutine, NEW m, Moves(c, m),
         Quiet(c, m) \/ Reads(c, m) \/ RouteReads(c, m) \/ Drops(c, m)
  PROVE  Shown' /\ Copies'
<1>1. job'[c] = m /\ \A d \in Coroutine \ {c} : job'[d] = job[d]
  BY JobAfter DEF Control, Moves
<1>2. UNCHANGED <<list, last, stale>> /\ Begun \subseteq Begun'
  BY BegunKept DEF Quiet, Reads, RouteReads, Drops
<1>3. m.list = list \/ m.list = <<>>
  <2>1. m.pc \notin Copying => m.list = <<>> BY DEF Moves, Fits
  <2> QED BY <2>1 DEF Quiet, Reads, RouteReads, Drops, Copying, Holding
<1>4. Shown'
  <2>1. Shows(list, Begun, stale, last)' BY <1>2, ShowsKept DEF Shown
  <2>2. ASSUME NEW d \in Coroutine PROVE Shows(job[d].list, Begun, stale, last)'
    <3>1. CASE d = c
      BY <1>1, <1>2, <1>3, <2>1, <3>1, EmptyShows
    <3>2. CASE d # c
      BY <1>1, <1>2, <3>2, ShowsKept DEF Shown
    <3> QED BY <3>1, <3>2
  <2> QED BY <2>1, <2>2 DEF Shown
<1>5. ASSUME NEW r \in Run, At(r, "ensure_append")' PROVE r \notin Runs(job'[r].list)
  <2>1. CASE r = c
    <3>1. m.pc = "ensure_append" BY <1>1, <1>5, <2>1 DEF At
    <3>2. Reads(c, m)
      BY <3>1 DEF Quiet, RouteReads, Drops, Copying, Holding
    <3> QED BY <1>1, <2>1, <3>1, <3>2 DEF Reads
  <2>2. CASE r # c
    BY <1>1, <1>5, <2>2 DEF Copies, At, Coroutine
  <2> QED BY <2>1, <2>2
<1>6. ASSUME NEW d \in Run, At(d, "append")'
      PROVE  Runs(job'[d].list) \subseteq Runs(list) \cup stale
  <2>1. CASE d = c
    BY <1>1, <1>3, <2>1, EmptyFacts
  <2>2. CASE d # c
    BY <1>1, <1>6, <2>2 DEF Copies, At, Coroutine
  <2> QED BY <2>1, <2>2
<1>7. ASSUME NEW d \in Coroutine, At(d, "write")'
      PROVE  job'[d].run \in Runs(list) => job'[d].run \in Runs(job'[d].list) \cup stale
  <2>1. CASE d = c
    <3>1. m.list = list
      BY <1>1, <1>7, <2>1 DEF At, Quiet, Reads, RouteReads, Drops, Copying, Holding
    <3> QED BY <1>1, <2>1, <3>1
  <2>2. CASE d # c
    BY <1>1, <1>7, <2>2 DEF Copies, At
  <2> QED BY <2>1, <2>2
<1>8. ASSUME NEW d \in Coroutine, At(d, "write")', NEW r \in Run, At(r, "append")',
             job'[d].run \in Runs(job'[r].list)
      PROVE  job'[d].run \in Runs(job'[d].list) \cup stale
  <2>1. CASE r = c \/ d = c
    <3>1. job'[d].run \in Runs(list) \cup stale
      BY <1>1, <1>3, <1>6, <1>8, EmptyFacts DEF Coroutine
    <3> QED BY <1>7, <1>8, <3>1
  <2>2. CASE r # c /\ d # c
    BY <1>1, <1>8, <2>2 DEF Copies, At, Coroutine
  <2> QED BY <2>1, <2>2
<1> QED BY <1>2, <1>4, <1>5, <1>6, <1>7, <1>8 DEF Copies

\* Runs that go from the list go stale for the run route.
LEMMA OutdatesFacts ==
  ASSUME NEW c, NEW runs, Outdates(c, runs)
  PROVE  /\ stale \subseteq stale'
         /\ \A d \in Run \ {c} : At(d, "append") =>
              /\ runs \subseteq stale'
              /\ \A x \in Run : x \in Runs(list) => x \in Runs(list') \cup stale'
<1>1. ASSUME NEW d \in Run \ {c}, At(d, "append")
      PROVE  stale' = stale \cup runs \cup {x \in Run : Has(list, x) /\ ~Has(list', x)}
  BY <1>1 DEF Outdates
<1>2. \A x : (Has(list, x) <=> x \in Runs(list)) /\ (Has(list', x) <=> x \in Runs(list'))
  BY HasRuns
<1>3. stale \subseteq stale' BY DEF Outdates
<1> QED BY <1>1, <1>2, <1>3

\* The entry of x is written.
Writes(c, m, x) ==
  /\ Moves(c, m) /\ m.pc \notin Copying /\ Outdates(c, {x})
  /\ \A r \in Run : r # x => last'[r] = last[r]
  /\ job[c].pc \in Holding \/ x \notin Begun
  /\ job[c].pc \notin Holding =>
       /\ At(c, "append") /\ c \in Run /\ c = x
       /\ Runs(list') \subseteq Runs(job[c].list) \cup {x}

\* The lists after a step that writes one, whatever it is.
LEMMA CopiesWritten ==
  ASSUME Control, Shown, Copies, NEW c \in Coroutine, NEW m, NEW x \in Run, Writes(c, m, x)
  PROVE  /\ \A d \in Coroutine : Shows(job[d].list, Begun, stale, last)'
         /\ Copies'
<1>0. /\ Moves(c, m) /\ m.pc \notin Copying /\ Outdates(c, {x})
      /\ \A r \in Run : r # x => last'[r] = last[r]
      /\ job[c].pc \in Holding \/ x \notin Begun
      /\ job[c].pc \notin Holding =>
           /\ At(c, "append") /\ c \in Run /\ c = x
           /\ Runs(list') \subseteq Runs(job[c].list) \cup {x}
  BY DEF Writes
<1>1. job'[c] = m /\ \A d \in Coroutine \ {c} : job'[d] = job[d]
  BY <1>0, JobAfter DEF Control, Moves
<1>2. stale \subseteq stale' /\ Begun \subseteq Begun'
  BY <1>0, BegunKept, OutdatesFacts
<1>3. m.list = <<>> BY <1>0 DEF Moves, Fits
<1>4. ASSUME NEW d \in Coroutine PROVE Shows(job[d].list, Begun, stale, last)'
  <2>1. CASE d = c \/ job[d].list = <<>>
    BY <1>1, <1>3, <2>1, EmptyShows
  <2>2. CASE d # c /\ job[d].list # <<>>
    <3>1. Shows(job[d].list, Begun, stale, last) BY DEF Shown
    <3>2. x \in stale' \/ x \notin Begun
      <4>1. CASE job[c].pc \in Holding
        <5>1. d \in Run /\ At(d, "append") BY <2>2, <4>1, Others
        <5> QED BY <1>0, <2>2, <5>1, OutdatesFacts
      <4> QED BY <1>0, <4>1
    <3>3. \A e \in Elems(job[d].list) : e.run \notin stale' => last'[e.run] = last[e.run]
      BY <1>0, <3>1, <3>2, RunsBegun DEF Begun
    <3> QED BY <1>1, <1>2, <2>2, <3>1, <3>3, ShowsKept
  <2> QED BY <2>1, <2>2
<1>5. ASSUME NEW r \in Run, At(r, "ensure_append")' PROVE r \notin Runs(job'[r].list)
  BY <1>0, <1>1, <1>3, <1>5, EmptyFacts DEF Copies, At, Coroutine
<1>6. ASSUME NEW d \in Run, At(d, "append")'
      PROVE  Runs(job'[d].list) \subseteq Runs(list') \cup stale'
  <2>1. d # c BY <1>0, <1>1, <1>6 DEF At, Copying
  <2>2. job'[d] = job[d] /\ At(d, "append") BY <1>1, <1>6, <2>1 DEF At, Coroutine
  <2>3. Runs(job[d].list) \subseteq Runs(list) \cup stale BY <2>2 DEF Copies
  <2>4. Runs(job[d].list) \subseteq Run BY DEF Shown, Shows, Begun, Coroutine
  <2>5. \A r \in Run : r \in Runs(list) => r \in Runs(list') \cup stale'
    BY <1>0, <2>1, <2>2, OutdatesFacts
  <2> QED BY <1>2, <2>2, <2>3, <2>4, <2>5
<1>7. ASSUME NEW d \in Coroutine, At(d, "write")'
      PROVE  /\ d # c /\ job'[d] = job[d] /\ At(d, "write")
             /\ job[c].pc \notin Holding
  <2>1. d # c BY <1>0, <1>1, <1>7 DEF At, Copying, Holding
  <2>2. job'[d] = job[d] /\ At(d, "write") BY <1>1, <1>7, <2>1 DEF At
  <2> QED BY <2>1, <2>2, Others DEF At, Holding
<1>8. ASSUME NEW d \in Coroutine, At(d, "write")', job'[d].run \in Runs(list')
      PROVE  job'[d].run \in Runs(job'[d].list) \cup stale'
  <2>1. d # c /\ job'[d] = job[d] /\ At(d, "write") /\ job[c].pc \notin Holding
    BY <1>7, <1>8
  <2>2. /\ At(c, "append") /\ c \in Run /\ c = x /\ x \notin Begun
        /\ Runs(list') \subseteq Runs(job[c].list) \cup {x}
    BY <1>0, <2>1
  <2>3. job[d].run # x
    <3>1. CASE d \in Run
      BY <2>1, <2>2, <3>1 DEF Control, Fits, RunFits
    <3>2. CASE d \in Retrier
      BY <2>1, <2>2, <3>2 DEF Control, At
    <3> QED BY <3>1, <3>2 DEF Coroutine
  <2>4. job[d].run \in Runs(job[c].list) BY <1>8, <2>1, <2>2, <2>3
  <2>5. job[d].run \in Runs(job[d].list) \cup stale BY <2>1, <2>2, <2>4 DEF Copies
  <2> QED BY <1>2, <2>1, <2>5
<1>9. ASSUME NEW d \in Coroutine, At(d, "write")', NEW r \in Run, At(r, "append")',
             job'[d].run \in Runs(job'[r].list)
      PROVE  job'[d].run \in Runs(job'[d].list) \cup stale'
  <2>1. d # c /\ job'[d] = job[d] /\ At(d, "write") BY <1>7, <1>9
  <2>2. r # c /\ job'[r] = job[r] /\ At(r, "append")
    BY <1>0, <1>1, <1>9 DEF At, Copying, Coroutine
  <2> QED BY <1>2, <1>9, <2>1, <2>2 DEF Copies
<1> QED BY <1>4, <1>5, <1>6, <1>8, <1>9 DEF Copies

LEMMA ShownAppends ==
  ASSUME Control, Shown, Copies, NEW c \in Coroutine, NEW m, Moves(c, m), Appends(c, m)
  PROVE  Shown' /\ Copies'
<1> DEFINE l == job[c]
           e == NewEntry(c)
<1>1. /\ c \in Run /\ l.pc \in {"append", "tool_append", "ensure_append"} /\ m.pc \notin Copying
      /\ list' = Trim(Append(l.list, e)) /\ last' = [last EXCEPT ![c] = e] /\ Outdates(c, {c})
  BY DEF Appends, Wrote
<1>2. e.run = c /\ e.steps = NoSteps BY DEF NewEntry, Entry
<1> HIDE DEF e
<1>3. Shows(l.list, Begun, stale, last) BY DEF Shown
<1>4. IsSeq(list') /\ Elems(list') \subseteq Elems(l.list) \cup {e}
  BY <1>1, <1>3, AppendFacts DEF Shows
<1>5. Runs(list') \subseteq Runs(l.list) \cup {c} BY <1>2, <1>4 DEF Runs
<1>6. last'[c] = e /\ \A r \in Run : r # c => last'[r] = last[r]
  BY <1>1 DEF Control
<1>7. l.pc # "ensure_append" => c \notin Begun
  BY <1>1 DEF Begun, Fresh
<1>8. c \notin Runs(l.list)
  <2>1. CASE l.pc = "ensure_append" BY <1>1, <2>1 DEF Copies, At
  <2>2. CASE l.pc # "ensure_append" BY <1>3, <1>7, <2>2 DEF Shows
  <2> QED BY <2>1, <2>2
<1>9. /\ \A d \in Coroutine : Shows(job[d].list, Begun, stale, last)'
      /\ Copies'
  <2>1. l.pc \in Holding \/ c \notin Begun BY <1>1, <1>7 DEF Holding
  <2>2. l.pc \notin Holding => At(c, "append") BY <1>1 DEF Holding, At
  <2>3. Writes(c, m, c) BY <1>1, <1>5, <1>6, <2>1, <2>2 DEF Writes
  <2> QED BY <1>1, <2>3, CopiesWritten
<1>10. Shows(list, Begun, stale, last)'
  <2>1. c \in Begun'
    <3>1. job'[c] = m BY JobAfter DEF Control, Moves
    <3> QED BY <1>1, <3>1 DEF Begun, Appends
  <2>2. Runs(list') \subseteq Begun' BY <1>3, <1>5, <2>1, BegunKept DEF Shows
  <2>3. ASSUME NEW f \in Elems(list')
        PROVE  /\ f.steps = NoSteps \/ DOMAIN f.steps = Step
               /\ f.run \notin stale' => f = last'[f.run]
    <3>1. CASE f = e BY <1>2, <1>6, <3>1
    <3>2. CASE f \in Elems(l.list)
      <4>1. f.run # c /\ f.run \in Run
        BY <1>3, <1>8, <3>2, RunsBegun DEF Runs, Begun
      <4>2. stale \subseteq stale' BY <1>1, OutdatesFacts
      <4> QED BY <1>3, <1>6, <3>2, <4>1, <4>2 DEF Shows
    <3> QED BY <1>4, <3>1, <3>2
  <2> QED BY <1>4, <2>2, <2>3 DEF Shows
<1> QED BY <1>9, <1>10 DEF Shown

LEMMA ShownPuts ==
  ASSUME Control, Shown, Copies, NEW c \in Coroutine, NEW m, Moves(c, m), Puts(c, m)
  PROVE  Shown' /\ Copies'
<1> DEFINE l == job[c]
           x == l.run
<1>1. PICK status, steps :
        /\ l.pc \in {"write", "reset"} /\ m.pc \notin Copying /\ DOMAIN steps = Step
        /\ list' = IF Has(l.list, x) THEN Put(l.list, x, status, steps) ELSE list
        /\ last' = [last EXCEPT ![x] = Entry(x, status, steps)] /\ Outdates(c, {x})
  BY DEF Puts, Wrote
<1> DEFINE e == Entry(x, status, steps)
<1>2. e.run = x /\ e.steps = steps BY DEF Entry
<1>3. x \in Run
  <2>1. CASE c \in Run
    BY <2>1 DEF Control, Fits, RunFits
  <2>2. CASE c \in Retrier
    BY <1>1, <2>2 DEF Control, Begun
  <2> QED BY <2>1, <2>2 DEF Coroutine
<1>4. last'[x] = e /\ \A r \in Run : r # x => last'[r] = last[r]
  BY <1>1, <1>3 DEF Control
<1>5. Shows(l.list, Begun, stale, last) /\ Shows(list, Begun, stale, last)
  BY DEF Shown
<1>6. stale \subseteq stale' /\ Begun \subseteq Begun' BY <1>1, OutdatesFacts, BegunKept
<1>7. /\ \A d \in Coroutine : Shows(job[d].list, Begun, stale, last)'
      /\ Copies'
  <2>1. l.pc \in Holding BY <1>1 DEF Holding
  <2> HIDE DEF e, l, x
  <2>2. job[c].pc \in Holding BY <2>1 DEF l
  <2>3. Writes(c, m, x) BY <1>1, <1>4, <2>2 DEF Writes
  <2> QED BY <1>3, <2>3, CopiesWritten
<1>8. Shows(list, Begun, stale, last)'
  <2>1. CASE Has(l.list, x)
    <3>1. list' = Put(l.list, x, status, steps) BY <1>1, <2>1
    <3>2. /\ IsSeq(list') /\ Runs(list') = Runs(l.list)
          /\ \A f \in Elems(list') : f = e \/ (f \in Elems(l.list) /\ f.run # x)
      BY <1>5, <3>1, PutFacts DEF Shows
    <3> HIDE DEF e
    <3>3. ASSUME NEW f \in Elems(list')
          PROVE  /\ f.steps = NoSteps \/ DOMAIN f.steps = Step
                 /\ f.run \notin stale' => f = last'[f.run]
      <4>1. CASE f = e BY <1>1, <1>2, <1>4, <4>1
      <4>2. CASE f \in Elems(l.list) /\ f.run # x
        <5>1. f.run \in Run BY <1>5, <4>2, RunsBegun DEF Begun
        <5> QED BY <1>4, <1>5, <1>6, <4>2, <5>1 DEF Shows
      <4> QED BY <3>2, <4>1, <4>2
    <3> QED BY <1>5, <1>6, <3>2, <3>3 DEF Shows
  <2>2. CASE ~Has(l.list, x)
    <3>1. list' = list BY <1>1, <2>2
    <3>2. x \in Runs(list) => x \in stale
      <4>1. x \notin Runs(l.list) BY <2>2, HasRuns
      <4>2. CASE l.pc = "write" BY <4>1, <4>2 DEF Copies, At
      <4>3. CASE l.pc = "reset"
        <5>1. c \in Retrier
          BY <4>3 DEF Control, Fits, RunFits, RunPlaces, Coroutine
        <5> QED BY <4>1, <4>3, <5>1 DEF Control, Fits, RetryFits
      <4> QED BY <1>1, <4>2, <4>3
    <3>3. \A f \in Elems(list) : f.run \notin stale' => last'[f.run] = last[f.run]
      <4>1. \A f \in Elems(list) : f.run \in Run /\ f.run \in Runs(list)
        BY <1>5, RunsBegun DEF Begun, Runs
      <4> QED BY <1>4, <1>6, <3>2, <4>1
    <3> QED BY <1>5, <1>6, <3>1, <3>3, ShowsKept
  <2> QED BY <2>1, <2>2
<1> QED BY <1>7, <1>8 DEF Shown

LEMMA ShownKept ==
  ASSUME Control, Shown, Copies, NEW c \in Coroutine, NEW m, Moves(c, m), ListStep(c, m)
  PROVE  Shown' /\ Copies'
BY ShownUnwritten, ShownAppends, ShownPuts DEF ListStep

-----------------------------------------------------------------------------
(* The index *)

LEMMA FoundKept ==
  ASSUME Control, Found, NEW c \in Coroutine, NEW m, Moves(c, m), IndexStep(c, m)
  PROVE  Found'
<1> DEFINE Reading == {"route_index", "engine_index"}
<1>1. job'[c] = m /\ \A d \in Coroutine \ {c} : job'[d] = job[d]
  BY JobAfter DEF Control, Moves
<1>2. exists' = exists /\ deletion' = deletion /\ neighbour' = neighbour BY DEF IndexStep
<1>3. ASSUME exists, NEW r \in Run \ crowded', job'[r].pc \in Past
      PROVE  /\ r \in index'
             /\ \A d \in Run : job'[d].pc \in Reading => r \in job'[d].index
             /\ \A n \in Neighbour : neighbour[n].pc = "write_index" => r \in neighbour[n].index
  <2>1. \A x \in Run \ crowded : job[x].pc \in Past =>
          /\ x \in index /\ \A d \in Run : job[d].pc \in Reading => x \in job[d].index
          /\ \A n \in Neighbour : neighbour[n].pc = "write_index" => x \in neighbour[n].index
    BY <1>3 DEF Found
  <2>2. CASE /\ UNCHANGED <<index, crowded>>
             /\ c \in Run => /\ m.pc \in Past => job[c].pc \in Past
                             /\ m.pc \in Reading => m.index = index
    <3>1. job[r].pc \in Past /\ r \notin crowded BY <1>1, <1>3, <2>2 DEF Coroutine
    <3> QED BY <1>1, <2>1, <2>2, <3>1 DEF Coroutine
  <2>3. CASE /\ c \in Run /\ job[c].pc \in Reading /\ m.pc \in {"engine", "ensure"}
             /\ index' = job[c].index \cup {c}
             /\ \E new \in SUBSET {c} : (m.pc = "ensure" => c \in new) /\ Crowds(c, new)
    <3>1. PICK new \in SUBSET {c} : (m.pc = "ensure" => c \in new) /\ Crowds(c, new)
      BY <2>3
    <3>2. crowded' = (new \cap MissedBy(c)) \cup {x \in crowded : x \notin index' \/ x \in MissedBy(c)}
      BY <3>1 DEF Crowds
    <3>3. r \notin MissedBy(c) =>
            /\ \A d \in Run \ {c} : job[d].pc \in Reading => r \in job[d].index
            /\ \A n \in Neighbour : neighbour[n].pc = "write_index" => r \in neighbour[n].index
      BY <2>3, RunsAssumption DEF MissedBy
    <3>4. m.pc \notin Reading BY <2>3
    <3>5. CASE r = c
      <4>1. r \in new BY <1>1, <1>3, <2>3, <3>1, <3>5 DEF Past
      <4>2. r \notin MissedBy(c) BY <1>3, <3>2, <4>1
      <4> QED BY <1>1, <2>3, <3>3, <3>4, <3>5, <4>2 DEF Coroutine
    <3>6. CASE r # c /\ r \notin crowded
      <4>1. job[r].pc \in Past BY <1>1, <1>3, <3>6 DEF Coroutine
      <4> QED BY <1>1, <2>1, <2>3, <3>4, <3>6, <4>1 DEF Coroutine
    <3>7. CASE r # c /\ r \in crowded
      <4>1. r \in index' /\ r \notin MissedBy(c) BY <1>3, <3>2, <3>7
      <4> QED BY <1>1, <3>3, <3>4, <4>1 DEF Coroutine
    <3> QED BY <3>5, <3>6, <3>7
  <2> QED BY <2>2, <2>3 DEF IndexStep
<1> QED BY <1>2, <1>3 DEF Found

-----------------------------------------------------------------------------
(* Retries *)

LEMMA OneRetryKept ==
  ASSUME Control, Shown, OneRetry, NEW c \in Coroutine, NEW m, Moves(c, m), ListStep(c, m)
  PROVE  OneRetry'
<1>1. job'[c] = m /\ \A d \in Coroutine \ {c} : job'[d] = job[d]
  BY JobAfter DEF Control, Moves
<1>2. Run \cap Retrier = {} /\ Run \subseteq Coroutine /\ Retrier \subseteq Coroutine
  BY RunsAssumption DEF Coroutine
<1>3. shared \subseteq shared' /\ stale \subseteq stale'
  BY OutdatesFacts DEF ListStep, Quiet, Reads, RouteReads, Drops, Appends, Puts
<1>4. \A q \in Retrier : job[q].pc # "idle" => job[q].run \in Run
  BY DEF Control, Begun
<1>5. ASSUME Puts(c, m), c \in Retrier, job[c].pc # "idle"
      PROVE  /\ \A r \in Run : r # job[c].run => last'[r] = last[r]
             /\ m.pc # "idle" => last'[job[c].run].steps[job[c].step] # "failed"
             /\ job[c].pc = "reset" /\ Busy(c) => job[c].run \in shared'
             /\ job[c].pc \in {"write", "reset"}
  <2>1. PICK status, steps :
          /\ last' = [last EXCEPT ![job[c].run] = Entry(job[c].run, status, steps)]
          /\ m.pc # "idle" => steps[job[c].step] # "failed"
    BY <1>5 DEF Puts, Wrote
  <2>2. job[c].run \in Run BY <1>4, <1>5
  <2>3. last'[job[c].run].steps = steps BY <2>1, <2>2 DEF Control, Entry
  <2>4. \A r \in Run : r # job[c].run => last'[r] = last[r] BY <2>1 DEF Control
  <2> QED BY <1>5, <2>1, <2>3, <2>4 DEF Puts
<1>6. ASSUME c \in Run
      PROVE  \A r \in Run \ {c} : last'[r] = last[r]
  <2>1. job[c].run = c BY <1>6 DEF Control, Fits, RunFits
  <2> QED BY <2>1 DEF ListStep, Quiet, Reads, RouteReads, Drops, Appends, Puts, Wrote, Control
<1>7. ASSUME NEW q \in Retrier, job'[q].pc \in Retrying, job'[q].run \notin shared' \cup stale'
      PROVE  Alone(q)'
  <2>1. CASE q = c /\ job[c].pc \in Retrying
    <3>1. m.run = job[c].run /\ m.step = job[c].step /\ m.pc # "idle"
      BY <1>1, <1>7, <2>1 DEF Moves, Retrying
    <3>2. Alone(c) BY <1>1, <1>3, <1>7, <2>1, <3>1 DEF OneRetry
    <3>3. job[c].run \in Run BY <1>4, <2>1 DEF Retrying
    <3>4. last'[job[c].run].steps[job[c].step] # "failed"
      <4>1. CASE last' = last BY <3>2, <4>1 DEF Alone
      <4>2. CASE Puts(c, m) BY <1>5, <2>1, <3>1, <4>2 DEF Retrying
      <4> QED BY <1>2, <2>1, <4>1, <4>2
          DEF ListStep, Quiet, Reads, RouteReads, Drops, Appends
    <3> QED BY <1>1, <1>2, <2>1, <3>1, <3>2, <3>3, <3>4 DEF Alone
  <2>2. CASE q = c /\ job[c].pc \notin Retrying
    <3>1. job[c].pc = "reset" /\ m.run = job[c].run /\ m.step = job[c].step /\ m.pc \in Retrying
      <4>1. job[c].pc # "idle" BY <1>1, <1>7, <2>2 DEF Moves, Retrying
      <4>2. RetryFits(job[c]) BY <2>2 DEF Control, Fits, Coroutine
      <4> QED BY <1>1, <1>7, <2>2, <4>1, <4>2 DEF Moves, Retrying, RetryFits, RetryPlaces
    <3>2. Puts(c, m)
      BY <1>2, <2>2, <3>1 DEF ListStep, Quiet, Reads, RouteReads, Drops, Appends, Copying, Holding, Retrying
    <3>3. ~Busy(c) /\ job[c].run \notin shared \cup stale
      BY <1>1, <1>3, <1>5, <1>7, <2>2, <3>1, <3>2
    <3>4. /\ job[job[c].run].pc \in {"done", "dead"} /\ job[c].run \in Run
          /\ \A p \in Retrier \ {c} : job[p].run = job[c].run /\ job[p].pc # "idle" =>
               job[p].step = job[c].step
      BY <1>4, <2>2, <3>1, <3>3 DEF Busy
    <3>5. ASSUME NEW p \in Retrier \ {c}, job[p].run = job[c].run, job[p].pc # "idle"
          PROVE  FALSE
      <4>1. job[p].pc \in RetryPlaces BY DEF Control, Fits, RetryFits, Coroutine
      <4>2. CASE job[p].pc = "reset"
        BY <1>2, <2>2, <3>1, <4>2 DEF Control, Holding
      <4>3. CASE job[p].pc # "reset"
        <5>1. job[p].pc \in Retrying BY <3>5, <4>1, <4>3 DEF Retrying, RetryPlaces
        <5>2. Alone(p) BY <3>3, <3>5, <5>1 DEF OneRetry
        <5> QED BY <2>2, <3>1, <3>4, <3>5, <5>2 DEF Alone
      <4> QED BY <4>2, <4>3
    <3>6. last'[job[c].run].steps[job[c].step] # "failed"
      BY <1>5, <2>2, <3>1, <3>2 DEF Retrying
    <3> QED BY <1>1, <1>2, <2>2, <3>1, <3>4, <3>5, <3>6 DEF Alone
  <2>3. CASE q # c
    <3>1. job'[q] = job[q] BY <1>1, <1>2, <2>3
    <3>2. Alone(q) BY <1>3, <1>7, <3>1 DEF OneRetry
    <3>3. job[q].run \in Run /\ job[q].pc # "idle" BY <1>4, <1>7, <3>1 DEF Retrying
    <3>4. job[q].run # c BY <3>2, <3>3 DEF Alone, Moves
    <3>5. ~(c \in Retrier /\ job[c].pc = "reset" /\ job[c].run = job[q].run
            /\ job[c].step # job[q].step /\ Puts(c, m))
      <4>1. SUFFICES ASSUME c \in Retrier, job[c].pc = "reset", job[c].run = job[q].run,
                            job[c].step # job[q].step, Puts(c, m)
                     PROVE  FALSE
        OBVIOUS
      <4>2. Busy(c) BY <2>3, <3>3, <4>1 DEF Busy
      <4> QED BY <1>5, <1>7, <3>1, <4>1, <4>2
    <3>6. last'[job[q].run].steps[job[q].step] # "failed"
      <4>1. last[job[q].run].steps[job[q].step] # "failed" BY <3>2 DEF Alone
      <4>2. CASE c \in Run BY <1>6, <3>3, <3>4, <4>1, <4>2
      <4>3. CASE last' = last BY <4>1, <4>3
      <4>4. CASE Puts(c, m) /\ c \in Retrier
        <5>1. job[c].pc \in {"write", "reset"} BY <4>4 DEF Puts
        <5>2. job[c].run = job[q].run => job[c].pc = "reset" /\ job[c].step # job[q].step
          BY <2>3, <3>2, <4>4, <5>1 DEF Alone
        <5>3. job[c].run # job[q].run BY <3>5, <4>4, <5>2
        <5> QED BY <1>5, <3>3, <4>1, <4>4, <5>1, <5>3
      <4> QED BY <4>2, <4>3, <4>4 DEF ListStep, Quiet, Reads, RouteReads, Drops, Appends, Coroutine
    <3>7. ASSUME NEW p \in Retrier \ {q}, job'[p].pc # "idle", job'[p].run = job[q].run
          PROVE  job'[p].pc = "reset" /\ job'[p].step # job[q].step
      <4>1. CASE p # c BY <1>1, <1>2, <3>2, <3>7, <4>1 DEF Alone
      <4>2. CASE p = c /\ job[c].pc = "idle"
        <5>1. m.pc = "reset" BY <3>7, <4>2 DEF Moves
        <5>2. m.list = list
          BY <1>2, <3>7, <4>2, <5>1
          DEF ListStep, Quiet, Reads, RouteReads, Drops, Appends, Puts, Copying, Holding
        <5>3. RetryFits(m) BY <3>7, <4>2 DEF Moves, Fits
        <5>4. /\ m.run \in Runs(list) /\ m.run = job[q].run
              /\ Find(list, m.run).steps[m.step] = "failed"
          BY <1>1, <3>7, <4>2, <5>1, <5>2, <5>3 DEF RetryFits
        <5>5. m.run \notin stale BY <1>3, <1>7, <3>1, <5>4
        <5>6. Find(list, m.run) = last[m.run]
          <6>1. Has(list, m.run) BY <5>4, HasRuns
          <6> QED BY <5>5, <6>1, FoundEntry
        <5> QED BY <1>1, <3>2, <4>2, <5>1, <5>4, <5>6 DEF Alone
      <4>3. CASE p = c /\ job[c].pc # "idle"
        <5>1. /\ m.pc \in Retrying /\ m.run = job[c].run /\ m.step = job[c].step
          BY <1>1, <3>7, <4>3 DEF Moves
        <5>2. job[c].pc = "reset" /\ job[c].run = job[q].run /\ job[c].step # job[q].step
          BY <1>1, <2>3, <3>2, <3>7, <4>3, <5>1 DEF Alone
        <5>3. Puts(c, m)
          BY <1>2, <3>7, <4>3, <5>1, <5>2
          DEF ListStep, Quiet, Reads, RouteReads, Drops, Appends, Copying, Holding, Retrying
        <5> QED BY <3>5, <3>7, <4>3, <5>2, <5>3
      <4> QED BY <4>1, <4>2, <4>3
    <3>8. job'[job[q].run].pc \in {"done", "dead"}
      BY <1>1, <1>2, <3>2, <3>3, <3>4 DEF Alone
    <3> QED BY <3>1, <3>6, <3>7, <3>8 DEF Alone
  <2> QED BY <2>1, <2>2, <2>3
<1> QED BY <1>7 DEF OneRetry

-----------------------------------------------------------------------------
(* The deletion and the restart *)

\* What does not touch the list leaves alone all but the index.
LEMMA Untouched ==
  ASSUME Control, Shown, Copies, OneRetry, UNCHANGED <<list, lock, job, last, stale, shared>>
  PROVE  Control' /\ Shown' /\ Copies' /\ OneRetry'
<1>1. Begun' = Begun BY DEF Begun
<1>2. Control' BY <1>1 DEF Control
<1>3. Shown' BY <1>1 DEF Shown
<1>4. Copies' BY DEF Copies, At
<1>5. OneRetry'
  <2>1. \A q \in Retrier : Alone(q)' <=> Alone(q) BY DEF Alone
  <2> QED BY <2>1 DEF OneRetry
<1> QED BY <1>2, <1>3, <1>4, <1>5

LEMMA DeletionKeeps ==
  ASSUME IInv, Deletion
  PROVE  IInv'
<1>1. CASE DeleteRuns
  <2>1. /\ list' = <<>> /\ Outdates(None, {})
        /\ UNCHANGED <<exists, index, lock, job, neighbour, last, crowded, shared>>
    BY <1>1 DEF DeleteRuns
  <2>2. stale \subseteq stale' BY <2>1, OutdatesFacts
  <2>3. Begun' = Begun BY <2>1 DEF Begun
  <2>4. Control' BY <2>1, <2>3 DEF IInv, Control
  <2>5. Shown'
    <3>1. Shows(list, Begun, stale, last)' BY <2>1, EmptyShows
    <3>2. ASSUME NEW c \in Coroutine PROVE Shows(job[c].list, Begun, stale, last)'
      <4>1. Shows(job[c].list, Begun, stale, last) BY DEF IInv, Shown
      <4> QED BY <2>1, <2>2, <2>3, <4>1, ShowsKept
    <3> QED BY <3>1, <3>2 DEF Shown
  <2>6. Copies'
    <3>1. ASSUME NEW d \in Run, At(d, "append") PROVE Runs(job[d].list) \subseteq stale'
      <4>1. Runs(job[d].list) \subseteq Runs(list) \cup stale BY <3>1 DEF IInv, Copies
      <4>2. Runs(job[d].list) \subseteq Run BY DEF IInv, Shown, Shows, Begun, Coroutine
      <4>3. d \in Run \ {None} BY RunsAssumption DEF Coroutine
      <4>4. \A x \in Run : x \in Runs(list) => x \in Runs(list') \cup stale'
        BY <2>1, <3>1, <4>3, OutdatesFacts
      <4> QED BY <2>1, <2>2, <4>1, <4>2, <4>4, EmptyFacts
    <3>2. \A r \in Run : At(r, "ensure_append") => r \notin Runs(job[r].list)
      BY DEF IInv, Copies
    <3>3. \A c \in Coroutine : At(c, "write") =>
            \A d \in Run : At(d, "append") /\ job[c].run \in Runs(job[d].list) =>
              job[c].run \in Runs(job[c].list) \cup stale
      BY DEF IInv, Copies
    <3> QED BY <2>1, <2>2, <3>1, <3>2, <3>3, EmptyFacts DEF Copies, At
  <2>7. Found' BY <1>1, <2>1 DEF IInv, Found, DeleteRuns
  <2>8. OneRetry'
    <3>1. \A q \in Retrier : Alone(q)' <=> Alone(q) BY <2>1 DEF Alone
    <3> QED BY <2>1, <2>2, <3>1 DEF IInv, OneRetry
  <2> QED BY <2>4, <2>5, <2>6, <2>7, <2>8 DEF IInv
<1>2. CASE DeleteWorkflow \/ DeleteWriteIndex
  <2>1. UNCHANGED <<list, lock, job, last, stale, shared>>
    BY <1>2 DEF DeleteWorkflow, DeleteWriteIndex, stored, history
  <2>2. Control' /\ Shown' /\ Copies' /\ OneRetry'
    BY <2>1, Untouched DEF IInv
  <2>3. CASE DeleteWorkflow
    BY <2>2, <2>3 DEF IInv, Found, DeleteWorkflow
  <2>4. CASE DeleteWriteIndex
    BY <2>1, <2>2, <2>4 DEF IInv, Found, DeleteWriteIndex, history
  <2> QED BY <1>2, <2>2, <2>3, <2>4 DEF IInv
<1> QED BY <1>1, <1>2 DEF Deletion

\* A start or a deletion of another workflow changes the index only.
LEMMA NeighbourKeeps ==
  ASSUME IInv, NEW n \in Neighbour, NeighbourReadIndex(n) \/ NeighbourWriteIndex(n)
  PROVE  IInv'
<1> DEFINE Reading == {"route_index", "engine_index"}
           Copied(x) == \A k \in Neighbour :
                          neighbour[k].pc = "write_index" => x \in neighbour[k].index
<1>1. UNCHANGED <<list, lock, job, last, stale, shared>>
  BY DEF NeighbourReadIndex, NeighbourWriteIndex, stored, history
<1>2. Control' /\ Shown' /\ Copies' /\ OneRetry' BY <1>1, Untouched DEF IInv
<1>3. exists' = exists /\ deletion' = deletion
  BY DEF NeighbourReadIndex, NeighbourWriteIndex
<1>4. neighbour = [k \in Neighbour |-> neighbour[k]] BY DEF IInv, Found
<1>5. exists => \A x \in Run \ crowded : job[x].pc \in Past =>
        x \in index /\ Copied(x) /\ \A d \in Run : job[d].pc \in Reading => x \in job[d].index
  BY DEF IInv, Found
<1>6. CASE NeighbourReadIndex(n)
  <2>1. index' = index /\ crowded' = crowded BY <1>6 DEF NeighbourReadIndex, stored, history
  <2>2. neighbour' = [neighbour EXCEPT ![n] = [pc |-> "write_index", index |-> index]]
    BY <1>6 DEF NeighbourReadIndex
  <2>3. /\ neighbour' = [k \in Neighbour |-> neighbour'[k]]
        /\ \A x \in index : Copied(x) => Copied(x)'
    BY <1>4, <2>2
  <2>4. Found' BY <1>1, <1>3, <1>5, <2>1, <2>3 DEF IInv, Found
  <2> QED BY <1>2, <2>4 DEF IInv
<1>7. CASE NeighbourWriteIndex(n)
  <2>1. /\ neighbour[n].pc = "write_index" /\ index' = neighbour[n].index
        /\ crowded' = {x \in crowded : x \notin index' \/ x \in MissedBy(n)}
    BY <1>7 DEF NeighbourWriteIndex, Crowds
  <2>2. neighbour' = [neighbour EXCEPT ![n] = [pc |-> "idle", index |-> {}]]
    BY <1>7 DEF NeighbourWriteIndex
  <2>3. /\ neighbour' = [k \in Neighbour |-> neighbour'[k]] /\ neighbour'[n].pc = "idle"
        /\ \A k \in Neighbour \ {n} : neighbour'[k] = neighbour[k]
    BY <1>4, <2>2
  <2>4. ASSUME exists, NEW x \in Run \ crowded', job[x].pc \in Past
        PROVE  /\ x \in index' /\ Copied(x)'
               /\ \A d \in Run : job[d].pc \in Reading => x \in job[d].index
    <3>1. CASE x \notin crowded BY <1>5, <2>1, <2>3, <2>4, <3>1
    <3>2. CASE x \in crowded
      <4>1. x \in index' /\ x \notin MissedBy(n) BY <2>1, <2>4, <3>2
      <4>2. /\ \A d \in Run : job[d].pc \in Reading => x \in job[d].index
            /\ \A k \in Neighbour \ {n} : neighbour[k].pc = "write_index" => x \in neighbour[k].index
        BY <4>1, RunsAssumption DEF MissedBy
      <4> QED BY <2>3, <4>1, <4>2
    <3> QED BY <3>1, <3>2
  <2>5. Found' BY <1>1, <1>3, <2>3, <2>4 DEF IInv, Found
  <2> QED BY <1>2, <2>5 DEF IInv
<1> QED BY <1>6, <1>7

LEMMA RestartKeeps ==
  ASSUME IInv, NEW old \in SUBSET Run, Restart(old)
  PROVE  IInv'
<1> DEFINE Swept(steps) == IF steps = NoSteps THEN NoSteps
                           ELSE [s \in Step |-> IF steps[s] = "running" THEN "interrupted" ELSE steps[s]]
           Sweep(e) == IF e.run \in old /\ e.status = "running"
                       THEN Entry(e.run, "interrupted", Swept(e.steps)) ELSE e
<1>1. /\ lock' = None
      /\ job' = [c \in Coroutine |-> IF c \notin Run THEN Idle
                                     ELSE IF At(c, "idle") \/ At(c, "done") THEN job[c]
                                     ELSE [Of(c) EXCEPT !.pc = "dead"]]
      /\ deletion' = IF deletion = "idle" THEN "idle" ELSE "done"
      /\ neighbour' = [n \in Neighbour |-> [pc |-> "idle", index |-> {}]]
      /\ list' = [i \in DOMAIN list |-> Sweep(list[i])]
      /\ last' = [r \in Run |-> IF Has(list, r) THEN Sweep(last[r]) ELSE last[r]]
      /\ stale' = {x \in stale : \E i \in Position(list, x) : list[i] # last[x]}
      /\ crowded' = crowded \ index
      /\ UNCHANGED <<exists, index, shared>>
  BY DEF Restart
<1>2. \A e : /\ Sweep(e).run = e.run
             /\ e.steps = NoSteps \/ DOMAIN e.steps = Step =>
                  Sweep(e).steps = NoSteps \/ DOMAIN Sweep(e).steps = Step
  BY DEF Entry
<1> HIDE DEF Sweep
<1>3. Run \subseteq Coroutine /\ Run \cap Retrier = {} /\ Coroutine = Run \cup Retrier /\ None \notin Coroutine
  BY RunsAssumption DEF Coroutine
<1>4. ASSUME NEW c \in Coroutine
      PROVE  /\ Fits(c, job'[c]) /\ job'[c].list = <<>> /\ job'[c].pc \in {"idle", "done", "dead"}
             /\ c \in Retrier => job'[c].pc = "idle"
             /\ c \in Run => /\ job'[c].pc = "done" => job[c].pc = "done"
                             /\ job'[c].pc = "idle" => job[c].pc = "idle"
  <2>1. CASE c \notin Run
    <3>1. job'[c] = Idle BY <1>1, <2>1
    <3> QED BY <1>3, <2>1, <3>1, IdleFacts, EmptyFacts
        DEF Fits, RetryFits, Updating, RetryPlaces, Copying, Holding
  <2>2. CASE c \in Run /\ (At(c, "idle") \/ At(c, "done"))
    <3>1. job'[c] = job[c] BY <1>1, <2>2
    <3>2. Fits(c, job[c]) BY DEF IInv, Control
    <3> QED BY <1>3, <2>2, <3>1, <3>2 DEF Fits, At, Copying, Holding
  <2>3. CASE c \in Run /\ ~(At(c, "idle") \/ At(c, "done"))
    <3>1. job'[c] = [Of(c) EXCEPT !.pc = "dead"] BY <1>1, <2>3
    <3>2. /\ IsJob(job'[c]) /\ job'[c].pc = "dead" /\ job'[c].run = c /\ job'[c].list = <<>>
      BY <3>1, IdleFacts
    <3> QED BY <1>3, <2>3, <3>2, EmptyFacts
        DEF Fits, RunFits, Updating, RunPlaces, Copying, Holding
  <2> QED BY <2>1, <2>2, <2>3
<1>5. Begun \subseteq Begun'
  <2>1. ASSUME NEW r \in Run, job[r].pc \notin Fresh PROVE job'[r].pc \notin Fresh
    BY <1>3, <1>4, <2>1 DEF Fresh
  <2> QED BY <2>1 DEF Begun
<1>6. Control'
  <2>1. job' = [c \in Coroutine |-> job'[c]] BY <1>1
  <2>2. last' = [r \in Run |-> last'[r]] BY <1>1
  <2>3. \A c \in Coroutine : job'[c].pc \in Holding <=> lock' = c
    BY <1>1, <1>3, <1>4 DEF Holding
  <2> QED BY <1>3, <1>4, <2>1, <2>2, <2>3 DEF Control
<1>7. Shown'
  <2>1. ASSUME NEW c \in Coroutine PROVE Shows(job[c].list, Begun, stale, last)'
    BY <1>4, EmptyShows
  <2>2. Shows(list, Begun, stale, last) BY DEF IInv, Shown
  <2>3. \A i \in DOMAIN list : list'[i] = Sweep(list[i]) BY <1>1
  <2>4. DOMAIN list' = DOMAIN list /\ IsSeq(list')
    <3>1. list' = [i \in 1..Len(list) |-> list'[i]] /\ DOMAIN list' = DOMAIN list /\ Len(list) \in Nat
      BY <1>1, <2>2, SeqElim DEF Shows
    <3> QED BY <3>1, SeqIntro
  <2>5. Runs(list') = Runs(list) BY <1>2, <2>3, <2>4 DEF Runs, Elems
  <2>6. ASSUME NEW f \in Elems(list')
        PROVE  /\ f.steps = NoSteps \/ DOMAIN f.steps = Step
               /\ f.run \notin stale' => f = last'[f.run]
    <3>1. PICK i \in DOMAIN list : f = Sweep(list[i]) BY <2>3, <2>4 DEF Elems
    <3>2. list[i] \in Elems(list) /\ list[i].run = f.run BY <1>2, <3>1 DEF Elems
    <3>3. f.run \in Runs(list) /\ f.run \in Run BY <2>2, <3>2 DEF Runs, Shows, Begun
    <3>4. f.steps = NoSteps \/ DOMAIN f.steps = Step BY <1>2, <2>2, <3>1, <3>2 DEF Shows
    <3>5. ASSUME f.run \notin stale' PROVE f = last'[f.run]
      <4>1. list[i] = last[f.run]
        <5>1. CASE f.run \in stale BY <1>1, <3>2, <3>5, <5>1 DEF Position
        <5>2. CASE f.run \notin stale BY <2>2, <3>2, <5>2 DEF Shows
        <5> QED BY <5>1, <5>2
      <4>2. last'[f.run] = Sweep(last[f.run])
        <5>1. Has(list, f.run) BY <3>3, HasRuns
        <5> QED BY <1>1, <3>3, <5>1
      <4> QED BY <3>1, <4>1, <4>2
    <3> QED BY <3>4, <3>5
  <2>7. Runs(list') \subseteq Begun' BY <1>5, <2>2, <2>5 DEF Shows
  <2>8. Shows(list, Begun, stale, last)' BY <2>4, <2>6, <2>7 DEF Shows
  <2> QED BY <2>1, <2>8 DEF Shown
<1>8. Copies' BY <1>3, <1>4 DEF Copies, At
<1>9. Found'
  <2>1. ASSUME exists, NEW r \in Run \ crowded', job'[r].pc \in Past PROVE r \in index'
    <3>1. job[r].pc = "done" BY <1>3, <1>4, <2>1 DEF Past
    <3>2. r \notin crowded \/ r \in index BY <1>1, <2>1
    <3> QED BY <1>1, <2>1, <3>1, <3>2 DEF IInv, Found, Past
  <2>2. \A d \in Run : job'[d].pc \notin {"route_index", "engine_index"} BY <1>3, <1>4
  <2>3. deletion' \in {"idle", "done"} BY <1>1
  <2>4. /\ neighbour' = [n \in Neighbour |-> neighbour'[n]]
        /\ \A n \in Neighbour : neighbour'[n].pc = "idle"
    BY <1>1
  <2> QED BY <1>1, <2>1, <2>2, <2>3, <2>4 DEF Found
<1>10. OneRetry' BY <1>3, <1>4 DEF OneRetry, Retrying
<1> QED BY <1>6, <1>7, <1>8, <1>9, <1>10 DEF IInv

-----------------------------------------------------------------------------

LEMMA InitIInv == Init => IInv
<1> SUFFICES ASSUME Init PROVE IInv OBVIOUS
<1>1. /\ list = <<>> /\ lock = None /\ deletion = "idle"
      /\ job = [c \in Coroutine |-> IF c \in Run THEN Of(c) ELSE Idle]
      /\ last = [r \in Run |-> Entry(r, None, NoSteps)]
      /\ neighbour = [n \in Neighbour |-> [pc |-> "idle", index |-> {}]]
  BY DEF Init
<1>2. \A c \in Coroutine : /\ job[c].pc = "idle" /\ job[c].list = <<>> /\ IsJob(job[c])
                           /\ c \in Run => job[c].run = c
  BY <1>1, IdleFacts
<1>3. Run \cap Retrier = {} /\ Run \subseteq Coroutine /\ Retrier \subseteq Coroutine /\ None \notin Coroutine
  BY RunsAssumption DEF Coroutine
<1>4. \A c \in Coroutine : Fits(c, job[c])
  BY <1>2, <1>3, EmptyFacts
  DEF Fits, RunFits, RetryFits, Updating, RunPlaces, RetryPlaces, Copying, Holding
<1>5. Control
  <2>1. \A c \in Coroutine : job[c].pc \in Holding <=> lock = c BY <1>1, <1>2, <1>3 DEF Holding
  <2>2. \A q \in Retrier : job[q].pc = "idle" BY <1>2, <1>3
  <2>3. job = [c \in Coroutine |-> job[c]] /\ last = [r \in Run |-> last[r]] BY <1>1
  <2> QED BY <1>4, <2>1, <2>2, <2>3 DEF Control
<1>6. Shown BY <1>1, <1>2, EmptyShows DEF Shown
<1>7. Copies BY <1>2, <1>3 DEF Copies, At
<1>8. Found BY <1>1, <1>2, <1>3 DEF Found, Past
<1>9. OneRetry BY <1>2, <1>3 DEF OneRetry, Retrying
<1> QED BY <1>5, <1>6, <1>7, <1>8, <1>9 DEF IInv

LEMMA IInvKept == IInv /\ [Next]_vars => IInv'
<1> SUFFICES ASSUME IInv, [Next]_vars PROVE IInv' OBVIOUS
<1>1. CASE \E c \in Coroutine : \E m : Moves(c, m) /\ ListStep(c, m) /\ IndexStep(c, m)
  BY <1>1, ControlKept, ShownKept, FoundKept, OneRetryKept DEF IInv
<1>2. CASE Deletion BY <1>2, DeletionKeeps
<1>3. CASE \E old \in SUBSET Run : Restart(old) BY <1>3, RestartKeeps
<1>5. CASE \E n \in Neighbour : NeighbourReadIndex(n) \/ NeighbourWriteIndex(n)
  BY <1>5, NeighbourKeeps
<1>4. CASE UNCHANGED vars
  <2>1. /\ UNCHANGED <<list, lock, job, last, stale, shared>>
        /\ UNCHANGED <<exists, index, job, deletion, neighbour, crowded>>
    BY <1>4 DEF vars
  <2>2. Control' /\ Shown' /\ Copies' /\ OneRetry' BY <2>1, Untouched DEF IInv
  <2>3. Found' BY <2>1 DEF IInv, Found
  <2> QED BY <2>2, <2>3 DEF IInv
<1> QED BY <1>1, <1>2, <1>3, <1>4, <1>5, Steps DEF IInv

LEMMA Invariance == Spec => []IInv
BY InitIInv, IInvKept, PTL DEF Spec

\* Whatever the runs, retries, deletions and restarts do at once, the list
\* shows of a run what that run wrote last (_update_run and
\* _ensure_run_entry read and write it under the workflow's lock): only the
\* run route, which does without the lock, brings back an older entry.
THEOREM OwnUpdatesShown == Spec => []ShowsOwnUpdates
<1>1. ASSUME IInv PROVE ShowsOwnUpdates
  BY <1>1, FoundEntry DEF IInv, ShowsOwnUpdates
<1> QED BY <1>1, Invariance, PTL

\* Two requests of retry_workflow_step never have the same step of a run
\* executed at once, unless another coroutine of the run was at work when a
\* step of it was reset, or the run route wrote an older entry back.
THEOREM RetriesExclusive == Spec => []OneRetryPerStep
<1>1. ASSUME IInv PROVE OneRetryPerStep
  <2>1. SUFFICES ASSUME NEW p \in Retrier, NEW q \in Retrier, p # q,
                        job[p].run = job[q].run, job[p].step = job[q].step,
                        job[p].pc # "idle", job[q].pc # "idle",
                        job[p].run \notin shared \cup stale
                 PROVE  FALSE
    BY DEF OneRetryPerStep, At
  <2>2. p \in Coroutine /\ q \in Coroutine /\ p \notin Run /\ q \notin Run
    BY RunsAssumption DEF Coroutine
  <2>3. job[p].pc \in RetryPlaces /\ job[q].pc \in RetryPlaces
    BY <1>1, <2>2 DEF IInv, Control, Fits, RetryFits
  <2>4. CASE job[p].pc \in Retrying
    <3>1. Alone(p) BY <1>1, <2>1, <2>4 DEF IInv, OneRetry
    <3> QED BY <2>1, <3>1 DEF Alone
  <2>5. CASE job[q].pc \in Retrying
    <3>1. Alone(q) BY <1>1, <2>1, <2>5 DEF IInv, OneRetry
    <3> QED BY <2>1, <3>1 DEF Alone
  <2>6. CASE job[p].pc = "reset" /\ job[q].pc = "reset"
    BY <1>1, <2>1, <2>2, <2>6 DEF IInv, Control, Holding
  <2> QED BY <2>1, <2>3, <2>4, <2>5, <2>6 DEF RetryPlaces, Retrying
<1> QED BY <1>1, Invariance, PTL

\* A run that has got past _set_run_index is found by its id (get_run,
\* the run routes) as long as its workflow exists, unless it was put in the
\* index while another writer of the tenant's index was between its read and
\* its write: another start, or a start or deletion of another workflow.
THEOREM RunsFindable == Spec => []Findable
<1>1. ASSUME IInv PROVE Findable
  BY <1>1 DEF IInv, Found, Findable, Past
<1> QED BY <1>1, Invariance, PTL

=============================================================================
