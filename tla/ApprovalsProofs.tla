--------------------------- MODULE ApprovalsProofs ---------------------------
(***************************************************************************)
(* For every number of sessions, runs, requests and batches: a Telegram    *)
(* confirmation drives the graph from the very batch whose button was      *)
(* pressed (ConfirmedStep).  The argument: the session's lock makes the    *)
(* driver of a graph unique (Locked, Driven), and as long as an approval   *)
(* is open, that is its button was not pressed or the request that carries *)
(* it has not resumed, nobody drives the graph it belongs to (Untouched).  *)
(* And: an approval the user has seen keeps its graph (Servable) and is    *)
(* not replaced by another run's (Replaced).  The argument: outside the    *)
(* few steps that write the key and the graph apart, and unless a fault    *)
(* has parted them, the one is the key of the other (Pairs).               *)
(***************************************************************************)
EXTENDS Approvals, TLAPS

HoldsSession == Driving \cup {"check", "drop", "erase"}
Asks == {"look", "glock", "slock", "check"}

\* The session's lock is held by who drives, checks, drops or erases.
Locked == \A w \in Workers: pc[w] \in HoldsSession => slock[Sess(w)] = w

\* Who drives, drives a run of its session; a resume one that has returned.
Driven == \A w \in Workers: pc[w] \in Driving =>
    /\ Drives(w) \in Runs /\ SessionOf[Drives(w)] = Sess(w)
    /\ w \in Requests => pc[Drives(w)] = "done"

\* Where a batch is decided on, the graph is interrupted before its tools.
Interrupted == \A w \in Workers: pc[w] \in {"decide", "write", "set"} =>
    Here(Drives(w)) \in Approval /\ graph[Drives(w)].at = "tools"

\* Between the key and the kept graph, the key is not another's.
Written == \A w \in Workers: pc[w] = "set" =>
    key[Sess(w)] \in {None, Here(Drives(w))}

\* A kept graph belongs to the session and its run has returned.
Kept == \A s \in Sessions: paused[s] # None =>
    SessionOf[paused[s]] = s /\ pc[paused[s]] = "done"

\* A request that has not been decided drives nothing, carries an approval of
\* its session, and resumes without one only where there are no buttons.
Addressed == \A q \in Requests: pc[q] \in Asks =>
    /\ call[q].drives = None
    /\ call[q].id # None => SessionOf[call[q].id[1]] = Sess(q)
    /\ call[q].kind = "resume" /\ call[q].id = None => channel[Sess(q)] # "telegram"

Carries(q, a) == pc[q] \in Asks /\ call[q].id = a
Open(a) == a \in buttons \/ \E q \in Requests: Carries(q, a)

\* The graph of an open approval is where it was when the user was asked.
Untouched == \A a \in Approval: Open(a) =>
    /\ channel[SessionOf[a[1]]] = "telegram"
    /\ pc[a[1]] = "done"
    /\ Here(a[1]) = a /\ graph[a[1]].at = "tools"
    /\ \A w \in Workers: pc[w] \in Driving => Drives(w) # a[1]
    /\ key[SessionOf[a[1]]] = a => paused[SessionOf[a[1]]] \in {None, a[1]}

\* A button is pressed once.
Once == \A a \in Approval: \A q \in Requests: Carries(q, a) =>
    /\ a \notin buttons
    /\ \A p \in Requests: Carries(p, a) => p = q

Control == Locked /\ Driven /\ Interrupted
Keys == Written /\ Kept
Approved == Addressed /\ Untouched /\ Once
Inv == TypeOK /\ Control /\ Keys /\ Approved

\* What a step may lose: keys expire or are deleted, kept graphs are dropped.
KeysLost == \A s \in Sessions: key'[s] \in {key[s], None}
KeptLost == \A s \in Sessions: paused'[s] \in {paused[s], None}

USE SessionAssumption, BoundAssumption, NamesDistinct

LEMMA ApprovalFacts ==
  /\ \A a \in Approval: a[1] \in Runs /\ a = <<a[1], a[2]>> /\ a # None
  /\ \A r \in Runs: r \in Workers /\ r # None /\ r \notin Requests
  /\ \A q \in Requests: q \in Workers /\ q \notin Runs
  /\ \A w \in Workers: w # None /\ Sess(w) \in Sessions
  /\ \A a \in Approval: SessionOf[a[1]] \in Sessions
<1>1. \A a \in Approval: a \in Runs \X Nat /\ a # None
  <2> SUFFICES ASSUME NEW r \in Runs, NEW a \in {r} \X (1..MaxBatches[r])
               PROVE a \in Runs \X Nat
    BY DEF Approval
  <2> QED OBVIOUS
<1> QED BY <1>1 DEF Workers, Sess

\* A worker moves on, its call unchanged or over, and nobody begins to drive
\* but a run itself.
LEMMA WalkKeeps ==
  ASSUME Inv, NEW w \in Workers, NEW l, pc[w] # "done", Goto(w, l),
         UNCHANGED <<channel, graph, buttons>>, KeysLost, KeptLost,
         l \notin {"decide", "write", "set"},
         l \in Driving => pc[w] \in Driving \/ w \in Runs,
         l \in HoldsSession => slock'[Sess(w)] = w,
         \A v \in Workers \ {w}: slock[Sess(v)] = v => slock'[Sess(v)] = v,
         \A q \in Requests: q # w => call'[q] = call[q],
         w \in Requests /\ l \in Driving => call'[w] = call[w],
         w \in Requests /\ l \in Asks => pc[w] \in Asks /\ call'[w] = call[w]
  PROVE  (Control /\ Keys /\ Approved)'
<1>1. /\ pc'[w] = l
      /\ \A v \in Workers: v # w => pc'[v] = pc[v]
  BY DEF Goto, Inv, TypeOK
<1>2. /\ \A v \in Workers: v # w => Drives(v)' = Drives(v)
      /\ l \in Driving => Drives(w)' = Drives(w)
  BY ApprovalFacts DEF Drives, Workers
<1>3. \A r: Here(r)' = Here(r) BY DEF Here
<1>4. Locked' BY <1>1 DEF Inv, Control, Locked, Sess
<1>5. Driven'
  <2> SUFFICES ASSUME NEW v \in Workers, pc'[v] \in Driving
               PROVE /\ Drives(v)' \in Runs /\ SessionOf[Drives(v)'] = Sess(v)
                     /\ v \in Requests => pc'[Drives(v)'] = "done"
    BY DEF Driven, Sess
  <2>1. CASE v # w
    BY <2>1, <1>1, <1>2, ApprovalFacts DEF Inv, Control, Driven
  <2>2. CASE v = w /\ pc[w] \in Driving
    BY <2>2, <1>1, <1>2, ApprovalFacts DEF Inv, Control, Driven
  <2>3. CASE v = w /\ w \in Runs
    BY <2>3, <1>1, <1>2, ApprovalFacts DEF Drives, Sess
  <2> QED BY <2>1, <2>2, <2>3, <1>1
<1>6. Interrupted'
  BY <1>1, <1>2, <1>3 DEF Inv, Control, Interrupted
<1>7. Written'
  BY <1>1, <1>2, <1>3, ApprovalFacts DEF Inv, Keys, Written, KeysLost, Sess
<1>8. Kept'
  BY <1>1, ApprovalFacts DEF Inv, Keys, Kept, KeptLost, TypeOK
<1>9. Addressed'
  BY <1>1, ApprovalFacts DEF Inv, Approved, Addressed, Sess
<1>10. \A q \in Requests, a \in Approval: Carries(q, a)' => Carries(q, a)
  BY <1>1, ApprovalFacts DEF Carries
<1>11. Once' BY <1>10 DEF Inv, Approved, Once
<1>12. Untouched'
  <2> SUFFICES ASSUME NEW a \in Approval, Open(a)'
               PROVE /\ channel[SessionOf[a[1]]] = "telegram"
                     /\ pc'[a[1]] = "done"
                     /\ Here(a[1]) = a /\ graph[a[1]].at = "tools"
                     /\ \A v \in Workers: pc'[v] \in Driving => Drives(v)' # a[1]
                     /\ key'[SessionOf[a[1]]] = a => paused'[SessionOf[a[1]]] \in {None, a[1]}
    BY <1>3 DEF Untouched
  <2>1. Open(a) BY <1>10 DEF Open
  <2>2. /\ channel[SessionOf[a[1]]] = "telegram"
        /\ pc[a[1]] = "done" /\ a[1] # w
        /\ Here(a[1]) = a /\ graph[a[1]].at = "tools"
        /\ \A v \in Workers: pc[v] \in Driving => Drives(v) # a[1]
        /\ key[SessionOf[a[1]]] = a => paused[SessionOf[a[1]]] \in {None, a[1]}
    BY <2>1 DEF Inv, Approved, Untouched
  <2>3. pc'[a[1]] = "done" BY <2>2, <1>1, ApprovalFacts
  <2>4. \A v \in Workers: pc'[v] \in Driving => Drives(v)' # a[1]
    <3> SUFFICES ASSUME NEW v \in Workers, pc'[v] \in Driving PROVE Drives(v)' # a[1]
      OBVIOUS
    <3>1. CASE v # w BY <3>1, <2>2, <1>1, <1>2
    <3>2. CASE v = w /\ pc[w] \in Driving BY <3>2, <2>2, <1>1, <1>2
    <3>3. CASE v = w /\ w \in Runs BY <3>3, <2>2 DEF Drives
    <3> QED BY <3>1, <3>2, <3>3, <1>1
  <2>5. key'[SessionOf[a[1]]] = a => paused'[SessionOf[a[1]]] \in {None, a[1]}
    BY <2>2, ApprovalFacts DEF KeysLost, KeptLost
  <2> QED BY <2>2, <2>3, <2>4, <2>5
<1> QED BY <1>4, <1>5, <1>6, <1>7, <1>8, <1>9, <1>11, <1>12
        DEF Control, Keys, Approved

\* Nobody moves.
LEMMA StillKeeps ==
  ASSUME Inv, UNCHANGED <<channel, graph, buttons, pc, call, slock>>, KeysLost, KeptLost
  PROVE  (Control /\ Keys /\ Approved)'
<1>1. \A w: Drives(w)' = Drives(w) /\ Here(w)' = Here(w) BY DEF Drives, Here
<1>2. Control' BY <1>1 DEF Inv, Control, Locked, Driven, Interrupted, Sess
<1>3. Keys' BY <1>1, ApprovalFacts DEF Inv, Keys, Written, Kept, KeysLost, KeptLost, Sess, TypeOK
<1>4. \A a: Open(a)' <=> Open(a) BY DEF Open, Carries
<1>5. Untouched'
  BY <1>1, <1>4, ApprovalFacts DEF Inv, Approved, Untouched, KeysLost, KeptLost
<1>6. Addressed' /\ Once' BY DEF Inv, Approved, Addressed, Once, Carries, Sess
<1> QED BY <1>2, <1>3, <1>5, <1>6 DEF Approved

\* The driver of a graph takes it a step further.
LEMMA DriveKeeps ==
  ASSUME Inv, NEW w \in Workers, NEW l \in Driving, Goto(w, l), pc[w] \in Driving,
         UNCHANGED <<channel, buttons, call, slock, paused>>,
         \A r \in Runs: r # Drives(w) => graph'[r] = graph[r],
         \/ l # "set" /\ key' = key
         \/ l = "set" /\ graph' = graph /\ key' = [key EXCEPT ![Sess(w)] = Here(Drives(w))],
         l \in {"decide", "write", "set"} =>
           (Here(Drives(w)) \in Approval /\ graph[Drives(w)].at = "tools")'
  PROVE  (Control /\ Keys /\ Approved)'
<1> DEFINE x == Drives(w)
<1>1. /\ pc'[w] = l
      /\ \A v \in Workers: v # w => pc'[v] = pc[v]
      /\ pc[w] # "done" /\ l # "done" /\ pc[w] \notin Asks /\ l \notin Asks
  BY DEF Goto, Inv, TypeOK, Driving, Asks
<1>2. \A v: Drives(v)' = Drives(v) BY DEF Drives
<1>3. slock[Sess(w)] = w /\ x \in Runs /\ SessionOf[x] = Sess(w)
  BY DEF Inv, Control, Locked, Driven, HoldsSession
<1>4. \A v \in Workers: v # w /\ pc[v] \in Driving =>
        slock[Sess(v)] = v /\ Sess(v) # Sess(w) /\ Drives(v) \in Runs /\ Drives(v) # x
  BY <1>3 DEF Inv, Control, Locked, Driven, HoldsSession
<1>5. \A r \in Runs: r # x => Here(r)' = Here(r) /\ graph'[r] = graph[r] BY DEF Here
<1> HIDE DEF x
<1>6. Locked' BY <1>1 DEF Inv, Control, Locked, Sess, HoldsSession
<1>7. Driven' BY <1>1, <1>2, ApprovalFacts DEF Inv, Control, Driven, Sess
<1>8. Interrupted'
  <2> SUFFICES ASSUME NEW v \in Workers, pc'[v] \in {"decide", "write", "set"}
               PROVE (Here(Drives(v)) \in Approval /\ graph[Drives(v)].at = "tools")'
    BY DEF Interrupted
  <2>1. CASE v = w BY <2>1, <1>1
  <2>2. CASE v # w
    BY <2>2, <1>1, <1>2, <1>4, <1>5 DEF Inv, Control, Interrupted, Driving
  <2> QED BY <2>1, <2>2
<1>9. Written'
  <2> SUFFICES ASSUME NEW v \in Workers, pc'[v] = "set"
               PROVE key'[Sess(v)] \in {None, Here(Drives(v))'}
    BY DEF Written, Sess
  <2>1. CASE v = w
    BY <2>1, <1>1, <1>2, ApprovalFacts DEF Here, Inv, TypeOK
  <2>2. CASE v # w
    <3>1. pc[v] = "set" /\ Sess(v) # Sess(w) BY <2>2, <1>1, <1>4 DEF Driving
    <3>2. Here(Drives(v))' = Here(Drives(v)) BY <3>1, <2>2, <1>2, <1>4, <1>5 DEF Driving
    <3>3. key'[Sess(v)] = key[Sess(v)] BY <3>1, ApprovalFacts DEF Inv, TypeOK
    <3> QED BY <3>1, <3>2, <3>3 DEF Inv, Keys, Written
  <2> QED BY <2>1, <2>2
<1>10. Kept' BY <1>1, ApprovalFacts DEF Inv, Keys, Kept, TypeOK
<1>11. \A q \in Requests: pc'[q] \in Asks <=> pc[q] \in Asks
  BY <1>1, ApprovalFacts
<1>12. Addressed' BY <1>11 DEF Inv, Approved, Addressed, Sess
<1>13. \A q \in Requests: \A a: Carries(q, a)' <=> Carries(q, a) BY <1>11 DEF Carries
<1>14. Once' BY <1>13 DEF Inv, Approved, Once
<1>15. Untouched'
  <2> SUFFICES ASSUME NEW a \in Approval, Open(a)'
               PROVE /\ channel[SessionOf[a[1]]] = "telegram"
                     /\ pc'[a[1]] = "done"
                     /\ Here(a[1])' = a /\ graph'[a[1]].at = "tools"
                     /\ \A v \in Workers: pc'[v] \in Driving => Drives(v)' # a[1]
                     /\ key'[SessionOf[a[1]]] = a => paused'[SessionOf[a[1]]] \in {None, a[1]}
    BY DEF Untouched
  <2>1. Open(a) BY <1>13 DEF Open
  <2>2. /\ channel[SessionOf[a[1]]] = "telegram"
        /\ pc[a[1]] = "done" /\ a[1] # w
        /\ Here(a[1]) = a /\ graph[a[1]].at = "tools"
        /\ \A v \in Workers: pc[v] \in Driving => Drives(v) # a[1]
        /\ key[SessionOf[a[1]]] = a => paused[SessionOf[a[1]]] \in {None, a[1]}
    BY <2>1, <1>1 DEF Inv, Approved, Untouched
  <2>3. a[1] \in Runs /\ a[1] # x BY <2>2, ApprovalFacts DEF x
  <2>4. pc'[a[1]] = "done" BY <2>2, <1>1, ApprovalFacts
  <2>5. Here(a[1])' = a /\ graph'[a[1]].at = "tools" BY <2>2, <2>3, <1>5 DEF x
  <2>6. \A v \in Workers: pc'[v] \in Driving => Drives(v)' # a[1]
    BY <2>2, <1>1, <1>2
  <2>7. Here(x) # a BY <2>3, ApprovalFacts DEF Here
  <2>8. \A s \in Sessions: key'[s] = a => key[s] = a BY <2>7 DEF Inv, TypeOK, x
  <2>9. SessionOf[a[1]] \in Sessions BY ApprovalFacts
  <2> QED BY <2>2, <2>4, <2>5, <2>6, <2>8, <2>9
<1> QED BY <1>6, <1>7, <1>8, <1>9, <1>10, <1>12, <1>14, <1>15
        DEF Control, Keys, Approved

\* The approval reaches the user, and with it its button.
LEMMA PauseKeeps ==
  ASSUME Inv, NEW w \in Workers, SetPaused(w)
  PROVE  (Control /\ Keys /\ Approved)'
<1> DEFINE x == Drives(w)
           s == Sess(w)
<1>1. /\ pc[w] = "set" /\ pc'[w] = "done"
      /\ \A v \in Workers: v # w => pc'[v] = pc[v]
      /\ \A q \in Requests: q # w => call'[q] = call[q]
      /\ \A v \in Workers: v # w /\ slock[Sess(v)] = v => slock'[Sess(v)] = v
      /\ UNCHANGED <<channel, key, graph>>
  BY ApprovalFacts DEF SetPaused, Return, Goto, Release, Inv, TypeOK
<1>2. \A v \in Workers: v # w => Drives(v)' = Drives(v)
  BY <1>1, ApprovalFacts DEF Drives, Workers
<1>3. \A r: Here(r)' = Here(r) BY <1>1 DEF Here
<1>4. /\ slock[s] = w /\ x \in Runs /\ SessionOf[x] = s
      /\ w \in Requests => pc[x] = "done"
      /\ Here(x) \in Approval /\ graph[x].at = "tools"
      /\ key[s] \in {None, Here(x)}
  BY <1>1 DEF Inv, Control, Locked, Driven, Interrupted, Keys, Written, HoldsSession, Driving
<1>5. \A v \in Workers: v # w /\ pc[v] \in Driving => Drives(v) # x
  BY <1>4 DEF Inv, Control, Locked, Driven, HoldsSession
<1>6. pc'[x] = "done"
  BY <1>1, <1>4, ApprovalFacts DEF Drives, Workers
<1>7. /\ paused' = [paused EXCEPT ![s] = x]
      /\ buttons' = buttons \cup {a \in {Here(x)}: channel[s] = "telegram"}
  BY DEF SetPaused
<1>8. \A a \in Approval: Open(a) => a[1] # x
  BY <1>1 DEF Inv, Approved, Untouched, Driving
<1>9. Here(x)[1] = x BY DEF Here
<1> HIDE DEF x, s
<1>10. Locked' BY <1>1 DEF Inv, Control, Locked, Sess, HoldsSession, Driving
<1>11. Driven'
  <2> SUFFICES ASSUME NEW v \in Workers, pc'[v] \in Driving
               PROVE /\ Drives(v)' \in Runs /\ SessionOf[Drives(v)'] = Sess(v)
                     /\ v \in Requests => pc'[Drives(v)'] = "done"
    BY DEF Driven, Sess
  <2>1. v # w /\ pc[v] \in Driving BY <1>1 DEF Driving
  <2>2. /\ Drives(v) \in Runs /\ SessionOf[Drives(v)] = Sess(v)
        /\ v \in Requests => pc[Drives(v)] = "done"
    BY <2>1 DEF Inv, Control, Driven
  <2> QED BY <2>1, <2>2, <1>1, <1>2, ApprovalFacts
<1>12. Interrupted'
  BY <1>1, <1>2, <1>3 DEF Inv, Control, Interrupted
<1>13. Written' BY <1>1, <1>2, <1>3 DEF Inv, Keys, Written, Sess
<1>14. Kept'
  BY <1>1, <1>4, <1>6, <1>7, ApprovalFacts DEF Inv, Keys, Kept, TypeOK
<1>15. Addressed'
  BY <1>1, ApprovalFacts DEF Inv, Approved, Addressed, Sess, Asks
<1>16. \A q \in Requests: \A a: Carries(q, a)' => Carries(q, a)
  BY <1>1, ApprovalFacts DEF Carries, Asks
<1>17. Once'
  <2> SUFFICES ASSUME NEW a \in Approval, NEW q \in Requests, Carries(q, a)'
               PROVE a \notin buttons' /\ \A p \in Requests: Carries(p, a)' => p = q
    BY DEF Once
  <2>1. a \notin buttons /\ \A p \in Requests: Carries(p, a) => p = q
    BY <1>16 DEF Inv, Approved, Once
  <2>2. a # Here(x) BY <1>8, <1>9, <1>16 DEF Open
  <2> QED BY <2>1, <2>2, <1>7, <1>16
<1>18. Untouched'
  <2> SUFFICES ASSUME NEW a \in Approval, Open(a)'
               PROVE /\ channel[SessionOf[a[1]]] = "telegram"
                     /\ pc'[a[1]] = "done"
                     /\ Here(a[1]) = a /\ graph[a[1]].at = "tools"
                     /\ \A v \in Workers: pc'[v] \in Driving => Drives(v)' # a[1]
                     /\ key[SessionOf[a[1]]] = a => paused'[SessionOf[a[1]]] \in {None, a[1]}
    BY <1>1, <1>3 DEF Untouched
  <2>1. Open(a) \/ (a = Here(x) /\ channel[s] = "telegram") BY <1>7, <1>16 DEF Open
  <2>2. CASE Open(a)
    <3>1. /\ channel[SessionOf[a[1]]] = "telegram"
          /\ pc[a[1]] = "done" /\ a[1] # w
          /\ Here(a[1]) = a /\ graph[a[1]].at = "tools"
          /\ \A v \in Workers: pc[v] \in Driving => Drives(v) # a[1]
          /\ key[SessionOf[a[1]]] = a => paused[SessionOf[a[1]]] \in {None, a[1]}
      BY <2>2, <1>1 DEF Inv, Approved, Untouched
    <3>2. a # Here(x) /\ a # None BY <2>2, <1>8, <1>9, ApprovalFacts
    <3>3. key[SessionOf[a[1]]] = a => SessionOf[a[1]] # s BY <3>2, <1>4
    <3>4. \A v \in Workers: pc'[v] \in Driving => Drives(v)' # a[1]
      BY <3>1, <1>1, <1>2 DEF Driving
    <3>5. pc'[a[1]] = "done" BY <3>1, <1>1, ApprovalFacts
    <3> QED BY <3>1, <3>3, <3>4, <3>5, <1>7, ApprovalFacts DEF Inv, TypeOK
  <2>3. CASE a = Here(x) /\ channel[s] = "telegram"
    <3>1. a[1] = x BY <2>3, <1>9
    <3>2. \A v \in Workers: pc'[v] \in Driving => Drives(v)' # x
      BY <1>1, <1>2, <1>5 DEF Driving
    <3>3. paused'[s] = x BY <1>4, <1>7, ApprovalFacts DEF Inv, TypeOK, s
    <3> QED BY <2>3, <3>1, <3>2, <3>3, <1>4, <1>6
  <2> QED BY <2>1, <2>2, <2>3
<1> QED BY <1>10, <1>11, <1>12, <1>13, <1>14, <1>15, <1>17, <1>18
        DEF Control, Keys, Approved

\* A button is pressed, or another way of asking used.
LEMMA AskKeeps ==
  ASSUME Inv, NEW q \in Requests, Ask(q)
  PROVE  (Control /\ Keys /\ Approved)'
<1>1. PICK c \in Asked(Sess(q)):
        /\ call' = [call EXCEPT ![q] = c]
        /\ buttons' = buttons \ {c.id}
        /\ Goto(q, IF c.kind = "resume" THEN "look" ELSE "glock")
  BY DEF Ask
<1>2. /\ c.drives = None
      /\ c.id # None => c.id \in buttons /\ SessionOf[c.id[1]] = Sess(q)
      /\ c.kind = "resume" /\ c.id = None => channel[Sess(q)] # "telegram"
  <2>1. CASE channel[Sess(q)] = "chat" BY <2>1 DEF Asked
  <2>2. CASE channel[Sess(q)] = "telegram"
    BY <2>2, ApprovalFacts DEF Asked, Inv, TypeOK
  <2>3. CASE channel[Sess(q)] = "background" BY <2>3 DEF Asked
  <2> QED BY <2>1, <2>2, <2>3, ApprovalFacts DEF Inv, TypeOK, Channels
<1>3. /\ pc[q] = "new" /\ pc'[q] \in {"look", "glock"} /\ call'[q] = c
      /\ \A v \in Workers: v # q => pc'[v] = pc[v]
      /\ \A p \in Requests: p # q => call'[p] = call[p]
      /\ UNCHANGED <<channel, key, paused, graph, slock>>
  BY <1>1, ApprovalFacts DEF Ask, Goto, Inv, TypeOK, memory, locks
<1>4. \A v \in Workers: v # q => Drives(v)' = Drives(v)
  BY <1>3, ApprovalFacts DEF Drives, Workers
<1>5. \A r: Here(r)' = Here(r) BY <1>3 DEF Here
<1>6. Locked' BY <1>3 DEF Inv, Control, Locked, Sess, HoldsSession, Driving
<1>7. Driven'
  <2> SUFFICES ASSUME NEW v \in Workers, pc'[v] \in Driving
               PROVE /\ Drives(v)' \in Runs /\ SessionOf[Drives(v)'] = Sess(v)
                     /\ v \in Requests => pc'[Drives(v)'] = "done"
    BY DEF Driven, Sess
  <2>1. v # q /\ pc[v] \in Driving BY <1>3 DEF Driving
  <2> QED BY <2>1, <1>3, <1>4, ApprovalFacts DEF Inv, Control, Driven
<1>8. Interrupted' BY <1>3, <1>4, <1>5 DEF Inv, Control, Interrupted
<1>9. Written' BY <1>3, <1>4, <1>5 DEF Inv, Keys, Written, Sess
<1>10. Kept' BY <1>3, ApprovalFacts DEF Inv, Keys, Kept, TypeOK
<1>11. Addressed'
  BY <1>2, <1>3, ApprovalFacts DEF Inv, Approved, Addressed, Sess
<1>12. \A p \in Requests: \A a: Carries(p, a)' => Carries(p, a) \/ (p = q /\ c.id = a)
  BY <1>3, ApprovalFacts DEF Carries
<1>13. \A a \in Approval: Open(a)' => Open(a)
  BY <1>1, <1>2, <1>12, ApprovalFacts DEF Open
<1>14. Once'
  <2> SUFFICES ASSUME NEW a \in Approval, NEW p \in Requests, Carries(p, a)'
               PROVE a \notin buttons' /\ \A t \in Requests: Carries(t, a)' => t = p
    BY DEF Once
  <2>1. CASE a = c.id
    <3>1. a \in buttons BY <2>1, <1>2, ApprovalFacts
    <3>2. \A t \in Requests: ~Carries(t, a) BY <3>1 DEF Inv, Approved, Once
    <3> QED BY <2>1, <3>2, <1>1, <1>12
  <2>2. CASE a # c.id
    BY <2>2, <1>1, <1>12 DEF Inv, Approved, Once
  <2> QED BY <2>1, <2>2
<1>15. Untouched'
  <2> SUFFICES ASSUME NEW a \in Approval, Open(a)'
               PROVE /\ channel[SessionOf[a[1]]] = "telegram"
                     /\ pc'[a[1]] = "done"
                     /\ Here(a[1]) = a /\ graph[a[1]].at = "tools"
                     /\ \A v \in Workers: pc'[v] \in Driving => Drives(v)' # a[1]
                     /\ key[SessionOf[a[1]]] = a => paused[SessionOf[a[1]]] \in {None, a[1]}
    BY <1>3, <1>5 DEF Untouched
  <2>1. /\ channel[SessionOf[a[1]]] = "telegram"
        /\ pc[a[1]] = "done" /\ a[1] # q
        /\ Here(a[1]) = a /\ graph[a[1]].at = "tools"
        /\ \A v \in Workers: pc[v] \in Driving => Drives(v) # a[1]
        /\ key[SessionOf[a[1]]] = a => paused[SessionOf[a[1]]] \in {None, a[1]}
    BY <1>13, ApprovalFacts DEF Inv, Approved, Untouched
  <2>2. pc'[a[1]] = "done" BY <2>1, <1>3, ApprovalFacts
  <2>3. \A v \in Workers: pc'[v] \in Driving => Drives(v)' # a[1]
    BY <2>1, <1>3, <1>4 DEF Driving
  <2> QED BY <2>1, <2>2, <2>3
<1> QED BY <1>6, <1>7, <1>8, <1>9, <1>10, <1>11, <1>14, <1>15
        DEF Control, Keys, Approved

\* A worker returns, whatever it did to the key and the kept graph.
LEMMA ReturnKeeps ==
  ASSUME Inv, NEW w \in Workers, pc[w] # "done", Return(w),
         UNCHANGED <<channel, graph, buttons>>, KeysLost, KeptLost
  PROVE  (Control /\ Keys /\ Approved)'
<1>1. Goto(w, "done") BY DEF Return
<1>2. \A v \in Workers \ {w}: slock[Sess(v)] = v => slock'[Sess(v)] = v
  BY ApprovalFacts DEF Return, Release
<1>3. \A q \in Requests: q # w => call'[q] = call[q] BY DEF Return
<1> QED BY <1>1, <1>2, <1>3, WalkKeeps DEF HoldsSession, Driving, Asks

\* The approval a confirmation carries is that of the graph that is kept, and
\* the graph has not moved since.
LEMMA ConfirmsCurrent ==
  ASSUME Inv, NEW q \in Requests, Resume(q), call'[q].drives # None, call[q].id # None
  PROVE  /\ call'[q].drives = call[q].id[1]
         /\ Here(call[q].id[1]) = call[q].id
         /\ graph[call[q].id[1]].at = "tools"
<1> DEFINE a == call[q].id
           s == Sess(q)
<1>1. /\ pc[q] = "check" /\ paused[s] # None /\ key[s] = a
      /\ call'[q].drives = paused[s]
  <2>1. ~Return(q) BY DEF Return, NoCall
  <2> QED BY <2>1 DEF Resume, IsCurrent, Inv, TypeOK
<1>2. a \in Approval /\ Carries(q, a) BY <1>1 DEF Inv, TypeOK, Carries, Asks
<1>3. SessionOf[a[1]] = s BY <1>1 DEF Inv, Approved, Addressed, Asks
<1> HIDE DEF a, s
<1>4. /\ Here(a[1]) = a /\ graph[a[1]].at = "tools"
      /\ key[s] = a => paused[s] \in {None, a[1]}
  BY <1>2, <1>3 DEF Inv, Approved, Untouched, Open
<1> QED BY <1>1, <1>4 DEF a

\* A resume begins to drive the kept graph.
LEMMA ResumeKeeps ==
  ASSUME Inv, NEW q \in Requests, Resume(q)
  PROVE  (Control /\ Keys /\ Approved)'
<1> DEFINE d == paused[Sess(q)]
<1>1. /\ pc[q] = "check" /\ q \in Workers /\ UNCHANGED <<channel, graph, buttons, key, paused>>
      /\ call[q].kind = "resume"
  BY ApprovalFacts DEF Resume, memory, history
<1>2. CASE Return(q)
  BY <1>1, <1>2, ReturnKeeps DEF KeysLost, KeptLost
<1>3. CASE ~Return(q)
  <2>1. /\ d # None /\ IsCurrent(q)
        /\ call' = [call EXCEPT ![q].drives = d]
        /\ Goto(q, "run") /\ slock' = slock
    BY <1>3 DEF Resume, locks
  <2>2. /\ pc'[q] = "run" /\ call'[q].drives = d
        /\ \A v \in Workers: v # q => pc'[v] = pc[v]
        /\ \A p \in Requests: p # q => call'[p] = call[p]
    BY <2>1, <1>1 DEF Goto, Inv, TypeOK
  <2>3. /\ \A v \in Workers: v # q => Drives(v)' = Drives(v)
        /\ Drives(q)' = d
    BY <2>2, ApprovalFacts DEF Drives, Workers
  <2>4. \A r: Here(r)' = Here(r) BY <1>1 DEF Here
  <2>5. d \in Runs /\ SessionOf[d] = Sess(q) /\ pc[d] = "done" /\ d # q
    BY <2>1, <1>1, ApprovalFacts DEF Inv, TypeOK, Keys, Kept
  <2>6. pc'[d] = "done" BY <2>2, <2>5, ApprovalFacts
  <2>7. \A p \in Requests: \A a: Carries(p, a)' => Carries(p, a) /\ p # q
    BY <2>2, ApprovalFacts DEF Carries, Asks
  <2>8. \A a \in Approval: Open(a)' => Open(a) /\ a[1] # d
    <3> SUFFICES ASSUME NEW a \in Approval, Open(a)' PROVE Open(a) /\ a[1] # d
      OBVIOUS
    <3>1. Open(a) BY <1>1, <2>7 DEF Open
    <3>2. channel[SessionOf[a[1]]] = "telegram" /\ Here(a[1]) = a
      BY <3>1 DEF Inv, Approved, Untouched
    <3>3. ASSUME a[1] = d PROVE FALSE
      <4>1. call[q].id # None
        BY <3>2, <3>3, <2>5, <1>1 DEF Inv, Approved, Addressed, Asks
      <4>2. d = call[q].id[1] /\ Here(call[q].id[1]) = call[q].id
        BY <4>1, <2>1, <2>2, ConfirmsCurrent
      <4>3. Carries(q, a) BY <4>2, <3>2, <3>3, <1>1 DEF Carries, Asks
      <4>4. a \notin buttons /\ \A p \in Requests: Carries(p, a) => p = q
        BY <4>3 DEF Inv, Approved, Once
      <4> QED BY <4>4, <2>7, <1>1 DEF Open
    <3> QED BY <3>1, <3>3
  <2> HIDE DEF d
  <2>9. Locked'
    BY <2>1, <2>2, <1>1 DEF Inv, Control, Locked, Sess, HoldsSession
  <2>10. Driven'
    <3> SUFFICES ASSUME NEW v \in Workers, pc'[v] \in Driving
                 PROVE /\ Drives(v)' \in Runs /\ SessionOf[Drives(v)'] = Sess(v)
                       /\ v \in Requests => pc'[Drives(v)'] = "done"
      BY DEF Driven, Sess
    <3>1. CASE v = q BY <3>1, <2>3, <2>5, <2>6
    <3>2. CASE v # q
      <4>1. /\ Drives(v) \in Runs /\ SessionOf[Drives(v)] = Sess(v)
            /\ v \in Requests => pc[Drives(v)] = "done"
        BY <3>2, <2>2 DEF Inv, Control, Driven
      <4> QED BY <4>1, <3>2, <2>2, <2>3, <1>1, ApprovalFacts
    <3> QED BY <3>1, <3>2
  <2>11. Interrupted' BY <1>1, <2>2, <2>3, <2>4 DEF Inv, Control, Interrupted
  <2>12. Written' BY <1>1, <2>2, <2>3, <2>4 DEF Inv, Keys, Written, Sess
  <2>13. Kept' BY <1>1, <2>2, ApprovalFacts DEF Inv, Keys, Kept, TypeOK
  <2>14. Addressed' BY <1>1, <2>2, ApprovalFacts DEF Inv, Approved, Addressed, Sess, Asks
  <2>15. Once' BY <1>1, <2>7 DEF Inv, Approved, Once
  <2>16. Untouched'
    <3> SUFFICES ASSUME NEW a \in Approval, Open(a)'
                 PROVE /\ channel[SessionOf[a[1]]] = "telegram"
                       /\ pc'[a[1]] = "done"
                       /\ Here(a[1]) = a /\ graph[a[1]].at = "tools"
                       /\ \A v \in Workers: pc'[v] \in Driving => Drives(v)' # a[1]
                       /\ key[SessionOf[a[1]]] = a => paused[SessionOf[a[1]]] \in {None, a[1]}
      BY <1>1, <2>4 DEF Untouched
    <3>1. /\ channel[SessionOf[a[1]]] = "telegram" /\ a[1] # d
          /\ pc[a[1]] = "done" /\ a[1] # q
          /\ Here(a[1]) = a /\ graph[a[1]].at = "tools"
          /\ \A v \in Workers: pc[v] \in Driving => Drives(v) # a[1]
          /\ key[SessionOf[a[1]]] = a => paused[SessionOf[a[1]]] \in {None, a[1]}
      BY <2>8, <1>1, ApprovalFacts DEF Inv, Approved, Untouched
    <3>2. pc'[a[1]] = "done" BY <3>1, <2>2, ApprovalFacts
    <3>3. \A v \in Workers: pc'[v] \in Driving => Drives(v)' # a[1]
      BY <3>1, <2>2, <2>3 DEF Driving
    <3> QED BY <3>1, <3>2, <3>3
  <2> QED BY <2>9, <2>10, <2>11, <2>12, <2>13, <2>14, <2>15, <2>16
          DEF Control, Keys, Approved
<1> QED BY <1>2, <1>3

LEMMA RestartKeeps == ASSUME Inv, Restart PROVE (Control /\ Keys /\ Approved)'
<1>1. /\ \A w \in Workers: pc'[w] = IF pc[w] = "new" THEN "new" ELSE "done"
      /\ \A s \in Sessions: paused'[s] = None
      /\ UNCHANGED <<channel, key, graph, buttons>>
  BY DEF Restart
<1>2. \A w \in Workers: pc'[w] \notin HoldsSession \cup Asks
  BY <1>1 DEF HoldsSession, Asks, Driving
<1>3. Control' BY <1>2 DEF Control, Locked, Driven, Interrupted, HoldsSession, Driving
<1>4. Keys' BY <1>1, <1>2 DEF Keys, Written, Kept, HoldsSession, Driving
<1>5. \A q \in Requests: \A a: ~Carries(q, a)' BY <1>2, ApprovalFacts DEF Carries
<1>6. Addressed' /\ Once' BY <1>2, <1>5, ApprovalFacts DEF Addressed, Once
<1>7. \A a \in Approval: Open(a)' => Open(a) BY <1>1, <1>5 DEF Open
<1>8. \A r: Here(r)' = Here(r) BY <1>1 DEF Here
<1>9. Untouched'
  BY <1>1, <1>2, <1>7, <1>8, ApprovalFacts
  DEF Inv, Approved, Untouched, HoldsSession
<1> QED BY <1>3, <1>4, <1>6, <1>9 DEF Approved

LEMMA InitInv == Init => Inv
<1> SUFFICES ASSUME Init PROVE Inv OBVIOUS
<1>1. TypeOK BY DEF Init, TypeOK, NoCall, Idle, Driving
<1>2. \A w \in Workers: pc[w] \notin HoldsSession \cup Asks
  BY DEF Init, HoldsSession, Driving, Asks
<1>3. Control BY <1>2 DEF Control, Locked, Driven, Interrupted, HoldsSession, Driving
<1>4. Keys BY <1>2 DEF Init, Keys, Written, Kept, HoldsSession, Driving
<1>5. \A a: ~Open(a)
  BY <1>2, ApprovalFacts DEF Open, Carries, Init
<1>6. Approved
  BY <1>2, <1>5, ApprovalFacts DEF Approved, Addressed, Untouched, Once, Open
<1> QED BY <1>1, <1>3, <1>4, <1>6 DEF Inv

\* What the common parts of the actions do to the types.
LEMMA GotoTypes ==
  ASSUME TypeOK, NEW w \in Workers, NEW l, Goto(w, l),
         l \in {"new", "look", "glock", "slock", "check", "drop", "erase", "done"} \cup Driving
  PROVE  pc' \in [Workers -> {"new", "look", "glock", "slock", "check", "drop",
                              "erase", "done"} \cup Driving]
BY DEF TypeOK, Goto

LEMMA PopTypes ==
  ASSUME TypeOK, NEW s \in Sessions, Pop(s)
  PROVE  /\ paused' \in [Sessions -> Runs \cup {None}]
         /\ aged' \in [Sessions -> BOOLEAN]
         /\ KeptLost
BY DEF TypeOK, Pop, KeptLost

LEMMA ReturnTypes ==
  ASSUME TypeOK, NEW w \in Workers, Return(w)
  PROVE  /\ pc' \in [Workers -> {"new", "look", "glock", "slock", "check", "drop",
                                 "erase", "done"} \cup Driving]
         /\ call' \in [Requests -> [kind: {"none", "resume", "discard"},
                                    id: Approval \cup {None},
                                    drives: Runs \cup {None}]]
         /\ glock' \in Workers \cup {Cleaner, None}
         /\ slock' \in [Sessions -> Workers \cup {None}]
<1>1. Goto(w, "done") BY DEF Return
<1> QED BY <1>1, GotoTypes DEF TypeOK, Return, Release, NoCall

LEMMA KeyGoneTypes ==
  ASSUME TypeOK, NEW s \in Sessions, KeyGone(s)
  PROVE  /\ key' \in [Sessions -> Approval \cup {None}]
         /\ orphaned' \subseteq Sessions
         /\ overlap' \in [Sessions -> SUBSET Runs]
         /\ KeysLost
BY DEF TypeOK, KeyGone, KeysLost

LEMMA FaultTypes == ASSUME TypeOK, Fault PROVE faults' \in 0..MaxFaults
BY DEF TypeOK, Fault

\* The actions of one run or request, one by one.
LEMMA BeginKeeps == ASSUME Inv, NEW r \in Runs, Begin(r) PROVE Inv'
<1>1. /\ r \in Workers /\ pc[r] = "new" /\ \E l \in {"slock", "done"}: Goto(r, l)
      /\ UNCHANGED <<channel, key, graph, call, locks, clean, faults, history>>
      /\ paused' = [s \in Sessions |-> IF aged[s] THEN None ELSE paused[s]]
      /\ aged' = [s \in Sessions |-> FALSE]
  BY ApprovalFacts DEF Begin
<1>2. PICK l \in {"slock", "done"}: Goto(r, l) BY <1>1
<1>3. KeysLost /\ KeptLost BY <1>1 DEF KeysLost, KeptLost
<1>4. (Control /\ Keys /\ Approved)'
  BY <1>1, <1>2, <1>3, WalkKeeps, ApprovalFacts DEF HoldsSession, Driving, Asks, locks, history
<1>5. TypeOK' BY <1>1, <1>2, GotoTypes DEF Inv, TypeOK, locks, history
<1> QED BY <1>4, <1>5 DEF Inv

LEMMA ModelKeeps == ASSUME Inv, NEW w \in Workers, Model(w) PROVE Inv'
<1> DEFINE r == Drives(w)
<1>1. /\ pc[w] = "run" /\ graph[r].at = "model"
      /\ UNCHANGED <<channel, key, memory, call, locks, clean, faults, history>>
  BY DEF Model
<1>2. r \in Runs BY <1>1 DEF Inv, Control, Driven, Driving
<1>3. graph[r] \in [batch: Nat, at: {"model", "tools", "end"}] /\ MaxBatches[r] \in Nat
  BY <1>2 DEF Inv, TypeOK
<1>4. CASE graph[r].batch < MaxBatches[r] /\ Goto(w, "decide")
           /\ graph' = [graph EXCEPT ![r] = [batch |-> @.batch + 1, at |-> "tools"]]
  <2>1. graph'[r] = [batch |-> graph[r].batch + 1, at |-> "tools"]
    BY <1>2, <1>4 DEF Inv, TypeOK
  <2>2. graph' \in [Runs -> [batch: Nat, at: {"model", "tools", "end"}]]
    BY <1>2, <1>3, <1>4 DEF Inv, TypeOK
  <2>3. Drives(w)' = r BY <1>1 DEF Drives
  <2>4. Here(Drives(w))' = <<r, graph[r].batch + 1>> BY <2>1, <2>3 DEF Here
  <2>5. graph[r].batch + 1 \in 1..MaxBatches[r] BY <1>3, <1>4
  <2>6. <<r, graph[r].batch + 1>> \in Approval BY <1>2, <2>5 DEF Approval
  <2>7. (Here(Drives(w)) \in Approval /\ graph[Drives(w)].at = "tools")'
    BY <2>1, <2>3, <2>4, <2>6 DEF Here
  <2>8. \A x \in Runs: x # Drives(w) => graph'[x] = graph[x] BY <1>4 DEF Inv, TypeOK
  <2>9. (Control /\ Keys /\ Approved)'
    BY <1>1, <1>4, <2>7, <2>8, DriveKeeps DEF Driving, memory, locks, history
  <2>10. TypeOK'
    BY <1>1, <1>4, <2>2, GotoTypes DEF Inv, TypeOK, Driving, memory, locks, history
  <2> QED BY <2>9, <2>10 DEF Inv
<1>5. CASE graph' = [graph EXCEPT ![r].at = "end"] /\ pc' = pc
  <2>1. Goto(w, "run") BY <1>1, <1>5 DEF Goto, Inv, TypeOK
  <2>2. \A x \in Runs: x # Drives(w) => graph'[x] = graph[x] BY <1>5 DEF Inv, TypeOK
  <2>3. graph' \in [Runs -> [batch: Nat, at: {"model", "tools", "end"}]]
    BY <1>2, <1>3, <1>5 DEF Inv, TypeOK
  <2>4. (Control /\ Keys /\ Approved)'
    BY <1>1, <2>1, <2>2, DriveKeeps DEF Driving, memory, locks, history
  <2>5. TypeOK' BY <1>1, <1>5, <2>3 DEF Inv, TypeOK, memory, locks, history
  <2> QED BY <2>4, <2>5 DEF Inv
<1> QED BY <1>4, <1>5 DEF Model

LEMMA ToolsKeeps == ASSUME Inv, NEW w \in Workers, Tools(w) PROVE Inv'
<1> DEFINE r == Drives(w)
<1>1. /\ pc[w] = "run" /\ graph' = [graph EXCEPT ![r].at = "model"]
      /\ UNCHANGED <<channel, key, memory, pc, call, locks, clean, faults, history>>
  BY DEF Tools
<1>2. r \in Runs BY <1>1 DEF Inv, Control, Driven, Driving
<1>3. Goto(w, "run") BY <1>1 DEF Goto, Inv, TypeOK
<1>4. graph' \in [Runs -> [batch: Nat, at: {"model", "tools", "end"}]]
  BY <1>1, <1>2 DEF Inv, TypeOK
<1>5. \A x \in Runs: x # Drives(w) => graph'[x] = graph[x] BY <1>1 DEF Inv, TypeOK
<1>6. (Control /\ Keys /\ Approved)'
  BY <1>1, <1>3, <1>5, DriveKeeps DEF Driving, memory, locks, history
<1>7. TypeOK' BY <1>1, <1>4 DEF Inv, TypeOK, memory, locks, history
<1> QED BY <1>6, <1>7 DEF Inv

LEMMA DecideKeeps == ASSUME Inv, NEW w \in Workers, Decide(w) PROVE Inv'
<1> DEFINE r == Drives(w)
<1>1. /\ pc[w] = "decide"
      /\ UNCHANGED <<channel, key, memory, call, locks, clean, faults, history>>
  BY DEF Decide
<1>2. r \in Runs BY <1>1 DEF Inv, Control, Driven, Driving
<1>3. PICK l \in {"run", "write"}:
        /\ Goto(w, l)
        /\ \/ graph' = graph
           \/ l = "run" /\ graph' = [graph EXCEPT ![r].at = "end"]
  BY DEF Decide
<1>4. graph' \in [Runs -> [batch: Nat, at: {"model", "tools", "end"}]]
  BY <1>2, <1>3 DEF Inv, TypeOK
<1>5. \A x \in Runs: x # Drives(w) => graph'[x] = graph[x] BY <1>3 DEF Inv, TypeOK
<1>6. Drives(w)' = r BY <1>1 DEF Drives
<1>7. l = "write" => (Here(Drives(w)) \in Approval /\ graph[Drives(w)].at = "tools")'
  BY <1>1, <1>3, <1>6 DEF Inv, Control, Interrupted, Here
<1>8. (Control /\ Keys /\ Approved)'
  BY <1>1, <1>3, <1>5, <1>7, DriveKeeps DEF Driving, memory, locks, history
<1>9. TypeOK'
  BY <1>1, <1>3, <1>4, GotoTypes DEF Inv, TypeOK, Driving, memory, locks, history
<1> QED BY <1>8, <1>9 DEF Inv

LEMMA WriteKeeps == ASSUME Inv, NEW w \in Workers, Write(w) PROVE Inv'
<1>1. /\ pc[w] = "write" /\ Goto(w, "set")
      /\ key' = [key EXCEPT ![Sess(w)] = Here(Drives(w))]
      /\ UNCHANGED <<channel, memory, graph, call, locks, clean, faults, history>>
  BY DEF Write
<1>2. Here(Drives(w)) \in Approval /\ graph[Drives(w)].at = "tools"
  BY <1>1 DEF Inv, Control, Interrupted
<1>3. (Here(Drives(w)) \in Approval /\ graph[Drives(w)].at = "tools")'
  BY <1>1, <1>2 DEF Here, Drives
<1>4. (Control /\ Keys /\ Approved)'
  BY <1>1, <1>3, DriveKeeps DEF Driving, memory, locks, history
<1>5. TypeOK'
  BY <1>1, <1>2, GotoTypes DEF Inv, TypeOK, Driving, memory, locks, history
<1> QED BY <1>4, <1>5 DEF Inv

LEMMA SetPausedKeeps == ASSUME Inv, NEW w \in Workers, SetPaused(w) PROVE Inv'
<1>1. /\ pc[w] = "set" /\ Return(w) /\ Sess(w) \in Sessions
      /\ paused' = [paused EXCEPT ![Sess(w)] = Drives(w)]
      /\ aged' = [aged EXCEPT ![Sess(w)] = FALSE]
      /\ shown' = shown \cup {Here(Drives(w))}
      /\ buttons' \subseteq buttons \cup {Here(Drives(w))}
      /\ overlap' = [overlap EXCEPT ![Sess(w)] = {r \in Runs: Sess(r) = Sess(w) /\ pc[r] = "slock"}]
      /\ orphaned' \subseteq orphaned
      /\ UNCHANGED <<channel, key, graph, clean, faults>>
  BY ApprovalFacts DEF SetPaused
<1>2. Here(Drives(w)) \in Approval /\ Drives(w) \in Runs
  BY <1>1 DEF Inv, Control, Interrupted, Driven, Driving
<1>3. TypeOK' BY <1>1, <1>2, ReturnTypes DEF Inv, TypeOK
<1> QED BY <1>3, PauseKeeps DEF Inv

LEMMA HangKeeps == ASSUME Inv, NEW w \in Workers, Hang(w) PROVE Inv'
<1>1. /\ pc[w] = "run" /\ Goto(w, "hung")
      /\ UNCHANGED <<channel, key, memory, graph, call, locks, clean, faults, history>>
  BY DEF Hang
<1>2. (Control /\ Keys /\ Approved)'
  BY <1>1, DriveKeeps DEF Driving, memory, locks, history
<1>3. TypeOK' BY <1>1, GotoTypes DEF Inv, TypeOK, Driving, memory, locks, history
<1> QED BY <1>2, <1>3 DEF Inv

\* The loop of a run or resume is left, from wherever it was.
LEMMA LoopEndsKeeps ==
  ASSUME Inv, NEW w \in Workers, pc[w] \in Driving, faults' \in 0..MaxFaults,
         LoopEnds(w) \/ (Return(w) /\ UNCHANGED memory),
         UNCHANGED <<channel, key, graph, clean, history>>
  PROVE  Inv'
<1>1. KeysLost BY DEF KeysLost
<1>2. pc[w] # "done" BY DEF Driving
<1>3. CASE Return(w) /\ UNCHANGED memory
  <2>1. KeptLost BY <1>3 DEF KeptLost, memory
  <2>2. (Control /\ Keys /\ Approved)' BY <1>1, <1>2, <1>3, <2>1, ReturnKeeps DEF history
  <2>3. TypeOK' BY <1>3, ReturnTypes DEF Inv, TypeOK, memory, history
  <2> QED BY <2>2, <2>3 DEF Inv
<1>4. CASE Goto(w, "erase") /\ Pop(Sess(w)) /\ UNCHANGED <<call, locks>>
  <2>1. KeptLost /\ Sess(w) \in Sessions BY <1>4, PopTypes, ApprovalFacts DEF Inv
  <2>2. slock[Sess(w)] = w BY DEF Inv, Control, Locked, HoldsSession
  <2>3. (Control /\ Keys /\ Approved)'
    BY <1>1, <1>2, <1>4, <2>1, <2>2, WalkKeeps DEF HoldsSession, Driving, Asks, locks, history
  <2>4. TypeOK'
    BY <1>4, <2>1, GotoTypes, PopTypes DEF Inv, TypeOK, locks, history
  <2> QED BY <2>3, <2>4 DEF Inv
<1> QED BY <1>3, <1>4 DEF LoopEnds

LEMMA EndingsKeep ==
  ASSUME Inv, NEW w \in Workers, Finish(w) \/ TimedOut(w) \/ WriteFails(w)
  PROVE  Inv'
<1>1. CASE Finish(w)
  BY <1>1, LoopEndsKeeps DEF Finish, Inv, TypeOK, Driving
<1>2. CASE TimedOut(w)
  BY <1>2, LoopEndsKeeps DEF TimedOut, Inv, TypeOK, Driving
<1>3. CASE WriteFails(w)
  BY <1>3, LoopEndsKeeps, FaultTypes DEF WriteFails, Inv, Driving
<1> QED BY <1>1, <1>2, <1>3

LEMMA AskedKeeps == ASSUME Inv, NEW q \in Requests, Ask(q) PROVE Inv'
<1>1. PICK c \in Asked(Sess(q)):
        /\ call' = [call EXCEPT ![q] = c]
        /\ buttons' = buttons \ {c.id}
        /\ Goto(q, IF c.kind = "resume" THEN "look" ELSE "glock")
  BY DEF Ask
<1>2. c \in [kind: {"none", "resume", "discard"}, id: Approval \cup {None},
            drives: Runs \cup {None}]
  BY DEF Asked, Inv, TypeOK
<1>3. q \in Workers
      /\ UNCHANGED <<channel, key, memory, graph, locks, clean, faults, shown, overlap, orphaned>>
  BY ApprovalFacts DEF Ask
<1>4. call' \in [Requests -> [kind: {"none", "resume", "discard"},
                             id: Approval \cup {None},
                             drives: Runs \cup {None}]]
  BY <1>1, <1>2 DEF Inv, TypeOK
<1>5. TypeOK' BY <1>1, <1>3, <1>4, GotoTypes DEF Inv, TypeOK, memory, locks
<1> QED BY <1>5, AskKeeps DEF Inv

LEMMA LookKeeps == ASSUME Inv, NEW q \in Requests, Look(q) PROVE Inv'
<1>1. /\ pc[q] = "look" /\ q \in Workers
      /\ UNCHANGED <<channel, key, memory, graph, clean, faults, history>>
  BY ApprovalFacts DEF Look
<1>2. KeysLost /\ KeptLost BY <1>1 DEF KeysLost, KeptLost, memory
<1>3. CASE Return(q)
  <2>1. (Control /\ Keys /\ Approved)' BY <1>1, <1>2, <1>3, ReturnKeeps DEF history
  <2>2. TypeOK' BY <1>1, <1>3, ReturnTypes DEF Inv, TypeOK, memory, history
  <2> QED BY <2>1, <2>2 DEF Inv
<1>4. CASE Goto(q, "glock") /\ UNCHANGED <<call, locks>>
  <2>1. (Control /\ Keys /\ Approved)'
    BY <1>1, <1>2, <1>4, WalkKeeps DEF HoldsSession, Driving, Asks, locks, history
  <2>2. TypeOK' BY <1>1, <1>4, GotoTypes DEF Inv, TypeOK, memory, locks, history
  <2> QED BY <2>1, <2>2 DEF Inv
<1> QED BY <1>3, <1>4 DEF Look

LEMMA TakeGlobalKeeps == ASSUME Inv, NEW q \in Requests, TakeGlobal(q) PROVE Inv'
<1>1. /\ pc[q] = "glock" /\ q \in Workers /\ glock' = q /\ Goto(q, "slock")
      /\ UNCHANGED <<channel, key, memory, graph, call, slock, clean, faults, history>>
  BY ApprovalFacts DEF TakeGlobal
<1>2. KeysLost /\ KeptLost BY <1>1 DEF KeysLost, KeptLost, memory
<1>3. (Control /\ Keys /\ Approved)'
  BY <1>1, <1>2, WalkKeeps DEF HoldsSession, Driving, Asks, history
<1>4. TypeOK' BY <1>1, GotoTypes DEF Inv, TypeOK, memory, history
<1> QED BY <1>3, <1>4 DEF Inv

LEMMA TakeSessionKeeps == ASSUME Inv, NEW w \in Workers, TakeSession(w) PROVE Inv'
<1>1. /\ pc[w] = "slock" /\ slock[Sess(w)] = None /\ Sess(w) \in Sessions
      /\ slock' = [slock EXCEPT ![Sess(w)] = w]
      /\ Goto(w, IF w \in Runs THEN "run" ELSE "check")
      /\ UNCHANGED <<channel, key, memory, graph, call, glock, clean, faults, history>>
  BY ApprovalFacts DEF TakeSession
<1>2. KeysLost /\ KeptLost BY <1>1 DEF KeysLost, KeptLost, memory
<1>3. slock'[Sess(w)] = w BY <1>1 DEF Inv, TypeOK
<1>4. \A v \in Workers \ {w}: slock[Sess(v)] = v => slock'[Sess(v)] = v
  BY <1>1, ApprovalFacts DEF Inv, TypeOK
<1>5. (Control /\ Keys /\ Approved)'
  BY <1>1, <1>2, <1>3, <1>4, WalkKeeps, ApprovalFacts
  DEF HoldsSession, Driving, Asks, history, Workers
<1>6. TypeOK' BY <1>1, GotoTypes DEF Inv, TypeOK, memory, history, Driving
<1> QED BY <1>5, <1>6 DEF Inv

LEMMA ResumedKeeps == ASSUME Inv, NEW q \in Requests, Resume(q) PROVE Inv'
<1>1. q \in Workers /\ UNCHANGED <<channel, key, memory, graph, clean, faults, history>>
  BY ApprovalFacts DEF Resume
<1>2. CASE Return(q)
  BY <1>1, <1>2, ReturnTypes, ResumeKeeps DEF Inv, TypeOK, memory, history
<1>3. CASE call' = [call EXCEPT ![q].drives = paused[Sess(q)]]
           /\ Goto(q, "run") /\ UNCHANGED locks
  <2>1. paused[Sess(q)] \in Runs \cup {None} BY <1>1, ApprovalFacts DEF Inv, TypeOK
  <2> DEFINE C == [kind: {"none", "resume", "discard"}, id: Approval \cup {None},
                  drives: Runs \cup {None}]
             c == [call[q] EXCEPT !.drives = paused[Sess(q)]]
  <2>4. call \in [Requests -> C] BY DEF Inv, TypeOK
  <2>5. c \in C BY <2>1, <2>4
  <2>6. call' = [call EXCEPT ![q] = c] BY <1>3
  <2> HIDE DEF C, c
  <2>7. call' \in [Requests -> C] BY <2>4, <2>5, <2>6
  <2>2. call' \in [Requests -> [kind: {"none", "resume", "discard"},
                               id: Approval \cup {None},
                               drives: Runs \cup {None}]]
    BY <2>7 DEF C
  <2>3. TypeOK'
    BY <1>1, <1>3, <2>2, GotoTypes DEF Inv, TypeOK, memory, locks, history, Driving
  <2> QED BY <2>3, ResumeKeeps DEF Inv
<1> QED BY <1>2, <1>3 DEF Resume

LEMMA DiscardKeeps == ASSUME Inv, NEW q \in Requests, Discard(q) PROVE Inv'
<1>1. /\ pc[q] = "check" /\ q \in Workers /\ Sess(q) \in Sessions
      /\ UNCHANGED <<channel, memory, graph, clean, faults, buttons, shown>>
  BY ApprovalFacts DEF Discard
<1>2. KeptLost BY <1>1 DEF KeptLost, memory
<1>3. CASE KeyGone(Sess(q)) /\ Goto(q, "drop") /\ UNCHANGED <<call, locks>>
  <2>1. slock[Sess(q)] = q BY <1>1 DEF Inv, Control, Locked, HoldsSession
  <2>2. KeysLost BY <1>1, <1>3, KeyGoneTypes DEF Inv
  <2>3. (Control /\ Keys /\ Approved)'
    BY <1>1, <1>2, <1>3, <2>1, <2>2, WalkKeeps DEF HoldsSession, Driving, Asks, locks
  <2>4. TypeOK'
    BY <1>1, <1>3, GotoTypes, KeyGoneTypes DEF Inv, TypeOK, memory, locks
  <2> QED BY <2>3, <2>4 DEF Inv
<1>4. CASE Return(q) /\ UNCHANGED <<key, overlap, orphaned>>
  <2>1. KeysLost BY <1>4 DEF KeysLost
  <2>2. (Control /\ Keys /\ Approved)' BY <1>1, <1>2, <1>4, <2>1, ReturnKeeps
  <2>3. TypeOK' BY <1>1, <1>4, ReturnTypes DEF Inv, TypeOK, memory
  <2> QED BY <2>2, <2>3 DEF Inv
<1> QED BY <1>3, <1>4 DEF Discard

LEMMA DropEraseKeep == ASSUME Inv, NEW q \in Requests, Drop(q) \/ Erase(q) PROVE Inv'
<1>1. q \in Workers /\ Sess(q) \in Sessions BY ApprovalFacts
<1>2. CASE Drop(q)
  <2>1. KeptLost BY <1>1, <1>2, PopTypes DEF Inv, Drop
  <2>2. KeysLost BY <1>2 DEF Drop, KeysLost
  <2>3. (Control /\ Keys /\ Approved)'
    BY <1>1, <1>2, <2>1, <2>2, ReturnKeeps DEF Drop, history
  <2>4. TypeOK'
    BY <1>1, <1>2, ReturnTypes, PopTypes DEF Inv, TypeOK, Drop, history
  <2> QED BY <2>3, <2>4 DEF Inv
<1>3. CASE Erase(q)
  <2>1. KeptLost /\ KeysLost
    BY <1>1, <1>3, KeyGoneTypes DEF Inv, Erase, KeptLost, memory
  <2>2. (Control /\ Keys /\ Approved)' BY <1>1, <1>3, <2>1, ReturnKeeps DEF Erase
  <2>3. TypeOK'
    BY <1>1, <1>3, ReturnTypes, KeyGoneTypes DEF Inv, TypeOK, Erase, memory
  <2> QED BY <2>2, <2>3 DEF Inv
<1> QED BY <1>2, <1>3

LEMMA TimeKeeps == ASSUME Inv, NEW s \in Sessions, Expire(s) \/ Age(s) PROVE Inv'
<1>1. CASE Expire(s)
  <2>1. KeysLost /\ KeptLost BY <1>1, KeyGoneTypes DEF Inv, Expire, KeptLost, memory
  <2>2. (Control /\ Keys /\ Approved)'
    BY <1>1, <2>1, StillKeeps DEF Expire, locks
  <2>3. TypeOK' BY <1>1, KeyGoneTypes DEF Inv, TypeOK, Expire, memory, locks
  <2> QED BY <2>2, <2>3 DEF Inv
<1>2. CASE Age(s)
  <2>1. KeysLost /\ KeptLost BY <1>2 DEF Age, KeysLost, KeptLost
  <2>2. (Control /\ Keys /\ Approved)'
    BY <1>2, <2>1, StillKeeps DEF Age, locks, history
  <2>3. TypeOK' BY <1>2 DEF Inv, TypeOK, Age, locks, history
  <2> QED BY <2>2, <2>3 DEF Inv
<1> QED BY <1>1, <1>2

\* The clean-up loop: its state is typed, and it only pops kept graphs.
LEMMA CleanKeeps == ASSUME Inv, Clean PROVE Inv'
<1> DEFINE CleanState == [pc: {"sleep", "look", "lock", "check", "pop", "ended"},
                          todo: SUBSET Sessions, stale: SUBSET Sessions]
<1>1. clean \in CleanState /\ Idle \in CleanState BY DEF Inv, TypeOK, Idle
<1>2. UNCHANGED CleanUnchanged
  BY DEF Clean, CleanStart, CleanLook, CleanTake, CleanCheck, CleanPop
<1>3. /\ KeptLost /\ clean' \in CleanState
      /\ glock' \in Workers \cup {Cleaner, None}
      /\ paused' \in [Sessions -> Runs \cup {None}] /\ aged' \in [Sessions -> BOOLEAN]
      /\ orphaned' \subseteq Sessions
  <2>1. CASE UNCHANGED <<memory, orphaned>>
    <3>1. CASE CleanStart
      BY <1>1, <2>1, <3>1 DEF CleanStart, KeptLost, memory, Inv, TypeOK
    <3>2. CASE CleanLook
      <4>1. PICK s \in clean.todo:
              LET todo == clean.todo \ {s}
                  stale == clean.stale \cup (IF key[s] = None THEN {s} ELSE {})
              IN  clean' = CASE todo # {} -> [pc |-> "look", todo |-> todo, stale |-> stale]
                             [] todo = {} /\ stale # {} -> [pc |-> "lock", todo |-> {}, stale |-> stale]
                             [] OTHER -> Idle
        BY <3>2 DEF CleanLook
      <4> DEFINE t == clean.todo \ {s}
                 u == clean.stale \cup (IF key[s] = None THEN {s} ELSE {})
      <4>2. t \subseteq Sessions /\ u \subseteq Sessions BY <1>1
      <4>3. clean' \in {[pc |-> "look", todo |-> t, stale |-> u],
                       [pc |-> "lock", todo |-> {}, stale |-> u], Idle}
        BY <4>1
      <4> HIDE DEF t, u
      <4>4. clean' \in CleanState BY <1>1, <4>2, <4>3
      <4> QED BY <4>4, <2>1, <3>2 DEF CleanLook, KeptLost, memory, Inv, TypeOK
    <3>3. CASE CleanTake
      BY <1>1, <2>1, <3>3 DEF CleanTake, KeptLost, memory, Inv, TypeOK
    <3>4. CASE CleanCheck
      <4>1. /\ UNCHANGED memory /\ glock' \in {glock, None}
            /\ \/ clean' = Idle
               \/ \E s \in clean.stale:
                    clean' \in {[pc |-> "pop", todo |-> {s}, stale |-> clean.stale \ {s}],
                                [clean EXCEPT !.stale = @ \ {s}]}
        BY <3>4 DEF CleanCheck
      <4>2. ASSUME NEW s \in clean.stale
            PROVE  {[pc |-> "pop", todo |-> {s}, stale |-> clean.stale \ {s}],
                    [clean EXCEPT !.stale = @ \ {s}]} \subseteq CleanState
        BY <1>1
      <4>3. clean' \in CleanState BY <1>1, <4>1, <4>2
      <4> HIDE DEF CleanState
      <4> QED BY <2>1, <4>1, <4>3 DEF KeptLost, memory, Inv, TypeOK
    <3>5. CASE CleanPop
      BY <1>1, <2>1, <3>5 DEF CleanPop, KeptLost, memory, Inv, TypeOK
    <3> QED BY <3>1, <3>2, <3>3, <3>4, <3>5 DEF Clean
  <2>2. CASE CleanPop
    <3>1. PICK s \in clean.todo: Pop(s) /\ Orphan({s}) BY <2>2 DEF CleanPop
    <3>2. s \in Sessions BY <1>1
    <3>3. orphaned' \subseteq Sessions BY <3>1, <3>2 DEF Orphan, Inv, TypeOK
    <3> QED BY <1>1, <2>2, <3>1, <3>2, <3>3, PopTypes DEF CleanPop, Inv, TypeOK
  <2> QED BY <2>1, <2>2 DEF Clean, CleanStart, CleanLook, CleanTake, CleanCheck
<1>4. KeysLost BY <1>2 DEF CleanUnchanged, KeysLost
<1>5. (Control /\ Keys /\ Approved)'
  BY <1>2, <1>3, <1>4, StillKeeps DEF CleanUnchanged
<1>6. TypeOK' BY <1>2, <1>3 DEF CleanUnchanged, Inv, TypeOK
<1> QED BY <1>5, <1>6 DEF Inv

LEMMA CancelKeeps == ASSUME Inv, NEW w \in Workers, Cancel(w) PROVE Inv'
<1>1. /\ pc[w] # "done" /\ Return(w) /\ Fault /\ orphaned' \subseteq orphaned \cup {Sess(w)}
      /\ UNCHANGED <<channel, key, memory, graph, clean, buttons, shown, overlap>>
  BY DEF Cancel, Orphan
<1>2. KeysLost /\ KeptLost BY <1>1 DEF KeysLost, KeptLost, memory
<1>3. (Control /\ Keys /\ Approved)' BY <1>1, <1>2, ReturnKeeps
<1>4. TypeOK'
  BY <1>1, ReturnTypes, FaultTypes, ApprovalFacts DEF Inv, TypeOK, memory
<1> QED BY <1>3, <1>4 DEF Inv

LEMMA RedisFailsKeeps == ASSUME Inv, RedisFails PROVE Inv'
<1>1. Fault /\ UNCHANGED <<channel, key, graph, clean, buttons, shown, overlap>> BY DEF RedisFails
<1>2. faults' \in 0..MaxFaults BY <1>1, FaultTypes DEF Inv
<1>3. KeysLost BY <1>1 DEF KeysLost
<1>4. PICK q \in Requests:
        /\ pc[q] \in {"look", "check", "erase"} /\ Return(q)
        /\ UNCHANGED memory \/ Pop(Sess(q))
        /\ orphaned' \subseteq orphaned \cup {Sess(q)}
  BY DEF RedisFails, Orphan
<1>5. q \in Workers /\ Sess(q) \in Sessions BY ApprovalFacts
<1>6. /\ KeptLost
      /\ paused' \in [Sessions -> Runs \cup {None}] /\ aged' \in [Sessions -> BOOLEAN]
  BY <1>4, <1>5, PopTypes DEF Inv, TypeOK, memory, KeptLost
<1>7. (Control /\ Keys /\ Approved)' BY <1>1, <1>3, <1>4, <1>5, <1>6, ReturnKeeps
<1>8. TypeOK' BY <1>1, <1>2, <1>4, <1>5, <1>6, ReturnTypes DEF Inv, TypeOK
<1> QED BY <1>7, <1>8 DEF Inv

LEMMA CleanFailsKeeps == ASSUME Inv, CleanFails PROVE Inv'
<1>1. /\ Fault /\ UNCHANGED <<channel, key, memory, graph, pc, call, slock, history>>
      /\ glock' \in {None, glock}
  BY DEF CleanFails
<1>2. PICK p \in {"sleep", "ended"}: clean' = [Idle EXCEPT !.pc = p] BY DEF CleanFails
<1>3. clean' = [pc |-> p, todo |-> {}, stale |-> {}] BY <1>2 DEF Idle
<1>4. KeysLost /\ KeptLost BY <1>1 DEF KeysLost, KeptLost, memory
<1>5. (Control /\ Keys /\ Approved)' BY <1>1, <1>4, StillKeeps DEF history
<1>6. faults' \in 0..MaxFaults BY <1>1, FaultTypes DEF Inv
<1>7. TypeOK' BY <1>1, <1>3, <1>6 DEF Inv, TypeOK, memory, history
<1> QED BY <1>5, <1>7 DEF Inv

LEMMA RestartedKeeps == ASSUME Inv, Restart PROVE Inv'
<1>1. TypeOK'
  <2>1. Fault /\ faults' \in 0..MaxFaults BY FaultTypes DEF Restart, Inv
  <2>2. orphaned' \subseteq Sessions BY DEF Restart, Orphan, Inv, TypeOK
  <2> QED BY <2>1, <2>2 DEF Restart, Inv, TypeOK, Idle, NoCall
<1> QED BY <1>1, RestartKeeps DEF Inv

LEMMA NextKeeps == Inv /\ [Next]_vars => Inv'
<1> SUFFICES ASSUME Inv, [Next]_vars PROVE Inv' OBVIOUS
<1>1. ASSUME NEW r \in Runs, Begin(r) PROVE Inv' BY <1>1, BeginKeeps
<1>2. ASSUME NEW q \in Requests, Ask(q) \/ Answer(q) \/ TakeGlobal(q) PROVE Inv'
  BY <1>2, AskedKeeps, LookKeeps, ResumedKeeps, DiscardKeeps, DropEraseKeep, TakeGlobalKeeps
  DEF Answer
<1>3. ASSUME NEW w \in Workers, Drive(w) \/ Hang(w) \/ TakeSession(w) PROVE Inv'
  BY <1>3, ModelKeeps, ToolsKeeps, DecideKeeps, WriteKeeps, SetPausedKeeps, EndingsKeep,
     HangKeeps, TakeSessionKeeps DEF Drive
<1>4. ASSUME NEW s \in Sessions, Expire(s) \/ Age(s) PROVE Inv' BY <1>4, TimeKeeps
<1>5. ASSUME Faults PROVE Inv'
  BY <1>5, CancelKeeps, EndingsKeep, RedisFailsKeeps, CleanFailsKeeps, RestartedKeeps DEF Faults
<1>6. ASSUME UNCHANGED vars PROVE Inv'
  <2>1. KeysLost /\ KeptLost BY <1>6 DEF vars, KeysLost, KeptLost
  <2>2. (Control /\ Keys /\ Approved)' BY <1>6, <2>1, StillKeeps DEF vars
  <2>3. TypeOK' BY <1>6 DEF Inv, TypeOK, vars
  <2> QED BY <2>2, <2>3 DEF Inv
<1> QED BY <1>1, <1>2, <1>3, <1>4, <1>5, <1>6, CleanKeeps DEF Next

\* Types, who drives which graph, and what an open approval still stands for,
\* in every reachable state.
THEOREM InvAlways == Spec => []Inv
BY InitInv, NextKeeps, PTL DEF Spec

\* Every variable keeps its type (the state of agents/base_agent.py and its
\* callers).
THEOREM TypeCorrect == Spec => []TypeOK
<1>1. Inv => TypeOK BY DEF Inv
<1> QED BY <1>1, InvAlways, PTL

\* A step that confirms is the step of Resume.
LEMMA ConfirmsInResume ==
  ASSUME Inv, [Next]_vars, NEW q \in Requests, Confirms(q)
  PROVE  Resume(q)
<1>1. pc[q] = "check" /\ call[q].drives = None /\ call'[q].drives # None
  BY DEF Confirms, Inv, Approved, Addressed, Asks
<1>2. call'[q] # call[q] /\ ~Return(q) /\ call'[q] # NoCall
  BY <1>1 DEF Return, NoCall
<1>3. ASSUME NEW w \in Workers, Return(w) PROVE w = q
  BY <1>2, <1>3 DEF Return
<1>4. call' # call BY <1>1
<1>5. ASSUME NEW r \in Runs, Begin(r) PROVE FALSE BY <1>4, <1>5 DEF Begin
<1>6. ASSUME NEW p \in Requests, Ask(p) PROVE FALSE
  <2>1. p # q /\ p \in Requests BY <1>1, <1>6 DEF Ask
  <2>2. PICK c: call' = [call EXCEPT ![p] = c] BY <1>6 DEF Ask
  <2> QED BY <2>1, <2>2, <1>2 DEF Inv, TypeOK
<1>7. ASSUME NEW p \in Requests, Answer(p) \/ TakeGlobal(p) PROVE Resume(q)
  <2>1. p \in Workers BY ApprovalFacts
  <2>2. CASE Resume(p)
    <3>1. Return(p) \/ call' = [call EXCEPT ![p].drives = paused[Sess(p)]]
      BY <2>2 DEF Resume
    <3>2. p = q BY <3>1, <2>1, <1>2, <1>3 DEF Inv, TypeOK
    <3> QED BY <2>2, <3>2
  <2>3. CASE ~Resume(p)
    <3>1. Return(p) \/ call' = call
      BY <1>7, <2>3 DEF Answer, TakeGlobal, Look, Discard, Drop, Erase
    <3> QED BY <3>1, <2>1, <1>2, <1>3, <1>4
  <2> QED BY <2>2, <2>3
<1>8. ASSUME NEW w \in Workers, Drive(w) \/ Hang(w) \/ TakeSession(w) PROVE FALSE
  <2>1. Return(w) \/ call' = call
    BY <1>8 DEF Drive, Model, Tools, Decide, Write, SetPaused, Finish, TimedOut, LoopEnds,
            Hang, TakeSession
  <2> QED BY <2>1, <1>2, <1>3, <1>4
<1>9. ASSUME NEW s \in Sessions, Expire(s) \/ Age(s) PROVE FALSE
  BY <1>4, <1>9 DEF Expire, Age
<1>10. ASSUME Clean PROVE FALSE
  BY <1>4, <1>10 DEF Clean, CleanStart, CleanLook, CleanTake, CleanCheck, CleanPop, CleanUnchanged
<1>11. ASSUME Faults PROVE FALSE
  <2>1. \/ \E w \in Workers: Return(w)
        \/ call' = call
        \/ call' = [p \in Requests |-> NoCall]
    BY <1>11, ApprovalFacts
    DEF Faults, Cancel, WriteFails, LoopEnds, RedisFails, CleanFails, Restart
  <2> QED BY <2>1, <1>2, <1>3, <1>4
<1>12. ASSUME UNCHANGED vars PROVE FALSE BY <1>4, <1>12 DEF vars
<1> QED BY <1>5, <1>6, <1>7, <1>8, <1>9, <1>10, <1>11, <1>12 DEF Next

\* A confirmation that carries an id drives the graph from the very batch the
\* user saw under that id (resume_safeguard_tool in agents/base_agent.py).
THEOREM Confirmed == Spec => ConfirmedStep
<1> DEFINE Step == \A q \in Requests: Confirms(q) =>
             /\ Here(call'[q].drives) = call[q].id
             /\ graph[call'[q].drives].at = "tools"
<1>1. ASSUME Inv, [Next]_vars PROVE Step
  <2> SUFFICES ASSUME NEW q \in Requests, Confirms(q)
               PROVE /\ Here(call'[q].drives) = call[q].id
                     /\ graph[call'[q].drives].at = "tools"
    OBVIOUS
  <2>1. Resume(q) BY <1>1, ConfirmsInResume
  <2>2. call[q].id # None /\ call'[q].drives # None BY DEF Confirms
  <2> QED BY <1>1, <2>1, <2>2, ConfirmsCurrent
<1>2. Inv /\ [Next]_vars => [Step]_vars BY <1>1
<1> QED BY <1>2, InvAlways, PTL DEF Spec, ConfirmedStep

-----------------------------------------------------------------------------
(* The key and the kept graph.  They are written apart, one of them        *)
(* expires, and they may be separated by a fault: Apart.  At any other     *)
(* time the key of an approval the user has seen is that of the kept       *)
(* graph, and who still waits for the session is known.                    *)

Apart(s) ==
  \/ s \in orphaned
  \/ \E w \in Workers: Sess(w) = s /\ pc[w] \in {"set", "erase"}

Served(s) == key[s] \in shown => paused[s] = key[s][1] \/ Apart(s)
Outlived(s) == aged[s] /\ paused[s] # None => key[s] \notin {paused[s]} \X Nat \/ Apart(s)
Home(s) == key[s] # None => SessionOf[key[s][1]] = s
Awaited(s) == key[s] \in shown /\ ~Apart(s) =>
  \A r \in Runs: Sess(r) = s /\ pc[r] \in Driving \cup {"slock"} => r \in overlap[s]
Paired(s) == Served(s) /\ Outlived(s) /\ Home(s) /\ Awaited(s)

\* A resume drives the kept graph, unless that was dropped meanwhile; what is
\* about to drop the graph has deleted the key.
Resumed == \A q \in Requests: pc[q] \in Driving => paused[Sess(q)] \in {None, Drives(q)}
Dropping == \A q \in Requests: pc[q] = "drop" => key[Sess(q)] = None

Pairs == (\A s \in Sessions: Paired(s)) /\ Resumed /\ Dropping

\* A session a step does not touch.
Same(s) ==
  /\ key'[s] = key[s] /\ paused'[s] = paused[s] /\ overlap'[s] = overlap[s]
  /\ aged'[s] => aged[s] \/ key[s] \notin {paused[s]} \X Nat
  /\ s \in orphaned => s \in orphaned'
  /\ key[s] \in shown' => key[s] \in shown

\* A run that waits for the session or has it; a worker that keeps it apart.
Waits(r) == r \in Runs /\ pc[r] \in Driving \cup {"slock"}
Parts(w) == pc[w] \in {"set", "erase"}

LEMMA SameKeeps ==
  ASSUME NEW s, Paired(s), Same(s),
         \A w \in Workers: Sess(w) = s => /\ Parts(w) => Parts(w)'
                                          /\ Waits(w)' => Waits(w)
  PROVE  Paired(s)'
<1>1. Apart(s) => Apart(s)' BY DEF Apart, Same, Parts, Sess
<1>2. Served(s)' BY <1>1 DEF Paired, Served, Same
<1>3. Outlived(s)' BY <1>1 DEF Paired, Outlived, Same
<1>4. Home(s)' BY DEF Paired, Home, Same
<1>5. Awaited(s)'
  <2>1. \A r \in Runs: Sess(r) = s /\ Waits(r)' => Waits(r) BY DEF Workers
  <2> QED BY <1>1, <2>1 DEF Paired, Awaited, Same, Waits, Sess
<1> QED BY <1>2, <1>3, <1>4, <1>5 DEF Paired

\* Without a key, or apart, a session promises nothing.
LEMMA GonePaired == ASSUME NEW s \in Sessions, TypeOK', key'[s] = None PROVE Paired(s)'
<1>1. key'[s] \notin shown' BY ApprovalFacts DEF TypeOK
<1>2. paused'[s] # None => key'[s] \notin {paused'[s]} \X Nat
  <2>1. paused'[s] # None => paused'[s] \in Runs BY DEF TypeOK
  <2> QED BY <2>1, NamesDistinct
<1> QED BY <1>1, <1>2 DEF Paired, Served, Outlived, Home, Awaited

LEMMA ApartPaired == ASSUME NEW s, Apart(s)', Home(s)' PROVE Paired(s)'
BY DEF Paired, Served, Outlived, Awaited

\* A worker moves on; what is not of its session stays.
LEMMA MovePairs ==
  ASSUME Inv, Inv', \A s \in Sessions: Paired(s), NEW w \in Workers, NEW l, Goto(w, l),
         \A s \in Sessions: s # Sess(w) => Same(s),
         \/ key'[Sess(w)] = None
         \/ Home(Sess(w))' /\ Apart(Sess(w))'
         \/ /\ Same(Sess(w)) /\ pc[w] \notin {"set", "erase"}
            /\ w \in Runs /\ l \in Driving \cup {"slock"} => pc[w] \in Driving \cup {"slock"}
  PROVE  \A s \in Sessions: Paired(s)'
<1>1. pc'[w] = l /\ \A v \in Workers: v # w => pc'[v] = pc[v] BY DEF Goto, Inv, TypeOK
<1>2. TypeOK' BY DEF Inv
<1>3. ASSUME NEW s \in Sessions, s # Sess(w) PROVE Paired(s)'
  <2>1. \A v \in Workers: Sess(v) = s => pc'[v] = pc[v] BY <1>1, <1>3
  <2>2. \A v \in Workers: Sess(v) = s => /\ Parts(v) => Parts(v)'
                                         /\ Waits(v)' => Waits(v)
    BY <2>1 DEF Parts, Waits
  <2> QED BY <1>3, <2>2, SameKeeps
<1>4. ASSUME NEW s \in Sessions, s = Sess(w) PROVE Paired(s)'
  <2>1. CASE key'[s] = None BY <1>2, <2>1, GonePaired
  <2>2. CASE Home(s)' /\ Apart(s)' BY <2>2, ApartPaired
  <2>3. CASE /\ Same(Sess(w)) /\ pc[w] \notin {"set", "erase"}
             /\ w \in Runs /\ l \in Driving \cup {"slock"} => pc[w] \in Driving \cup {"slock"}
    <3>1. \A v \in Workers: /\ Parts(v) => Parts(v)'
                            /\ Waits(v)' => Waits(v)
      BY <1>1, <2>3 DEF Parts, Waits
    <3> QED BY <1>4, <2>3, <3>1, SameKeeps
  <2> QED BY <1>4, <2>1, <2>2, <2>3 DEF Sess
<1> QED BY <1>3, <1>4

\* Who drives or drops goes on, or nobody new does.
LEMMA RestKeeps ==
  ASSUME Resumed, Dropping, KeysLost, KeptLost,
         \A q \in Requests: /\ pc'[q] \in Driving => pc[q] \in Driving /\ call'[q] = call[q]
                            /\ pc'[q] = "drop" => pc[q] = "drop"
  PROVE  Resumed' /\ Dropping'
<1>1. \A q \in Requests: Sess(q) \in Sessions /\ q \notin Runs BY ApprovalFacts
<1>2. Resumed' BY <1>1 DEF Resumed, KeptLost, Drives, Sess
<1>3. Dropping' BY <1>1 DEF Dropping, KeysLost, Sess
<1> QED BY <1>2, <1>3

LEMMA ReturnFacts ==
  ASSUME NEW w \in Workers, Return(w)
  PROVE  Goto(w, "done") /\ \A q \in Requests: q # w => call'[q] = call[q]
BY DEF Return

LEMMA PopFacts ==
  ASSUME TypeOK, NEW s \in Sessions, Pop(s)
  PROVE  /\ \A t \in Sessions: t # s => paused'[t] = paused[t] /\ aged'[t] = aged[t]
         /\ KeptLost
BY DEF TypeOK, Pop, KeptLost

LEMMA KeyGoneFacts ==
  ASSUME TypeOK, NEW s \in Sessions, KeyGone(s)
  PROVE  /\ key'[s] = None /\ KeysLost
         /\ \A t \in Sessions: t # s => /\ key'[t] = key[t] /\ overlap'[t] = overlap[t]
                                        /\ t \in orphaned => t \in orphaned'
BY DEF TypeOK, KeyGone, KeysLost

\* A worker moves on and leaves keys and graphs alone.
LEMMA QuietPairs ==
  ASSUME Inv, Inv', Pairs, NEW w \in Workers, NEW l, Goto(w, l),
         UNCHANGED <<key, paused, aged, overlap, orphaned, shown>>,
         pc[w] \notin {"set", "erase"},
         w \in Runs /\ l \in Driving \cup {"slock"} => pc[w] \in Driving \cup {"slock"},
         \A q \in Requests: q # w => call'[q] = call[q],
         w \in Requests /\ l \in Driving => pc[w] \in Driving /\ call'[w] = call[w],
         l # "drop"
  PROVE  Pairs'
<1>1. pc'[w] = l /\ \A v \in Workers: v # w => pc'[v] = pc[v] BY DEF Goto, Inv, TypeOK
<1>2. \A s \in Sessions: Same(s) BY DEF Same
<1>3. \A s \in Sessions: Paired(s)' BY <1>2, MovePairs, ApprovalFacts DEF Pairs
<1>4. KeysLost /\ KeptLost BY DEF KeysLost, KeptLost
<1>5. \A q \in Requests: /\ pc'[q] \in Driving => pc[q] \in Driving /\ call'[q] = call[q]
                         /\ pc'[q] = "drop" => pc[q] = "drop"
  BY <1>1, ApprovalFacts
<1>6. Resumed' /\ Dropping' BY <1>4, <1>5, RestKeeps DEF Pairs
<1> QED BY <1>3, <1>6 DEF Pairs

\* The key is gone, or parted from the graph, and the worker goes elsewhere.
LEMMA PartPairs ==
  ASSUME Inv, Inv', Pairs, NEW w \in Workers, NEW l, Goto(w, l), shown' = shown,
         \A s \in Sessions: s # Sess(w) =>
           /\ key'[s] = key[s] /\ overlap'[s] = overlap[s] /\ (s \in orphaned => s \in orphaned')
           /\ paused'[s] = paused[s] /\ aged'[s] = aged[s],
         key'[Sess(w)] = None \/ (Home(Sess(w))' /\ Apart(Sess(w))'),
         KeysLost, KeptLost, \A q \in Requests: q # w => call'[q] = call[q],
         l \notin Driving,
         l = "drop" => key'[Sess(w)] = None
  PROVE  Pairs'
<1>1. pc'[w] = l /\ \A v \in Workers: v # w => pc'[v] = pc[v] BY DEF Goto, Inv, TypeOK
<1>2. \A s \in Sessions: s # Sess(w) => Same(s) BY DEF Same
<1>3. \A s \in Sessions: Paired(s)' BY <1>2, MovePairs DEF Pairs
<1>4. \A q \in Requests: Sess(q) \in Sessions /\ q \in Workers /\ q \notin Runs BY ApprovalFacts
<1>5. Resumed' BY <1>1, <1>4 DEF Pairs, Resumed, KeptLost, Drives, Sess
<1>6. Dropping' BY <1>1, <1>4 DEF Pairs, Dropping, KeysLost, Sess
<1> QED BY <1>3, <1>5, <1>6 DEF Pairs

\* A fault parts the key from the graph.
LEMMA OrphanFacts ==
  ASSUME NEW s \in Sessions, Orphan({s}), key' = key, \A t \in Sessions: Paired(t)
  PROVE  /\ key'[s] = None \/ (Home(s)' /\ Apart(s)')
         /\ orphaned \subseteq orphaned' /\ orphaned' \subseteq orphaned \cup {s}
BY DEF Orphan, Apart, Paired, Home

LEMMA BeginPairs ==
  ASSUME Inv, Inv', Pairs, NEW r \in Runs, Begin(r)
  PROVE  Pairs'
<1>1. /\ pc[r] = "new" /\ r \in Workers /\ Sess(r) \in Sessions
      /\ paused' = [s \in Sessions |-> IF aged[s] THEN None ELSE paused[s]]
      /\ aged' = [s \in Sessions |-> FALSE]
      /\ UNCHANGED <<key, call, overlap, orphaned, shown>>
  BY ApprovalFacts DEF Begin, history
<1>2. /\ pc'[r] = IF paused'[Sess(r)] = None THEN "slock" ELSE "done"
      /\ \A v \in Workers: v # r => pc'[v] = pc[v]
  BY <1>1 DEF Begin, Goto, Inv, TypeOK
<1>3. ASSUME NEW s \in Sessions, paused'[s] # None PROVE Paired(s)'
  <2>1. Same(s) BY <1>1, <1>3 DEF Same
  <2>2. \A w \in Workers: Sess(w) = s => /\ Parts(w) => Parts(w)'
                                         /\ Waits(w)' => Waits(w)
    BY <1>1, <1>2, <1>3 DEF Parts, Waits, Driving
  <2> QED BY <2>1, <2>2, SameKeeps DEF Pairs
<1>4. ASSUME NEW s \in Sessions, paused'[s] = None PROVE Paired(s)'
  <2>1. Paired(s) BY DEF Pairs
  <2>2. key[s] \notin shown \/ Apart(s)
    <3>1. SUFFICES ASSUME key[s] \in shown, ~Apart(s) PROVE FALSE OBVIOUS
    <3>2. key[s] \in Approval BY <3>1 DEF Inv, TypeOK
    <3>3. key[s][1] \in Runs /\ key[s] = <<key[s][1], key[s][2]>> /\ key[s][1] # None
      BY <3>2, ApprovalFacts
    <3>4. paused[s] = key[s][1] BY <2>1, <3>1 DEF Paired, Served
    <3>5. aged[s] BY <1>1, <1>4, <3>3, <3>4
    <3>6. key[s] \notin {paused[s]} \X Nat BY <2>1, <3>1, <3>3, <3>4, <3>5 DEF Paired, Outlived
    <3>7. key[s] \in Runs \X Nat BY <3>2 DEF Approval
    <3> QED BY <3>3, <3>4, <3>6, <3>7
  <2>3. Apart(s) => Apart(s)'
    BY <1>1, <1>2 DEF Apart, Sess
  <2>4. Served(s)' /\ Awaited(s)' BY <1>1, <2>2, <2>3 DEF Served, Awaited
  <2>5. Outlived(s)' /\ Home(s)' BY <1>1, <2>1 DEF Outlived, Paired, Home
  <2> QED BY <2>4, <2>5 DEF Paired
<1>5. KeysLost /\ KeptLost BY <1>1 DEF KeysLost, KeptLost
<1>6. Resumed' /\ Dropping' BY <1>1, <1>2, <1>5, RestKeeps, ApprovalFacts DEF Pairs
<1> QED BY <1>3, <1>4, <1>6 DEF Pairs

LEMMA WritePairs ==
  ASSUME Inv, Inv', Pairs, NEW w \in Workers, Write(w)
  PROVE  Pairs'
<1>1. /\ pc[w] = "write" /\ Goto(w, "set") /\ Sess(w) \in Sessions
      /\ key' = [key EXCEPT ![Sess(w)] = Here(Drives(w))]
      /\ UNCHANGED <<paused, aged, call, overlap, orphaned, shown>>
  BY ApprovalFacts DEF Write, memory, history
<1>2. pc'[w] = "set" /\ \A v \in Workers: v # w => pc'[v] = pc[v]
  BY <1>1 DEF Goto, Inv, TypeOK
<1>3. Drives(w) \in Runs /\ SessionOf[Drives(w)] = Sess(w) /\ slock[Sess(w)] = w
  BY <1>1 DEF Inv, Control, Driven, Locked, HoldsSession, Driving
<1>4. /\ key'[Sess(w)] = Here(Drives(w)) /\ Here(Drives(w))[1] = Drives(w)
      /\ \A s \in Sessions: s # Sess(w) => key'[s] = key[s]
  BY <1>1 DEF Inv, TypeOK, Here
<1>5. Home(Sess(w))' /\ Apart(Sess(w))' BY <1>2, <1>3, <1>4 DEF Home, Apart, Sess
<1>6. \A s \in Sessions: s # Sess(w) => Same(s) BY <1>1, <1>4 DEF Same
<1>7. \A s \in Sessions: Paired(s)' BY <1>1, <1>5, <1>6, MovePairs DEF Pairs
<1>8. \A q \in Requests: Sess(q) \in Sessions /\ q \in Workers /\ q \notin Runs BY ApprovalFacts
<1>9. Resumed' BY <1>1, <1>2, <1>8 DEF Pairs, Resumed, Drives, Sess, Driving
<1>10. \A q \in Requests: pc'[q] = "drop" => Sess(q) # Sess(w) /\ pc[q] = "drop"
  BY <1>1, <1>2, <1>3, <1>8 DEF Inv, Control, Locked, HoldsSession
<1>11. Dropping' BY <1>4, <1>8, <1>10 DEF Pairs, Dropping, Sess
<1> QED BY <1>7, <1>9, <1>11 DEF Pairs

LEMMA SetPausedPairs ==
  ASSUME Inv, Inv', Pairs, NEW w \in Workers, SetPaused(w)
  PROVE  Pairs'
<1> DEFINE x == Drives(w)
           t == Sess(w)
<1>1. /\ pc[w] = "set" /\ Goto(w, "done") /\ t \in Sessions /\ key' = key
      /\ \A q \in Requests: q # w => call'[q] = call[q]
      /\ paused' = [paused EXCEPT ![t] = x] /\ aged' = [aged EXCEPT ![t] = FALSE]
      /\ shown' = shown \cup {Here(x)}
      /\ overlap' = [overlap EXCEPT ![t] = {r \in Runs: Sess(r) = t /\ pc[r] = "slock"}]
      /\ orphaned' = orphaned \ {t}
  BY ApprovalFacts, ReturnFacts DEF SetPaused
<1>2. pc'[w] = "done" /\ \A v \in Workers: v # w => pc'[v] = pc[v]
  BY <1>1 DEF Goto, Inv, TypeOK
<1>3. /\ x \in Runs /\ SessionOf[x] = t /\ slock[t] = w /\ key[t] \in {None, Here(x)}
      /\ Here(x)[1] = x
  BY <1>1 DEF Inv, Control, Driven, Locked, Keys, Written, HoldsSession, Driving, Here
<1>4. /\ paused'[t] = x /\ aged'[t] = FALSE
      /\ overlap'[t] = {r \in Runs: Sess(r) = t /\ pc[r] = "slock"}
      /\ \A s \in Sessions: s # t => /\ paused'[s] = paused[s] /\ aged'[s] = aged[s]
                                     /\ overlap'[s] = overlap[s]
  BY <1>1 DEF Inv, TypeOK
<1>5. \A v \in Workers: v # w /\ pc[v] \in HoldsSession => Sess(v) # t
  BY <1>3 DEF Inv, Control, Locked
<1> HIDE DEF x, t
<1>6. ASSUME NEW s \in Sessions, s # t PROVE Paired(s)'
  <2>1. key[s] # Here(x)
    <3>1. Home(s) BY DEF Pairs, Paired
    <3>2. Here(x) # None BY <1>1 DEF Inv, Control, Interrupted, x, Approval
    <3> QED BY <1>3, <1>6, <3>1, <3>2 DEF Home
  <2>2. Same(s) BY <1>1, <1>4, <1>6, <2>1 DEF Same
  <2>3. \A v \in Workers: Sess(v) = s => /\ Parts(v) => Parts(v)'
                                         /\ Waits(v)' => Waits(v)
    BY <1>2, <1>6 DEF Parts, Waits, t
  <2> QED BY <2>2, <2>3, SameKeeps DEF Pairs
<1>7. Paired(t)'
  <2>1. CASE key[t] = None BY <1>1, <2>1, GonePaired DEF Inv
  <2>2. CASE key[t] = Here(x)
    <3>1. Served(t)' BY <1>1, <1>3, <1>4, <2>2 DEF Served
    <3>2. Outlived(t)' BY <1>4 DEF Outlived
    <3>3. Home(t)' BY <1>1, <1>3, <2>2 DEF Home
    <3>4. ASSUME NEW r \in Runs, Sess(r) = t, pc'[r] \in Driving \cup {"slock"}
          PROVE  r \in overlap'[t]
      <4>1. r \in Workers /\ r # w /\ pc[r] = pc'[r] BY <1>2, <3>4, ApprovalFacts DEF Driving
      <4>2. pc[r] = "slock" BY <1>5, <3>4, <4>1 DEF HoldsSession
      <4> QED BY <1>4, <3>4, <4>2
    <3>5. Awaited(t)' BY <3>4 DEF Awaited, Sess
    <3> QED BY <3>1, <3>2, <3>3, <3>5 DEF Paired
  <2> QED BY <1>3, <2>1, <2>2
<1>8. \A q \in Requests: Sess(q) \in Sessions /\ q \in Workers /\ q \notin Runs BY ApprovalFacts
<1>9. ASSUME NEW q \in Requests, pc'[q] \in Driving PROVE paused'[Sess(q)] \in {None, Drives(q)'}
  <2>1. q # w /\ pc[q] \in Driving /\ call'[q] = call[q] BY <1>1, <1>2, <1>8, <1>9 DEF Driving
  <2>2. Sess(q) # t BY <1>5, <1>8, <2>1 DEF HoldsSession
  <2> QED BY <1>4, <1>8, <2>1, <2>2 DEF Pairs, Resumed, Drives
<1>10. Resumed' BY <1>9 DEF Resumed, Sess
<1>11. Dropping' BY <1>1, <1>2, <1>8 DEF Pairs, Dropping, Sess
<1> QED BY <1>6, <1>7, <1>10, <1>11 DEF Pairs

\* The end of a run leaves key and graph; that of a resume drops the graph.
LEMMA LoopEndsPairs ==
  ASSUME Inv, Inv', Pairs, NEW w \in Workers, pc[w] \in Driving \ {"set"},
         LoopEnds(w) \/ (Return(w) /\ UNCHANGED memory),
         UNCHANGED <<key, overlap, orphaned, shown>>
  PROVE  Pairs'
<1>1. Sess(w) \in Sessions BY ApprovalFacts
<1>2. CASE Return(w) /\ UNCHANGED memory
  <2>1. Goto(w, "done") /\ \A q \in Requests: q # w => call'[q] = call[q]
    BY <1>2, ReturnFacts
  <2> QED BY <1>2, <2>1, QuietPairs DEF memory, Driving
<1>3. CASE Goto(w, "erase") /\ Pop(Sess(w)) /\ UNCHANGED <<call, locks>>
  <2>1. /\ \A t \in Sessions: t # Sess(w) => paused'[t] = paused[t] /\ aged'[t] = aged[t]
        /\ KeptLost
    BY <1>1, <1>3, PopFacts DEF Inv
  <2>2. pc'[w] = "erase" BY <1>3 DEF Goto, Inv, TypeOK
  <2>3. Home(Sess(w))' /\ Apart(Sess(w))'
    BY <1>1, <2>2 DEF Pairs, Paired, Home, Apart, Sess
  <2>4. KeysLost BY DEF KeysLost
  <2> QED BY <1>3, <2>1, <2>3, <2>4, PartPairs DEF Driving
<1> QED BY <1>2, <1>3 DEF LoopEnds

LEMMA DrivePairs ==
  ASSUME Inv, Inv', Pairs, NEW w \in Workers, Drive(w) \/ Hang(w) \/ TakeSession(w) \/ WriteFails(w)
  PROVE  Pairs'
<1>1. CASE Model(w) \/ Tools(w) \/ Decide(w) \/ Hang(w)
  <2>1. /\ pc[w] \in {"run", "decide"}
        /\ UNCHANGED <<key, paused, aged, call, overlap, orphaned, shown>>
    BY <1>1 DEF Model, Tools, Decide, Hang, memory, history
  <2>2. \E l \in Driving \ {"set"}: Goto(w, l)
    <3>1. pc' = pc => Goto(w, pc[w]) BY DEF Goto, Inv, TypeOK
    <3> QED BY <1>1, <2>1, <3>1 DEF Model, Tools, Decide, Hang, Driving
  <2> QED BY <2>1, <2>2, QuietPairs DEF Driving
<1>2. CASE Finish(w) \/ TimedOut(w) \/ WriteFails(w)
  BY <1>2, LoopEndsPairs DEF Finish, TimedOut, WriteFails, Driving, history
<1>3. CASE TakeSession(w)
  <2>1. /\ pc[w] = "slock" /\ Goto(w, IF w \in Runs THEN "run" ELSE "check")
        /\ UNCHANGED <<key, paused, aged, call, overlap, orphaned, shown>>
    BY <1>3 DEF TakeSession, memory, history
  <2> QED BY <2>1, QuietPairs, ApprovalFacts DEF Driving
<1> QED BY <1>1, <1>2, <1>3, WritePairs, SetPausedPairs DEF Drive

LEMMA AnswerPairs ==
  ASSUME Inv, Inv', Pairs, NEW q \in Requests, Ask(q) \/ Answer(q) \/ TakeGlobal(q)
  PROVE  Pairs'
<1>1. q \in Workers /\ q \notin Runs /\ Sess(q) \in Sessions BY ApprovalFacts
<1>2. CASE Ask(q) \/ TakeGlobal(q)
  <2>1. CASE Ask(q)
    <3>1. PICK c : call' = [call EXCEPT ![q] = c] /\ Goto(q, IF c.kind = "resume" THEN "look" ELSE "glock")
      BY <2>1 DEF Ask
    <3>2. pc[q] = "new" /\ UNCHANGED <<key, paused, aged, overlap, orphaned, shown>>
      BY <2>1 DEF Ask, memory
    <3>3. \A p \in Requests: p # q => call'[p] = call[p] BY <3>1 DEF Inv, TypeOK
    <3>4. \E l \in {"look", "glock"}: Goto(q, l) BY <3>1
    <3> QED BY <1>1, <3>2, <3>3, <3>4, QuietPairs DEF Driving
  <2>2. CASE TakeGlobal(q)
    <3>1. /\ pc[q] = "glock" /\ Goto(q, "slock")
          /\ UNCHANGED <<key, paused, aged, call, overlap, orphaned, shown>>
      BY <2>2 DEF TakeGlobal, memory, history
    <3> QED BY <1>1, <3>1, QuietPairs DEF Driving
  <2> QED BY <1>2, <2>1, <2>2
<1>3. CASE Return(q) /\ UNCHANGED <<key, memory, overlap, orphaned, shown>>
           /\ pc[q] \in {"look", "check"}
  BY <1>1, <1>3, ReturnFacts, QuietPairs DEF Driving, memory
<1>4. CASE Look(q)
  <2>1. CASE key[Sess(q)] = None BY <1>3, <1>4, <2>1 DEF Look, history
  <2>2. CASE key[Sess(q)] # None
    <3>1. /\ pc[q] = "look" /\ Goto(q, "glock")
          /\ UNCHANGED <<key, paused, aged, call, overlap, orphaned, shown>>
      BY <1>4, <2>2 DEF Look, memory, history
    <3> QED BY <1>1, <3>1, QuietPairs DEF Driving
  <2> QED BY <2>1, <2>2
<1>5. CASE Resume(q)
  <2>1. CASE Return(q) BY <1>3, <1>5, <2>1 DEF Resume, history
  <2>2. CASE ~Return(q)
    <3>1. /\ pc[q] = "check" /\ Goto(q, "run")
          /\ call' = [call EXCEPT ![q].drives = paused[Sess(q)]]
          /\ UNCHANGED <<key, paused, aged, overlap, orphaned, shown>>
      BY <1>5, <2>2 DEF Resume, memory, history
    <3>2. /\ call'[q].drives = paused[Sess(q)] /\ pc'[q] = "run"
          /\ \A p \in Requests: p # q => call'[p] = call[p] /\ pc'[p] = pc[p]
      BY <1>1, <3>1, ApprovalFacts DEF Goto, Inv, TypeOK
    <3>3. \A s \in Sessions: Same(s) BY <3>1 DEF Same
    <3>4. \A s \in Sessions: Paired(s)'
      BY <1>1, <3>1, <3>3, MovePairs DEF Pairs
    <3>5. Resumed' BY <1>1, <3>1, <3>2, ApprovalFacts DEF Pairs, Resumed, Drives, Sess
    <3>6. Dropping' BY <3>1, <3>2 DEF Pairs, Dropping, Sess
    <3> QED BY <3>4, <3>5, <3>6 DEF Pairs
  <2> QED BY <2>1, <2>2
<1>6. CASE Discard(q)
  <2>1. CASE KeyGone(Sess(q)) /\ Goto(q, "drop") /\ UNCHANGED <<call, locks>>
    <3>1. UNCHANGED <<paused, aged, shown>> BY <1>6 DEF Discard, memory
    <3>2. KeptLost BY <3>1 DEF KeptLost
    <3> QED BY <1>1, <2>1, <3>1, <3>2, KeyGoneFacts, PartPairs DEF Inv, Driving
  <2>2. CASE Return(q) /\ UNCHANGED <<key, overlap, orphaned>>
    BY <1>3, <1>6, <2>2 DEF Discard
  <2> QED BY <1>6, <2>1, <2>2 DEF Discard
<1>7. CASE Drop(q)
  <2>1. /\ pc[q] = "drop" /\ Pop(Sess(q)) /\ Return(q)
        /\ UNCHANGED <<key, overlap, orphaned, shown>>
    BY <1>7 DEF Drop, history
  <2>2. key[Sess(q)] = None BY <2>1 DEF Pairs, Dropping
  <2>3. KeysLost BY <2>1 DEF KeysLost
  <2> QED BY <1>1, <2>1, <2>2, <2>3, PopFacts, ReturnFacts, PartPairs DEF Inv, Driving
<1>8. CASE Erase(q)
  <2>1. KeyGone(Sess(q)) /\ Return(q) /\ UNCHANGED <<paused, aged, shown>>
    BY <1>8 DEF Erase, memory
  <2>2. KeptLost BY <2>1 DEF KeptLost
  <2> QED BY <1>1, <2>1, <2>2, KeyGoneFacts, ReturnFacts, PartPairs DEF Inv, Driving
<1> QED BY <1>2, <1>4, <1>5, <1>6, <1>7, <1>8 DEF Answer

\* Nobody moves: a key expires or an entry ages.
LEMMA TimePairs ==
  ASSUME Inv, Inv', Pairs, UNCHANGED <<pc, call>>, KeysLost, KeptLost,
         \A s \in Sessions: Same(s) \/ key'[s] = None \/ (Home(s) /\ Apart(s))'
  PROVE  Pairs'
<1>1. ASSUME NEW s \in Sessions PROVE Paired(s)'
  <2>1. \A w \in Workers: Sess(w) = s => /\ Parts(w) => Parts(w)'
                                         /\ Waits(w)' => Waits(w)
    BY DEF Parts, Waits
  <2>2. CASE Same(s) BY <2>1, <2>2, SameKeeps DEF Pairs
  <2>3. CASE key'[s] = None BY <2>3, GonePaired DEF Inv
  <2>4. CASE (Home(s) /\ Apart(s))' BY <2>4, ApartPaired
  <2> QED BY <2>2, <2>3, <2>4
<1>2. Resumed' /\ Dropping' BY RestKeeps DEF Pairs
<1> QED BY <1>1, <1>2 DEF Pairs

LEMMA ExpirePairs ==
  ASSUME Inv, Inv', Pairs, NEW s \in Sessions, Expire(s) \/ Age(s)
  PROVE  Pairs'
<1>1. CASE Expire(s)
  <2>1. KeyGone(s) /\ UNCHANGED <<paused, aged, pc, call, shown>> BY <1>1 DEF Expire, memory
  <2>2. KeptLost BY <2>1 DEF KeptLost
  <2>3. \A t \in Sessions: Same(t) \/ key'[t] = None
    BY <2>1, KeyGoneFacts DEF Inv, Same
  <2> QED BY <2>1, <2>2, <2>3, KeyGoneFacts, TimePairs DEF Inv
<1>2. CASE Age(s)
  <2>1. /\ UNCHANGED <<key, paused, pc, call, overlap, orphaned, shown>>
        /\ key[s] \notin {paused[s]} \X Nat /\ aged' = [aged EXCEPT ![s] = TRUE]
    BY <1>2 DEF Age, history
  <2>2. KeysLost /\ KeptLost BY <2>1 DEF KeysLost, KeptLost
  <2>3. \A t \in Sessions: Same(t) BY <2>1 DEF Same, Inv, TypeOK
  <2> QED BY <2>1, <2>2, <2>3, TimePairs
<1> QED BY <1>1, <1>2

LEMMA CleanPairs == ASSUME Inv, Inv', Pairs, Clean PROVE Pairs'
<1>1. UNCHANGED <<key, pc, call, shown, overlap>>
  BY DEF Clean, CleanStart, CleanLook, CleanTake, CleanCheck, CleanPop, CleanUnchanged
<1>2. KeysLost BY <1>1 DEF KeysLost
<1>3. CASE UNCHANGED <<memory, orphaned>>
  <2>1. KeptLost BY <1>3 DEF KeptLost, memory
  <2>2. \A s \in Sessions: Same(s) BY <1>1, <1>3 DEF Same, memory
  <2> QED BY <1>1, <1>2, <2>1, <2>2, TimePairs
<1>4. CASE CleanPop
  <2>1. PICK s \in clean.todo: Pop(s) /\ Orphan({s}) BY <1>4 DEF CleanPop
  <2>2. s \in Sessions BY DEF Inv, TypeOK
  <2>3. /\ \A t \in Sessions: t # s => paused'[t] = paused[t] /\ aged'[t] = aged[t]
        /\ KeptLost
    BY <2>1, <2>2, PopFacts DEF Inv
  <2>4. /\ key'[s] = None \/ (Home(s)' /\ Apart(s)')
        /\ orphaned \subseteq orphaned'
    BY <1>1, <2>1, <2>2, OrphanFacts DEF Pairs
  <2>5. \A t \in Sessions: t # s => Same(t) BY <1>1, <2>3, <2>4 DEF Same
  <2> QED BY <1>1, <1>2, <2>3, <2>4, <2>5, TimePairs
<1> QED BY <1>3, <1>4 DEF Clean, CleanStart, CleanLook, CleanTake, CleanCheck

LEMMA FaultPairs == ASSUME Inv, Inv', Pairs, Faults PROVE Pairs'
<1>1. ASSUME NEW w \in Workers, Return(w), pc[w] # "new", UNCHANGED <<key, overlap, shown>>,
             \/ /\ UNCHANGED <<memory, orphaned>> /\ pc[w] \notin {"set", "erase"}
             \/ Orphan({Sess(w)}) /\ (UNCHANGED memory \/ Pop(Sess(w)))
      PROVE  Pairs'
  <2>1. Sess(w) \in Sessions BY ApprovalFacts
  <2>2. Goto(w, "done") /\ \A q \in Requests: q # w => call'[q] = call[q] BY <1>1, ReturnFacts
  <2>3. CASE UNCHANGED <<memory, orphaned>> /\ pc[w] \notin {"set", "erase"}
    BY <1>1, <2>2, <2>3, QuietPairs DEF memory, Driving
  <2>4. CASE Orphan({Sess(w)}) /\ (UNCHANGED memory \/ Pop(Sess(w)))
    <3>1. /\ key'[Sess(w)] = None \/ (Home(Sess(w))' /\ Apart(Sess(w))')
          /\ orphaned \subseteq orphaned'
      BY <1>1, <2>1, <2>4, OrphanFacts DEF Pairs, Sess
    <3>2. /\ \A t \in Sessions: t # Sess(w) => paused'[t] = paused[t] /\ aged'[t] = aged[t]
          /\ KeptLost
      BY <2>1, <2>4, PopFacts DEF Inv, KeptLost, memory
    <3>3. KeysLost BY <1>1 DEF KeysLost
    <3> QED BY <1>1, <2>2, <3>1, <3>2, <3>3, PartPairs DEF Driving
  <2> QED BY <1>1, <2>3, <2>4
<1>2. ASSUME NEW w \in Workers, Cancel(w) PROVE Pairs'
  <2>1. /\ pc[w] # "new" /\ Return(w) /\ UNCHANGED <<key, memory, overlap, shown>>
        /\ Orphan(IF pc[w] \in {"set", "erase"} THEN {Sess(w)} ELSE {})
    BY <1>2 DEF Cancel
  <2>2. Orphan({}) => UNCHANGED orphaned BY DEF Orphan
  <2> QED BY <1>1, <2>1, <2>2
<1>3. CASE RedisFails
  <2>1. UNCHANGED <<key, overlap, shown>> BY <1>3 DEF RedisFails
  <2>2. Orphan({}) => UNCHANGED orphaned BY DEF Orphan
  <2>3. CASE \E q \in Requests:
               /\ pc[q] \in {"look", "check", "erase"} /\ Return(q)
               /\ Orphan(IF pc[q] = "erase" THEN {Sess(q)} ELSE {})
               /\ UNCHANGED memory
    BY <1>1, <2>1, <2>2, <2>3, ApprovalFacts
  <2>4. CASE \E q \in Requests:
               /\ pc[q] = "check" /\ Pop(Sess(q)) /\ Return(q) /\ Orphan({Sess(q)})
    BY <1>1, <2>1, <2>4, ApprovalFacts
  <2> QED BY <1>3, <2>3, <2>4 DEF RedisFails
<1>5. CASE CleanFails
  <2>1. UNCHANGED <<key, overlap, shown, pc, call, memory, orphaned>>
    BY <1>5 DEF CleanFails, history
  <2>2. KeysLost /\ KeptLost BY <2>1 DEF KeysLost, KeptLost, memory
  <2>3. \A s \in Sessions: Same(s) BY <2>1 DEF Same, memory
  <2> QED BY <2>1, <2>2, <2>3, TimePairs
<1>4. CASE Restart
  <2>1. /\ \A w \in Workers: pc'[w] \in {"new", "done"}
        /\ key' = key /\ Orphan(Sessions)
    BY <1>4 DEF Restart
  <2>2. ASSUME NEW s \in Sessions PROVE Paired(s)'
    <3>1. CASE key[s] = None BY <2>1, <3>1, GonePaired DEF Inv
    <3>2. CASE key[s] # None
      <4>1. Apart(s)' BY <2>1, <3>2 DEF Orphan, Apart
      <4>2. Home(s)' BY <2>1 DEF Pairs, Paired, Home
      <4> QED BY <4>1, <4>2, ApartPaired
    <3> QED BY <3>1, <3>2
  <2>3. Resumed' /\ Dropping' BY <2>1, ApprovalFacts DEF Resumed, Dropping, Driving
  <2> QED BY <2>2, <2>3 DEF Pairs
<1> QED BY <1>2, <1>3, <1>4, <1>5, DrivePairs DEF Faults

LEMMA InitPairs == Init => Pairs
<1> SUFFICES ASSUME Init PROVE Pairs OBVIOUS
<1>1. \A s \in Sessions: key[s] = None /\ ~aged[s] BY DEF Init
<1>2. shown = {} /\ \A w \in Workers: pc[w] = "new" BY DEF Init
<1>3. \A s \in Sessions: Paired(s)
  BY <1>1, <1>2 DEF Paired, Served, Outlived, Home, Awaited
<1> QED BY <1>2, <1>3, ApprovalFacts DEF Pairs, Resumed, Dropping, Driving

LEMMA NextPairs == Inv /\ Pairs /\ [Next]_vars => Pairs'
<1> SUFFICES ASSUME Inv, Pairs, [Next]_vars PROVE Pairs' OBVIOUS
<1>1. Inv' BY NextKeeps
<1>2. ASSUME UNCHANGED vars PROVE Pairs'
  <2>1. UNCHANGED <<key, paused, aged, pc, call, overlap, orphaned, shown>> BY <1>2 DEF vars
  <2>2. KeysLost /\ KeptLost BY <2>1 DEF KeysLost, KeptLost
  <2>3. \A s \in Sessions: Same(s) BY <2>1 DEF Same
  <2> QED BY <1>1, <2>1, <2>2, <2>3, TimePairs
<1> QED BY <1>1, <1>2, BeginPairs, AnswerPairs, DrivePairs, ExpirePairs, CleanPairs, FaultPairs
    DEF Next

LEMMA PairsAlways == Spec => []Pairs
BY InvAlways, InitPairs, NextPairs, PTL DEF Spec

\* As long as the key of an approval the user has seen lives its graph is
\* kept, between two calls and unless a fault has parted the two
\* (_paused_sg_agents and the pending key of agents/base_agent.py).
THEOREM ServedWhileKept == Spec => []Servable
<1>1. ASSUME Inv, Pairs PROVE Servable
  <2>1. SUFFICES ASSUME NEW s \in Sessions, key[s] \in shown, slock[s] = None, s \notin orphaned
                 PROVE  paused[s] = key[s][1]
    BY DEF Servable
  <2>2. \A w \in Workers: pc[w] \in {"set", "erase"} => Sess(w) # s
    BY <1>1, <2>1, ApprovalFacts DEF Inv, Control, Locked, HoldsSession, Driving
  <2> QED BY <1>1, <2>1, <2>2 DEF Pairs, Paired, Served, Apart
<1> QED BY <1>1, InvAlways, PairsAlways, PTL

\* Only the write of a pause makes a new key.
LEMMA NewKeys ==
  ASSUME Inv, [Next]_vars, NEW s \in Sessions, key'[s] \notin {key[s], None}
  PROVE  \E w \in Workers: Write(w) /\ Sess(w) = s
<1>1. KeysLost => FALSE BY DEF KeysLost
<1>2. key' = key => FALSE OBVIOUS
<1>3. \A t \in Sessions: KeyGone(t) => FALSE BY <1>1, KeyGoneFacts DEF Inv
<1>4. \A w \in Workers: Sess(w) \in Sessions BY ApprovalFacts
<1>5. ASSUME NEW r \in Runs, Begin(r) PROVE FALSE BY <1>2, <1>5 DEF Begin
<1>6. ASSUME NEW q \in Requests, Ask(q) \/ Answer(q) \/ TakeGlobal(q) PROVE FALSE
  <2>1. key' = key \/ KeyGone(Sess(q))
    BY <1>6 DEF Ask, Answer, TakeGlobal, Look, Resume, Discard, Drop, Erase
  <2> QED BY <1>2, <1>3, <1>4, <2>1, ApprovalFacts
<1>7. ASSUME NEW w \in Workers, Drive(w) \/ Hang(w) \/ TakeSession(w)
      PROVE  \E v \in Workers: Write(v) /\ Sess(v) = s
  <2>1. key' = key \/ Write(w)
    BY <1>7 DEF Drive, Model, Tools, Decide, SetPaused, Finish, TimedOut, Hang, TakeSession
  <2>2. Write(w) /\ key' = [key EXCEPT ![Sess(w)] = Here(Drives(w))] BY <1>2, <2>1 DEF Write
  <2>3. Sess(w) = s BY <2>2 DEF Inv, TypeOK
  <2> QED BY <2>2, <2>3
<1>8. ASSUME NEW t \in Sessions, Expire(t) \/ Age(t) PROVE FALSE
  BY <1>2, <1>3, <1>8 DEF Expire, Age
<1>9. ASSUME Clean PROVE FALSE
  BY <1>2, <1>9 DEF Clean, CleanStart, CleanLook, CleanTake, CleanCheck, CleanPop, CleanUnchanged
<1>10. ASSUME Faults PROVE FALSE
  BY <1>2, <1>10 DEF Faults, Cancel, WriteFails, RedisFails, CleanFails, Restart
<1>11. ASSUME UNCHANGED vars PROVE FALSE BY <1>2, <1>11 DEF vars
<1> QED BY <1>5, <1>6, <1>7, <1>8, <1>9, <1>10, <1>11 DEF Next

\* An approval the user has been asked for is replaced only by a run that was
\* waiting when the session paused, or after a fault: a resume that pauses
\* again drives the graph that is kept, whose key it was (_check_paused_agent
\* and pre_process of agents/base_agent.py).
THEOREM NotReplaced == Spec => Replaced
<1> DEFINE Step == \A s \in Sessions: \A r \in Runs:
             /\ key[s] \in shown /\ key[s] \notin {r} \X Nat
             /\ key'[s] \in {r} \X Nat
             => r \in overlap[s] \/ s \in orphaned
<1>1. ASSUME Inv, Pairs, [Next]_vars PROVE Step
  <2> SUFFICES ASSUME NEW s \in Sessions, NEW r \in Runs, s \notin orphaned,
                      key[s] \in shown, key[s] \notin {r} \X Nat, key'[s] \in {r} \X Nat
               PROVE  r \in overlap[s]
    OBVIOUS
  <2>1. PICK w \in Workers: Write(w) /\ Sess(w) = s BY <1>1, NewKeys, NamesDistinct
  <2>2. pc[w] = "write" /\ w \in Runs \cup Requests BY <2>1 DEF Write, Workers
  <2>3. key'[s] = Here(Drives(w)) BY <1>1, <2>1 DEF Write, Inv, TypeOK
  <2>4. Drives(w) = r BY <2>3 DEF Here
  <2>5. ~Apart(s)
    <3>1. \A v \in Workers: Sess(v) = s /\ pc[v] \in {"set", "erase"} => v = w
      BY <1>1, <2>1, <2>2 DEF Inv, Control, Locked, HoldsSession, Driving
    <3> QED BY <2>2, <3>1 DEF Apart
  <2>6. Served(s) /\ Awaited(s) BY <1>1 DEF Pairs, Paired
  <2>7. CASE w \in Runs BY <2>1, <2>2, <2>4, <2>5, <2>6, <2>7 DEF Awaited, Drives, Driving
  <2>8. CASE w \in Requests
    <3>1. key[s] \in Approval BY <1>1 DEF Inv, TypeOK
    <3>2. key[s][1] \in Runs /\ key[s] \in {key[s][1]} \X Nat BY <3>1 DEF Approval
    <3>3. paused[s] = key[s][1] BY <2>5, <2>6 DEF Served
    <3>4. paused[s] \in {None, r}
      BY <1>1, <2>1, <2>2, <2>4, <2>8 DEF Pairs, Resumed, Driving
    <3>5. key[s][1] # None BY <3>1, ApprovalFacts
    <3>6. key[s][1] = r BY <3>3, <3>4, <3>5
    <3> QED BY <3>2, <3>6
  <2> QED BY <2>2, <2>7, <2>8
<1>2. Inv /\ Pairs /\ [Next]_vars => [Step]_vars BY <1>1
<1> QED BY <1>2, InvAlways, PairsAlways, PTL DEF Spec, Replaced
=============================================================================
