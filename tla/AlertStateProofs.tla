-------------------------- MODULE AlertStateProofs --------------------------
(***************************************************************************)
(* The cooldowns and the announcements of AlertState, for any modules,     *)
(* alerts and callers.                                                     *)
(***************************************************************************)
EXTENDS AlertState, Ranking, FiniteSetTheorems, TLAPS

\* The alerts whose cooldown a notification has left running.
Kept == noticed \ loose

\* At most one call holds the slot of an alert, and none holds one that a
\* notification or a failed call accounts for: this is why a release only
\* takes away the slot of the call itself.
SlotOwned ==
  \A a \in Alerts : \A c \in Caller : Holds(c, a) =>
    /\ a \notin Kept \cup lost
    /\ \A d \in Caller : Holds(d, a) => d = c

\* A call works on one alert and holds no other's slot; it has nothing before
\* should_notify, and a call that is to give a slot back has it.
CallShape(s) ==
  /\ s \in CallState
  /\ s.pc # "idle" => s.alert \in Alerts
  /\ s.holds \subseteq {s.alert}
  /\ s.pc \in {"idle", "reserve", "remove"} => s.holds = {}
  /\ s.pc = "record" /\ s.then = "idle" => s.holds = {}
  /\ s.pc = "reserve" => s.then # "idle"
  /\ s.pc = "release" => s.holds = {s.alert}
  /\ s.pc = "record" /\ s.then = "release" => s.holds = {s.alert}

CallsTyped ==
  /\ call \in [Caller -> CallState] /\ \A c \in Caller : CallShape(call[c])
  /\ active \subseteq Alerts /\ slot \subseteq Alerts
  /\ noticed \subseteq Alerts /\ loose \subseteq noticed /\ lost \subseteq Alerts

\* The monitor's own state.
MonitorTyped ==
  /\ health \in [Modules -> Alerts \cup {"ok"}]
  /\ pc \in {"sleep", "probe", "check", "record", "publish", "resolve", "remove"}
  /\ results \in [Modules -> Alerts \cup {"ok", "unknown"}]
  /\ pc \in {"check", "record", "publish"} => \A m \in Modules : results[m] # "unknown"
  /\ todo \subseteq Alerts /\ at \in Alerts \cup {NoAlert} /\ fresh \in BOOLEAN
  /\ pc \in {"record", "publish", "remove"} => at \in Alerts

IInv == CallsTyped /\ SlotOwned /\ SlotAccounted

\* The new state of one caller, and the others as they were.
Moves(c, s) == call' = [call EXCEPT ![c] = s]

USE DEF store, monitor, bounds, windows, vars

\* Which slots are accounted for, alert by alert.
LEMMA Accounts ==
  ASSUME IInv
  PROVE  /\ \A a \in Alerts : a \in slot <=> a \in Kept \cup lost \/ \E d \in Caller : Holds(d, a)
         /\ \A d \in Caller : call[d].holds \subseteq Alerts
BY DEF IInv, CallsTyped, SlotAccounted, Holds, Kept, CallState

LEMMA Accounted ==
  ASSUME \A a \in Alerts : (a \in slot <=> a \in Kept \cup lost \/ \E d \in Caller : Holds(d, a))',
         CallsTyped'
  PROVE  SlotAccounted'
BY DEF CallsTyped, SlotAccounted, Holds, Kept, CallState

\* The other calls are what they were.
LEMMA OneCall ==
  ASSUME IInv, NEW c \in Caller, NEW s, CallShape(s), Moves(c, s)
  PROVE  /\ call' \in [Caller -> CallState] /\ \A d \in Caller : CallShape(call'[d])
         /\ call'[c] = s
         /\ \A d \in Caller : d # c => call'[d] = call[d]
BY DEF IInv, CallsTyped, Moves, CallShape

LEMMA NoCallShape == CallShape(NoCall)
BY DEF CallShape, NoCall, CallState

\* A step of one call that keeps what it holds, and of the alerts only the
\* active ones, keeps the invariant.
LEMMA StepKeeps ==
  ASSUME IInv, NEW c \in Caller, NEW s, CallShape(s), Moves(c, s), s.holds = call[c].holds,
         active' \subseteq Alerts, UNCHANGED <<slot, windows>>
  PROVE  IInv'
<1>1. \A d \in Caller : call'[d].holds = call[d].holds BY OneCall
<1>2. Kept' = Kept BY DEF Kept
<1>3. SlotOwned' BY <1>1, <1>2 DEF IInv, SlotOwned, Holds
<1>4. SlotAccounted' BY <1>1 DEF IInv, SlotAccounted
<1>5. CallsTyped' BY OneCall DEF IInv, CallsTyped
<1> QED BY <1>3, <1>4, <1>5 DEF IInv

\* should_notify takes the slot only when nobody has it.
LEMMA ReserveKeeps == ASSUME IInv, NEW c \in Caller, Reserve(c) PROVE IInv'
<1> DEFINE b == call[c].alert
           H == IF b \notin slot THEN {b} ELSE {}
           next == [pc |-> "record", alert |-> b,
                    then |-> IF b \notin slot THEN call[c].then ELSE "idle", holds |-> H]
<1>1. CallShape(call[c]) /\ call[c].pc = "reserve" BY DEF IInv, CallsTyped, Reserve, At
<1>2. b \in Alerts /\ call[c].holds = {} /\ call[c].then \in {"read", "release"}
  BY <1>1 DEF CallShape, CallState
<1>3. CallShape(next) BY <1>2 DEF CallShape, CallState
<1>4. Moves(c, next) BY DEF Reserve, Moves
<1>5. slot' = slot \cup {b} /\ UNCHANGED <<active, windows>> BY DEF Reserve
<1>6. next.holds = H /\ H = IF b \notin slot THEN {b} ELSE {} OBVIOUS
<1> HIDE DEF b, next, H
<1>7. call'[c].holds = H /\ \A d \in Caller : d # c => call'[d].holds = call[d].holds
  BY <1>3, <1>4, <1>6, OneCall
<1>8. CallsTyped' BY <1>2, <1>3, <1>4, <1>5, OneCall DEF IInv, CallsTyped
<1>9. Kept' = Kept BY <1>5 DEF Kept
<1>10. SlotOwned'
  <2> SUFFICES ASSUME NEW a \in Alerts, NEW d \in Caller, Holds(d, a)'
               PROVE  /\ a \notin Kept \cup lost
                      /\ \A e \in Caller : Holds(e, a)' => e = d
    BY <1>5, <1>9 DEF SlotOwned
  <2>1. CASE d = c BY <2>1, <1>6, <1>7, Accounts DEF Holds
  <2>2. CASE d # c
    <3>1. Holds(d, a) BY <2>2, <1>7 DEF Holds
    <3>2. a \in slot /\ a \notin Kept \cup lost /\ \A e \in Caller : Holds(e, a) => e = d
      BY <3>1, Accounts DEF IInv, SlotOwned
    <3> QED BY <2>2, <3>2, <1>6, <1>7 DEF Holds
  <2> QED BY <2>1, <2>2
<1>11. \A a \in Alerts : (\E d \in Caller : Holds(d, a)') <=>
         a \in H \/ \E d \in Caller : Holds(d, a)
  BY <1>2, <1>7 DEF Holds
<1>12. \A a \in Alerts : (a \in slot <=> a \in Kept \cup lost \/ \E d \in Caller : Holds(d, a))'
  BY <1>5, <1>6, <1>9, <1>11, Accounts
<1> QED BY <1>8, <1>10, <1>12, Accounted DEF IInv

\* A call that answers leaves its slot to the notification, or gives it back.
LEMMA AnswerKeeps ==
  ASSUME IInv, NEW c \in Caller, NEW bound \in BOOLEAN, Answers(c, bound),
         active' \subseteq Alerts, slot' = IF bound THEN slot ELSE slot \ call[c].holds
  PROVE  IInv'
<1>1. Moves(c, NoCall) BY DEF Answers, Ends, Moves
<1>2. call'[c].holds = {} /\ \A d \in Caller : d # c => call'[d].holds = call[d].holds
  BY <1>1, NoCallShape, OneCall DEF NoCall
<1>3. \A d \in Caller, a \in Alerts : Holds(d, a)' <=> d # c /\ Holds(d, a) BY <1>2 DEF Holds
<1>4. call[c].holds \subseteq Alerts BY Accounts
<1>5. CallsTyped'
  BY <1>1, <1>4, NoCallShape, OneCall DEF IInv, CallsTyped, Answers
<1>6. \A a \in Alerts : Holds(c, a) =>
       a \notin Kept \cup lost /\ \A d \in Caller : Holds(d, a) => d = c
  BY DEF IInv, SlotOwned
<1>7. lost' = lost /\ Kept' = IF bound THEN Kept \cup call[c].holds ELSE Kept \ call[c].holds
  BY DEF IInv, CallsTyped, Answers, Kept
<1>8. SlotOwned'
  <2> SUFFICES ASSUME NEW a \in Alerts, NEW d \in Caller, Holds(d, a)'
               PROVE  /\ a \notin Kept' \cup lost'
                      /\ \A e \in Caller : Holds(e, a)' => e = d
    BY DEF SlotOwned
  <2>1. d # c /\ Holds(d, a) BY <1>3
  <2>2. a \notin Kept \cup lost /\ \A e \in Caller : Holds(e, a) => e = d
    BY <2>1 DEF IInv, SlotOwned
  <2>3. a \notin call[c].holds BY <2>1, <2>2 DEF Holds
  <2> QED BY <1>3, <1>7, <2>2, <2>3
<1>9. \A a \in Alerts : (a \in slot <=> a \in Kept \cup lost \/ \E d \in Caller : Holds(d, a))'
  <2> TAKE a \in Alerts
  <2>1. CASE Holds(c, a)
    <3>1. a \notin Kept \cup lost /\ a \in slot /\ \A d \in Caller : ~Holds(d, a)'
      BY <1>3, <1>6, <2>1, Accounts
    <3> QED BY <1>7, <2>1, <3>1 DEF Holds
  <2>2. CASE ~Holds(c, a)
    <3>1. (\E d \in Caller : Holds(d, a)') <=> \E d \in Caller : Holds(d, a)
      BY <1>3, <2>2
    <3>2. (a \in slot' <=> a \in slot) /\ (a \in Kept' <=> a \in Kept)
      BY <1>7, <2>2 DEF Holds
    <3> QED BY <1>7, <3>1, <3>2, Accounts
  <2> QED BY <2>1, <2>2
<1> QED BY <1>5, <1>8, <1>9, Accounted DEF IInv

\* A call fails, keeping or not the slot it was just given.
LEMMA FailureKeeps ==
  ASSUME IInv, NEW c \in Caller, CallFails(c) \/ AnswerLost(c) PROVE IInv'
<1> DEFINE L == lost' \ lost
<1>1. Moves(c, NoCall) BY DEF CallFails, AnswerLost, Ends, Moves
<1>2. call'[c].holds = {} /\ \A d \in Caller : d # c => call'[d].holds = call[d].holds
  BY <1>1, NoCallShape, OneCall DEF NoCall
<1>3. \A d \in Caller, a \in Alerts : Holds(d, a)' <=> d # c /\ Holds(d, a) BY <1>2 DEF Holds
<1>4. UNCHANGED <<active, noticed, loose>> /\ Kept' = Kept BY DEF CallFails, AnswerLost, Kept
<1>5. CASE CallFails(c)
  <2>1. slot' = slot /\ lost' = lost \cup call[c].holds BY <1>5 DEF CallFails
  <2>2. CallsTyped' BY <1>1, <1>4, <2>1, NoCallShape, OneCall, Accounts DEF IInv, CallsTyped
  <2>3. SlotOwned' BY <1>3, <1>4, <2>1 DEF IInv, SlotOwned, Holds
  <2>4. \A a \in Alerts : (a \in slot <=> a \in Kept \cup lost \/ \E d \in Caller : Holds(d, a))'
    BY <1>3, <1>4, <2>1, Accounts DEF Holds
  <2> QED BY <2>2, <2>3, <2>4, Accounted DEF IInv
<1>6. CASE AnswerLost(c)
  <2> DEFINE b == call[c].alert
  <2>1. CallShape(call[c]) /\ call[c].pc = "reserve" BY <1>6 DEF IInv, CallsTyped, AnswerLost, At
  <2>2. b \in Alerts /\ call[c].holds = {} BY <2>1 DEF CallShape
  <2>3. b \notin slot /\ slot' = slot \cup {b} /\ lost' = lost \cup {b} BY <1>6 DEF AnswerLost
  <2> HIDE DEF b
  <2>4. CallsTyped' BY <1>1, <1>4, <2>2, <2>3, NoCallShape, OneCall DEF IInv, CallsTyped
  <2>5. SlotOwned'
    <3> SUFFICES ASSUME NEW a \in Alerts, NEW d \in Caller, Holds(d, a)'
                 PROVE  /\ a \notin Kept' \cup lost'
                        /\ \A e \in Caller : Holds(e, a)' => e = d
      BY DEF SlotOwned
    <3>1. Holds(d, a) BY <1>3
    <3>2. a \in slot /\ a \notin Kept \cup lost /\ \A e \in Caller : Holds(e, a) => e = d
      BY <3>1, Accounts DEF IInv, SlotOwned
    <3> QED BY <1>3, <1>4, <2>3, <3>2
  <2>6. \A a \in Alerts : ~Holds(c, a) BY <2>2 DEF Holds
  <2>7. \A a \in Alerts : (a \in slot <=> a \in Kept \cup lost \/ \E d \in Caller : Holds(d, a))'
    BY <1>3, <1>4, <2>3, <2>6, Accounts
  <2> QED BY <2>4, <2>5, <2>7, Accounted DEF IInv
<1> QED BY <1>5, <1>6

\* A crash ends every call.
LEMMA CrashKeeps == ASSUME IInv, Crash PROVE IInv'
<1>1. call' = [c \in Caller |-> NoCall] BY DEF Crash
<1>2. call' \in [Caller -> CallState] /\ \A d \in Caller : CallShape(call'[d])
  BY <1>1, NoCallShape DEF CallShape
<1>3. \A d \in Caller, a \in Alerts : ~Holds(d, a)' BY <1>1 DEF Holds, NoCall
<1>4. UNCHANGED <<active, slot, noticed, loose>> /\ Kept' = Kept BY DEF Crash, Kept
<1>5. lost' = lost \cup UNION {call[c].holds : c \in Caller} BY DEF Crash
<1>6. CallsTyped' BY <1>2, <1>4, <1>5, Accounts DEF IInv, CallsTyped
<1>7. SlotOwned' BY <1>3 DEF SlotOwned
<1>8. \A a \in Alerts : (a \in slot <=> a \in Kept \cup lost \/ \E d \in Caller : Holds(d, a))'
  BY <1>3, <1>4, <1>5, Accounts DEF Holds
<1> QED BY <1>6, <1>7, <1>8, Accounted DEF IInv

\* A cooldown ends that no call holds.
LEMMA CooldownKeeps == ASSUME IInv, NEW b \in Alerts, CooldownEnds(b) PROVE IInv'
<1>1. call' = call /\ active' = active BY DEF CooldownEnds
<1>2. \A d \in Caller, a \in Alerts : Holds(d, a)' <=> Holds(d, a) BY <1>1 DEF Holds
<1>3. /\ slot' = slot \ {b} /\ noticed' = noticed \ {b} /\ loose' = loose \ {b}
      /\ lost' = lost \ {b} /\ \A d \in Caller : ~Holds(d, b)
  BY DEF CooldownEnds
<1>4. Kept' = Kept \ {b} BY <1>3 DEF Kept
<1>5. CallsTyped' BY <1>1, <1>3 DEF IInv, CallsTyped
<1>6. SlotOwned' BY <1>2, <1>3, <1>4 DEF IInv, SlotOwned
<1>7. \A a \in Alerts : (a \in slot <=> a \in Kept \cup lost \/ \E d \in Caller : Holds(d, a))'
  BY <1>2, <1>3, <1>4, Accounts
<1> QED BY <1>5, <1>6, <1>7, Accounted DEF IInv

\* Nothing changes for the calls and the cooldowns.
LEMMA OthersKeep ==
  ASSUME IInv, UNCHANGED <<call, slot, windows>>, active' \subseteq Alerts PROVE IInv'
<1>1. \A d \in Caller, a \in Alerts : Holds(d, a)' <=> Holds(d, a) BY DEF Holds
<1>2. Kept' = Kept BY DEF Kept
<1>3. SlotOwned' BY <1>1, <1>2 DEF IInv, SlotOwned
<1>4. SlotAccounted' BY DEF IInv, SlotAccounted
<1> QED BY <1>3, <1>4 DEF IInv, CallsTyped

\* Every step of a call keeps the invariant.
LEMMA CallKeeps == ASSUME IInv, NEW c \in Caller, Call(c) PROVE IInv'
<1> DEFINE b == call[c].alert
<1>1. CallShape(call[c]) /\ call \in [Caller -> CallState] BY DEF IInv, CallsTyped
<1>2. CASE RecordAlert(c)
  <2>1. PICK a \in Alerts, ticket \in BOOLEAN, check \in BOOLEAN :
          Moves(c, [pc |-> IF check THEN "reserve" ELSE "record", alert |-> a,
                    then |-> IF ticket THEN "read" ELSE IF check THEN "release" ELSE "idle",
                    holds |-> {}])
    BY <1>2 DEF RecordAlert, Moves
  <2> DEFINE s == [pc |-> IF check THEN "reserve" ELSE "record", alert |-> a,
                   then |-> IF ticket THEN "read" ELSE IF check THEN "release" ELSE "idle",
                   holds |-> {}]
  <2>2. CallShape(s) /\ s.holds = {} BY DEF CallShape, CallState
  <2>3. Moves(c, s) BY <2>1
  <2>4. call[c].holds = {} BY <1>1, <1>2 DEF RecordAlert, At, CallShape
  <2>5. active' \subseteq Alerts /\ UNCHANGED <<slot, windows>>
    BY <1>2 DEF RecordAlert, IInv, CallsTyped
  <2> HIDE DEF s
  <2> QED BY <2>2, <2>3, <2>4, <2>5, StepKeeps
<1>3. CASE Reserve(c) BY <1>3, ReserveKeeps
<1>4. CASE RecordByCall(c) \/ NotificationRead(c) \/ NotificationWrite(c)
  <2>1. call[c].pc \in {"record", "read", "write"}
    BY <1>4 DEF RecordByCall, NotificationRead, NotificationWrite, At
  <2>2. b \in Alerts BY <1>1, <2>1 DEF CallShape
  <2>3. active' \subseteq Alerts /\ slot' = slot
    BY <1>4, <2>2 DEF RecordByCall, NotificationRead, NotificationWrite, Put, IInv, CallsTyped
  <2>4. CASE Answers(c, TRUE) BY <2>3, <2>4, AnswerKeeps
  <2>5. CASE ~Answers(c, TRUE)
    <3>1. /\ UNCHANGED windows
          /\ \/ call[c].pc = "record" /\ call[c].then # "idle" /\ Goes(c, call[c].then)
             \/ call[c].pc = "read" /\ Goes(c, "write")
      BY <1>4, <2>5 DEF RecordByCall, NotificationRead, NotificationWrite, At
    <3>2. PICK p : /\ p \in {"read", "write", "release"} /\ Goes(c, p)
                   /\ p = "release" => call[c].pc = "record" /\ call[c].then = "release"
      BY <1>1, <3>1 DEF CallShape, CallState
    <3> DEFINE s == [call[c] EXCEPT !.pc = p]
    <3>3. CallShape(s) /\ s.holds = call[c].holds
      BY <1>1, <2>2, <3>2 DEF CallShape, CallState
    <3>4. Moves(c, s) BY <1>1, <3>2 DEF Goes, Moves, CallState
    <3> HIDE DEF s
    <3> QED BY <2>3, <3>1, <3>3, <3>4, StepKeeps
  <2> QED BY <2>4, <2>5
<1>5. CASE Remove(c)
  <2>1. Moves(c, NoCall) /\ call[c].holds = {} /\ NoCall.holds = {}
    BY <1>1, <1>5 DEF Remove, Ends, Moves, At, CallShape, NoCall
  <2>2. active' \subseteq Alerts /\ UNCHANGED <<slot, windows>>
    BY <1>5 DEF Remove, Gone, IInv, CallsTyped
  <2> QED BY <2>1, <2>2, NoCallShape, StepKeeps
<1>6. CASE Release(c)
  <2>1. call[c].holds = {b} BY <1>1, <1>6 DEF Release, At, CallShape
  <2>2. Answers(c, FALSE) /\ slot' = slot \ call[c].holds /\ active' = active
    BY <1>6, <2>1 DEF Release
  <2> QED BY <2>2, AnswerKeeps DEF IInv, CallsTyped
<1>7. CASE ResolveAlert(c)
  <2>1. PICK a \in active : Moves(c, [NoCall EXCEPT !.pc = "remove", !.alert = a])
    BY <1>7 DEF ResolveAlert, Moves
  <2> DEFINE s == [NoCall EXCEPT !.pc = "remove", !.alert = a]
  <2>2. CallShape(s) /\ s.holds = {} BY DEF CallShape, CallState, NoCall, IInv, CallsTyped
  <2>3. Moves(c, s) BY <2>1
  <2>4. call[c].holds = {} BY <1>1, <1>7 DEF ResolveAlert, At, CallShape
  <2>5. active' \subseteq Alerts /\ UNCHANGED <<slot, windows>>
    BY <1>7 DEF ResolveAlert, IInv, CallsTyped
  <2> HIDE DEF s
  <2> QED BY <2>2, <2>3, <2>4, <2>5, StepKeeps
<1> QED BY <1>2, <1>3, <1>4, <1>5, <1>6, <1>7 DEF Call

\* The monitor keeps its types and only writes alerts.
LEMMA MonitorKeeps ==
  ASSUME IInv, MonitorTyped, Monitor
  PROVE  /\ MonitorTyped' /\ active' \subseteq Alerts
         /\ UNCHANGED <<call, slot, windows>>
<1> USE DEF MonitorTyped, IInv, CallsTyped, NoAlert
<1>1. CASE Wake BY <1>1 DEF Wake
<1>2. ASSUME NEW m \in Modules, Probe(m)
      PROVE /\ MonitorTyped' /\ active' \subseteq Alerts
            /\ UNCHANGED <<call, slot, windows>>
  <2>1. results' = [results EXCEPT ![m] = health[m]] /\ pc = "probe" BY <1>2 DEF Probe
  <2>2. results' \in [Modules -> Alerts \cup {"ok", "unknown"}] BY <2>1
  <2>3. health[m] # "unknown" BY AlertAssumption
  <2>4. results'[m] = health[m] /\ \A n \in Modules \ {m} : results'[n] = results[n] BY <2>1
  <2>5. CASE \A n \in Modules \ {m} : results[n] # "unknown"
    <3>1. \A n \in Modules : results'[n] # "unknown" BY <2>3, <2>4, <2>5
    <3>2. todo' = {results'[n] : n \in Modules} \ {"ok"} /\ pc' = "check"
      BY <1>2, <2>5 DEF Probe
    <3>3. todo' \subseteq Alerts BY <2>2, <3>1, <3>2
    <3> QED BY <1>2, <2>2, <3>1, <3>2, <3>3 DEF Probe
  <2>6. CASE ~\A n \in Modules \ {m} : results[n] # "unknown"
    BY <1>2, <2>1, <2>2, <2>6 DEF Probe
  <2> QED BY <2>5, <2>6
<1>3. ASSUME NEW a \in Alerts, IsActive(a) \/ ResolveRead(a)
      PROVE /\ MonitorTyped' /\ active' \subseteq Alerts
            /\ UNCHANGED <<call, slot, windows>>
  BY <1>3 DEF IsActive, ResolveRead
<1>4. CASE Record BY <1>4 DEF Record, Put
<1>5. CASE Publish BY <1>5 DEF Publish
<1>6. CASE ListActive BY <1>6 DEF ListActive
<1>7. CASE Resolve BY <1>7 DEF Resolve, Gone
<1>8. CASE CycleDone BY <1>8 DEF CycleDone, Asleep, NoResults
<1> QED BY <1>1, <1>2, <1>3, <1>4, <1>5, <1>6, <1>7, <1>8 DEF Monitor

\* Every step keeps the invariant.
LEMMA StepInvariant ==
  ASSUME IInv, MonitorTyped, [Next]_vars PROVE IInv' /\ MonitorTyped'
<1>1. CASE Monitor BY <1>1, MonitorKeeps, OthersKeep
<1>2. ASSUME NEW c \in Caller, Call(c) PROVE IInv' /\ MonitorTyped'
  <2>1. UNCHANGED <<monitor, health>>
    BY <1>2 DEF Call, RecordAlert, Reserve, RecordByCall, NotificationRead,
       NotificationWrite, Release, ResolveAlert, Remove
  <2> QED BY <1>2, <2>1, CallKeeps DEF MonitorTyped
<1>3. CASE MonitorFails
  <2>1. UNCHANGED <<call, slot, windows, active, health>> /\ Asleep BY <1>3 DEF MonitorFails
  <2>2. MonitorTyped' BY <2>1 DEF MonitorTyped, Asleep, NoResults, NoAlert
  <2> QED BY <2>1, <2>2, OthersKeep DEF IInv, CallsTyped
<1>4. CASE Crash
  <2>1. UNCHANGED health /\ Asleep BY <1>4 DEF Crash
  <2>2. MonitorTyped' BY <2>1 DEF MonitorTyped, Asleep, NoResults, NoAlert
  <2> QED BY <1>4, <2>2, CrashKeeps
<1>5. ASSUME NEW c \in Caller, CallFails(c) \/ AnswerLost(c) PROVE IInv' /\ MonitorTyped'
  <2>1. UNCHANGED <<monitor, health>> BY <1>5 DEF CallFails, AnswerLost
  <2> QED BY <1>5, <2>1, FailureKeeps DEF MonitorTyped
<1>6. ASSUME NEW a \in Alerts, AlertExpires(a) PROVE IInv' /\ MonitorTyped'
  <2>1. UNCHANGED <<monitor, health, call, slot, windows>> /\ active' \subseteq Alerts
    BY <1>6 DEF AlertExpires, Gone, IInv, CallsTyped
  <2> QED BY <2>1, OthersKeep DEF MonitorTyped
<1>7. ASSUME NEW a \in Alerts, CooldownEnds(a) PROVE IInv' /\ MonitorTyped'
  <2>1. UNCHANGED <<monitor, health>> BY <1>7 DEF CooldownEnds
  <2> QED BY <1>7, <2>1, CooldownKeeps DEF MonitorTyped
<1>8. ASSUME NEW m \in Modules, HealthChanges(m) PROVE IInv' /\ MonitorTyped'
  <2>1. UNCHANGED <<monitor, call, slot, windows, active>> BY <1>8 DEF HealthChanges
  <2>2. health' \in [Modules -> Alerts \cup {"ok"}] BY <1>8 DEF HealthChanges, MonitorTyped
  <2> QED BY <2>1, <2>2, OthersKeep DEF MonitorTyped, IInv, CallsTyped
<1>9. CASE UNCHANGED vars
  BY <1>9, OthersKeep DEF MonitorTyped, IInv, CallsTyped
<1> QED BY <1>1, <1>2, <1>3, <1>4, <1>5, <1>6, <1>7, <1>8, <1>9 DEF Next, Faults

LEMMA Invariance == Spec => [](IInv /\ MonitorTyped)
<1>1. Init => IInv /\ MonitorTyped
  <2> SUFFICES ASSUME Init PROVE IInv /\ MonitorTyped OBVIOUS
  <2>1. call = [c \in Caller |-> NoCall] BY DEF Init
  <2>2. \A c \in Caller : call[c].holds = {} BY <2>1 DEF NoCall
  <2>3. CallsTyped BY <2>1, NoCallShape DEF Init, CallsTyped, CallShape
  <2>4. SlotOwned BY <2>2 DEF SlotOwned, Holds
  <2>5. SlotAccounted BY <2>2 DEF Init, SlotAccounted
  <2> QED BY <2>3, <2>4, <2>5 DEF Init, IInv, MonitorTyped, NoResults, NoAlert
<1>2. IInv /\ MonitorTyped /\ [Next]_vars => (IInv /\ MonitorTyped)' BY StepInvariant
<1> QED BY <1>1, <1>2, PTL DEF Spec

\* A cooldown runs exactly for the alerts whose last notification is bound to
\* it, those whose call failed on the way and those whose call has not answered
\* yet (agents/alert_tools.py:159-206); a notification without a ticket is not
\* bound to one.
THEOREM SlotsAccounted == Spec => []SlotAccounted
<1>1. IInv => SlotAccounted BY DEF IInv
<1> QED BY <1>1, Invariance, PTL

-----------------------------------------------------------------------------
(* The announcements *)

\* An alert the monitor has found new, or is about to publish, has not been
\* published since it became active: only a publication adds to told, and told
\* forgets an alert when its record goes.
Untold ==
  /\ told \subseteq active
  /\ pc = "record" /\ fresh => at \notin told
  /\ pc = "publish" => at \notin told

LEMMA UntoldKept == ASSUME Untold, [Next]_vars PROVE Untold'
<1> USE DEF Untold, NoAlert
<1>1. CASE Monitor
  <2>1. CASE Wake BY <2>1 DEF Wake
  <2>2. ASSUME NEW m \in Modules, Probe(m) PROVE Untold' BY <2>2 DEF Probe
  <2>3. ASSUME NEW a \in Alerts, IsActive(a) PROVE Untold' BY <2>3 DEF IsActive
  <2>4. ASSUME NEW a \in Alerts, ResolveRead(a) PROVE Untold' BY <2>4 DEF ResolveRead
  <2>5. CASE Record BY <2>5 DEF Record, Put
  <2>6. CASE Publish BY <2>6 DEF Publish
  <2>7. CASE ListActive BY <2>7 DEF ListActive
  <2>8. CASE Resolve BY <2>8 DEF Resolve, Gone
  <2>9. CASE CycleDone BY <2>9 DEF CycleDone, Asleep
  <2> QED BY <1>1, <2>1, <2>2, <2>3, <2>4, <2>5, <2>6, <2>7, <2>8, <2>9 DEF Monitor
<1>2. CASE Faults
  <2>1. CASE MonitorFails BY <2>1 DEF MonitorFails, Asleep
  <2>2. CASE Crash BY <2>2 DEF Crash, Asleep
  <2>3. ASSUME NEW c \in Caller, CallFails(c) \/ AnswerLost(c) PROVE Untold'
    BY <2>3 DEF CallFails, AnswerLost
  <2>4. ASSUME NEW a \in Alerts, AlertExpires(a) PROVE Untold' BY <2>4 DEF AlertExpires, Gone
  <2> QED BY <1>2, <2>1, <2>2, <2>3, <2>4 DEF Faults
<1>3. ASSUME NEW m \in Modules, HealthChanges(m) PROVE Untold' BY <1>3 DEF HealthChanges
<1>4. ASSUME NEW c \in Caller, Call(c) PROVE Untold'
  <2>1. CASE RecordAlert(c) \/ Reserve(c) \/ Release(c) \/ ResolveAlert(c)
    <3>1. UNCHANGED <<active, told, monitor>>
      BY <2>1 DEF RecordAlert, Reserve, Release, ResolveAlert
    <3> QED BY <3>1
  <2>2. CASE RecordByCall(c) BY <2>2 DEF RecordByCall, Put
  <2>3. CASE NotificationRead(c) \/ NotificationWrite(c)
    <3>1. UNCHANGED <<told, monitor>> /\ active \subseteq active'
      BY <2>3 DEF NotificationRead, NotificationWrite, Put
    <3> QED BY <3>1
  <2>4. CASE Remove(c) BY <2>4 DEF Remove, Gone
  <2> QED BY <1>4, <2>1, <2>2, <2>3, <2>4 DEF Call
<1>5. ASSUME NEW a \in Alerts, CooldownEnds(a) PROVE Untold' BY <1>5 DEF CooldownEnds
<1>6. CASE UNCHANGED vars BY <1>6
<1> QED BY <1>1, <1>2, <1>3, <1>4, <1>5, <1>6 DEF Next

LEMMA UntoldAlways == Spec => []Untold
<1>1. Init => Untold BY DEF Init, Untold
<1>2. Untold /\ [Next]_vars => Untold' BY UntoldKept
<1> QED BY <1>1, <1>2, PTL DEF Spec

\* The monitor publishes an alert once for as long as it stands
\* (agents/monitor_agent.py:136-157).
THEOREM PublishedOnce == Spec => AnnouncedOnce
<1>1. Untold => (pc = "publish" /\ pc' = "check" => at \notin told) BY DEF Untold
<1>2. Untold /\ [Next]_vars => [pc = "publish" /\ pc' = "check" => at \notin told]_vars BY <1>1
<1> QED BY <1>2, UntoldAlways, PTL DEF Spec, AnnouncedOnce

-----------------------------------------------------------------------------
(* The types, and the end of a cycle *)

Bounded == calls \in 0..MaxCalls /\ changes \in 0..MaxChanges /\ faults \in 0..MaxFaults

LEMMA BoundedKept == ASSUME Bounded, [Next]_vars PROVE Bounded'
<1> USE AlertAssumption DEF Bounded
<1>1. CASE Monitor
  BY <1>1 DEF Monitor, Wake, Probe, IsActive, ResolveRead, Record, Publish, ListActive, Resolve,
     CycleDone
<1>2. CASE MonitorFails BY <1>2 DEF MonitorFails
<1>3. CASE Crash BY <1>3 DEF Crash
<1>4. ASSUME NEW c \in Caller, CallFails(c) \/ AnswerLost(c) PROVE Bounded'
  BY <1>4 DEF CallFails, AnswerLost
<1>5. ASSUME NEW a \in Alerts, AlertExpires(a) \/ CooldownEnds(a) PROVE Bounded'
  BY <1>5 DEF AlertExpires, CooldownEnds
<1>6. ASSUME NEW m \in Modules, HealthChanges(m) PROVE Bounded' BY <1>6 DEF HealthChanges
<1>7. ASSUME NEW c \in Caller, Call(c) PROVE Bounded'
  <2>1. CASE RecordAlert(c) \/ ResolveAlert(c)
    <3>1. calls < MaxCalls /\ calls' = calls + 1 /\ UNCHANGED <<changes, faults>>
      BY <2>1 DEF RecordAlert, ResolveAlert
    <3> QED BY <3>1
  <2>2. CASE Reserve(c) \/ Release(c) BY <2>2 DEF Reserve, Release
  <2>3. CASE RecordByCall(c) \/ NotificationRead(c) \/ NotificationWrite(c) \/ Remove(c)
    BY <2>3 DEF RecordByCall, NotificationRead, NotificationWrite, Remove
  <2> QED BY <1>7, <2>1, <2>2, <2>3 DEF Call
<1>8. CASE UNCHANGED vars BY <1>8
<1> QED BY <1>1, <1>2, <1>3, <1>4, <1>5, <1>6, <1>7, <1>8 DEF Next, Faults

\* Every state of alerts, cooldowns, calls and the monitor has its type, and
\* what the monitor has published is still active.
THEOREM TypeCorrect == Spec => []TypeOK
<1>1. Init => Bounded BY AlertAssumption DEF Init, Bounded
<1>2. Bounded /\ [Next]_vars => Bounded' BY BoundedKept
<1>3. IInv /\ MonitorTyped /\ Untold /\ Bounded => TypeOK
  BY DEF IInv, CallsTyped, MonitorTyped, Untold, Bounded, TypeOK
<1> QED BY <1>1, <1>2, <1>3, Invariance, UntoldAlways, PTL DEF Spec

\* The alerts a cycle may have to go through are finitely many.
Finite == IsFiniteSet(active) /\ IsFiniteSet(todo)

LEMMA FiniteKept ==
  ASSUME IsFiniteSet(Modules), MonitorTyped, Finite, [Next]_vars PROVE Finite'
<1> USE DEF Finite
<1>1. \A S, a : IsFiniteSet(S) => IsFiniteSet(S \cup {a}) /\ IsFiniteSet(S \ {a})
  BY FS_AddElement, FS_RemoveElement
<1>2. IsFiniteSet({}) BY FS_EmptySet
<1>3. CASE Monitor
  <2>1. CASE Wake BY <2>1 DEF Wake
  <2>2. ASSUME NEW m \in Modules, Probe(m) PROVE Finite'
    <3>1. CASE todo' = {results'[n] : n \in Modules} \ {"ok"}
      <4>1. results' = [results EXCEPT ![m] = health[m]] BY <2>2 DEF Probe
      <4>2. DOMAIN results' = Modules BY <4>1 DEF MonitorTyped
      <4>3. results' = [n \in Modules |-> results'[n]] BY <4>1 DEF MonitorTyped
      <4> DEFINE T == {results'[n] : n \in Modules}
      <4>4. results' \in Surjection(Modules, T) BY <4>3 DEF Surjection
      <4>5. IsFiniteSet(T) BY <4>4, FS_Surjection
      <4> QED BY <1>1, <2>2, <3>1, <4>5 DEF Probe
    <3>2. CASE todo' = todo BY <2>2, <3>2 DEF Probe
    <3> QED BY <2>2, <3>1, <3>2 DEF Probe
  <2>3. ASSUME NEW a \in Alerts, IsActive(a) PROVE Finite' BY <1>1, <2>3 DEF IsActive
  <2>4. ASSUME NEW a \in Alerts, ResolveRead(a) PROVE Finite' BY <1>1, <2>4 DEF ResolveRead
  <2>5. CASE Record BY <1>1, <2>5 DEF Record, Put
  <2>6. CASE Publish BY <2>6 DEF Publish
  <2>7. CASE ListActive
    <3>1. todo' \subseteq active BY <2>7 DEF ListActive
    <3>2. IsFiniteSet(todo') BY <3>1, FS_Subset
    <3> QED BY <2>7, <3>2 DEF ListActive
  <2>8. CASE Resolve BY <1>1, <2>8 DEF Resolve, Gone
  <2>9. CASE CycleDone BY <1>2, <2>9 DEF CycleDone, Asleep
  <2> QED BY <1>3, <2>1, <2>2, <2>3, <2>4, <2>5, <2>6, <2>7, <2>8, <2>9 DEF Monitor
<1>4. CASE MonitorFails BY <1>2, <1>4 DEF MonitorFails, Asleep
<1>5. CASE Crash BY <1>2, <1>5 DEF Crash, Asleep
<1>6. ASSUME NEW c \in Caller, CallFails(c) \/ AnswerLost(c) PROVE Finite'
  BY <1>6 DEF CallFails, AnswerLost
<1>7. ASSUME NEW a \in Alerts, AlertExpires(a) PROVE Finite' BY <1>1, <1>7 DEF AlertExpires, Gone
<1>8. ASSUME NEW m \in Modules, HealthChanges(m) PROVE Finite' BY <1>8 DEF HealthChanges
<1>9. ASSUME NEW c \in Caller, Call(c) PROVE Finite'
  <2>1. UNCHANGED monitor /\ (active' = active \/ \E a : Put(a) \/ active' = active \ {a})
    BY <1>9 DEF Call, RecordAlert, Reserve, RecordByCall, NotificationRead, NotificationWrite,
       Release, ResolveAlert, Remove, Gone
  <2> QED BY <1>1, <2>1 DEF Put
<1>10. ASSUME NEW a \in Alerts, CooldownEnds(a) PROVE Finite' BY <1>10 DEF CooldownEnds
<1>11. CASE UNCHANGED vars BY <1>11
<1> QED
  BY <1>3, <1>4, <1>5, <1>6, <1>7, <1>8, <1>9, <1>10, <1>11 DEF Next, Faults

\* What a cycle has left to do: its part, the modules to ask or the alerts to
\* go through, and the awaits of the current alert.
Unasked == {m \in Modules : results[m] = "unknown"}
Cycle ==
  << IF pc = "sleep" THEN 0 ELSE IF pc \in {"resolve", "remove"} THEN 1
     ELSE IF pc = "probe" THEN 3 ELSE 2,
     IF pc = "probe" THEN Cardinality(Unasked) ELSE Cardinality(todo),
     IF pc = "record" THEN 2 ELSE IF pc \in {"publish", "remove"} THEN 1 ELSE 0 >>

LEMMA OneLess ==
  ASSUME NEW S, IsFiniteSet(S), NEW x \in S
  PROVE  Cardinality(S \ {x}) < Cardinality(S)
<1>1. Cardinality(S \ {x}) = Cardinality(S) - 1 BY FS_RemoveElement
<1>2. Cardinality(S) \in Nat BY FS_CardinalityType
<1> QED BY <1>1, <1>2

LEMMA CycleLower ==
  ASSUME \/ Cycle[1]' < Cycle[1]
         \/ Cycle[1]' = Cycle[1] /\ Cycle[2]' < Cycle[2]
         \/ Cycle[1]' = Cycle[1] /\ Cycle[2]' = Cycle[2] /\ Cycle[3]' < Cycle[3]
  PROVE  Lower(Cycle', Cycle)
<1>1. DOMAIN Cycle = 1..3 BY DEF Cycle
<1>2. \A j \in 1..3 : Cycle'[j] = Cycle[j]' BY DEF Cycle
<1> QED BY <1>1, <1>2 DEF Lower

LEMMA CycleFalls ==
  ASSUME IsFiniteSet(Modules), MonitorTyped, Finite, Next, pc # "sleep", monitor' # monitor
  PROVE  Lower(Cycle', Cycle)
<1>1. CASE Monitor
  <2>1. ASSUME NEW m \in Modules, Probe(m) PROVE Lower(Cycle', Cycle)
    <3>1. pc = "probe" /\ results[m] = "unknown" /\ pc' \in {"probe", "check"} BY <2>1 DEF Probe
    <3>2. results' = [results EXCEPT ![m] = health[m]] /\ health[m] # "unknown"
      BY <2>1, AlertAssumption DEF Probe, MonitorTyped
    <3>3. Unasked' = Unasked \ {m} /\ m \in Unasked
      BY <3>1, <3>2 DEF Unasked, MonitorTyped
    <3>4. IsFiniteSet(Unasked) BY FS_Subset DEF Unasked
    <3>5. Cardinality(Unasked') < Cardinality(Unasked) BY <3>3, <3>4, OneLess
    <3>6. CASE pc' = "probe"
      <4>1. Cycle[1]' = Cycle[1] /\ Cycle[2]' < Cycle[2] BY <3>1, <3>5, <3>6 DEF Cycle
      <4> QED BY <4>1, CycleLower
    <3>7. CASE pc' = "check"
      <4>1. Cycle[1]' < Cycle[1] BY <3>1, <3>7 DEF Cycle
      <4> QED BY <4>1, CycleLower
    <3> QED BY <3>1, <3>6, <3>7
  <2>2. ASSUME NEW a \in Alerts, IsActive(a) \/ ResolveRead(a) PROVE Lower(Cycle', Cycle)
    <3>1. todo' = todo \ {a} /\ a \in todo BY <2>2 DEF IsActive, ResolveRead
    <3>2. Cardinality(todo') < Cardinality(todo) BY <3>1, OneLess DEF Finite
    <3>3. Cycle[1]' = Cycle[1] /\ Cycle[2]' < Cycle[2]
      BY <2>2, <3>2 DEF IsActive, ResolveRead, Cycle
    <3> QED BY <3>3, CycleLower
  <2>3. CASE Record \/ Publish \/ Resolve
    <3>1. Cycle[1]' = Cycle[1] /\ Cycle[2]' = Cycle[2] /\ Cycle[3]' < Cycle[3]
      BY <2>3 DEF Record, Publish, Resolve, Cycle
    <3> QED BY <3>1, CycleLower
  <2>4. CASE ListActive \/ CycleDone
    <3>1. Cycle[1]' < Cycle[1] BY <2>4 DEF ListActive, CycleDone, Asleep, Cycle
    <3> QED BY <3>1, CycleLower
  <2> QED BY <1>1, <2>1, <2>2, <2>3, <2>4 DEF Monitor, Wake
<1>2. CASE MonitorFails \/ Crash
  <2>1. Cycle[1]' < Cycle[1] BY <1>2 DEF MonitorFails, Crash, Asleep, Cycle
  <2> QED BY <2>1, CycleLower
<1>3. ASSUME NEW c \in Caller, CallFails(c) \/ AnswerLost(c) PROVE FALSE
  BY <1>3 DEF CallFails, AnswerLost
<1>4. ASSUME NEW a \in Alerts, AlertExpires(a) \/ CooldownEnds(a) PROVE FALSE
  BY <1>4 DEF AlertExpires, CooldownEnds
<1>5. ASSUME NEW m \in Modules, HealthChanges(m) PROVE FALSE BY <1>5 DEF HealthChanges
<1>6. ASSUME NEW c \in Caller, Call(c) PROVE FALSE
  BY <1>6 DEF Call, RecordAlert, Reserve, RecordByCall, NotificationRead, NotificationWrite,
     Release, ResolveAlert, Remove
<1> QED BY <1>1, <1>2, <1>3, <1>4, <1>5, <1>6 DEF Next, Faults

\* A cycle of the monitor comes to its end, whatever the tools record and
\* resolve meanwhile: with finitely many modules every step of it leaves less
\* to do, until it sleeps (agents/monitor_agent.py:109-239).
THEOREM CycleShrinks ==
  ASSUME IsFiniteSet(Modules)
  PROVE  Spec => [](Cycle \in Ranks(3)) /\ [][pc # "sleep" => Lower(Cycle', Cycle)]_monitor
<1>1. Init => Finite BY FS_EmptySet DEF Init, Finite
<1>2. MonitorTyped /\ Finite /\ [Next]_vars => Finite' BY FiniteKept
<1>3. MonitorTyped /\ Finite => Cycle \in Ranks(3)
  <2> SUFFICES ASSUME Finite PROVE Cycle \in Ranks(3) OBVIOUS
  <2>1. IsFiniteSet(Unasked) BY FS_Subset DEF Unasked
  <2>2. Cardinality(Unasked) \in Nat /\ Cardinality(todo) \in Nat
    BY <2>1, FS_CardinalityType DEF Finite
  <2> QED BY <2>2 DEF Cycle, Ranks
<1>4. MonitorTyped /\ Finite /\ [Next]_vars => [pc # "sleep" => Lower(Cycle', Cycle)]_monitor
  BY CycleFalls
<1> QED BY <1>1, <1>2, <1>3, <1>4, Invariance, PTL DEF Spec

=============================================================================
