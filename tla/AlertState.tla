----------------------------- MODULE AlertState -----------------------------
(***************************************************************************)
(* The alerts of core/alert_state.py and everybody who writes them: the    *)
(* monitor's cycle, the record_alert and resolve_alert tools, the security *)
(* scans and the dashboard's resolve.                                      *)
(*                                                                         *)
(* An alert is active or not; what its record holds beyond that is not     *)
(* modelled.  So the read in record() decides nothing here, while the ones *)
(* in record_notification() and resolve() do: each is a step of its own.   *)
(***************************************************************************)
EXTENDS Naturals

CONSTANTS
  Modules,    \* the modules the monitor asks for their health
  Alerts,     \* alert ids, one for each module and reason
  ModuleOf,   \* the module field of an alert
  Caller,     \* slots for calls of the tools, scans and routes
  MaxCalls, MaxChanges, MaxFaults

ASSUME AlertAssumption ==
  /\ ModuleOf \in [Alerts -> Modules]
  /\ MaxCalls \in Nat /\ MaxChanges \in Nat /\ MaxFaults \in Nat
  /\ "ok" \notin Alerts /\ "unknown" \notin Alerts

VARIABLES
  active,   \* ninko:alerts:active:*, the alerts that have a record
  slot,     \* ninko:alerts:notify:*, the alerts whose cooldown runs
  health,   \* each module's state: ok, or the alert its error stands for
  pc, results, todo, at, fresh,   \* the monitor
  call,     \* what each caller is doing
  calls, changes, faults,
  \* History, read by the properties only:
  noticed,  \* alerts somebody was told to notify of since the last cooldown
  loose,    \* of these, those where it was a call without a ticket
  lost,     \* the running cooldown belongs to a call that failed
  told      \* the alerts the monitor has published since they became active

store == <<active, slot>>
monitor == <<pc, results, todo, at, fresh>>
bounds == <<calls, changes, faults>>
windows == <<noticed, loose, lost>>
vars == <<active, slot, health, pc, results, todo, at, fresh, call, calls, changes, faults,
          noticed, loose, lost, told>>

NoAlert == "unknown"
\* A call: pc is the await it is at, then is what follows the record, holds is
\* the alert whose slot it has reserved, if any.
NoCall == [pc |-> "idle", alert |-> NoAlert, then |-> "idle", holds |-> {}]
CallState ==
  [pc : {"idle", "reserve", "record", "read", "write", "release", "remove"},
   alert : Alerts \cup {NoAlert}, then : {"idle", "read", "release"}, holds : SUBSET Alerts]
NoResults == [m \in Modules |-> "unknown"]

Init ==
  /\ active = {} /\ slot = {}
  /\ health = [m \in Modules |-> "ok"]
  /\ pc = "sleep" /\ results = NoResults
  /\ todo = {} /\ at = NoAlert /\ fresh = FALSE
  /\ call = [c \in Caller |-> NoCall]
  /\ calls = 0 /\ changes = 0 /\ faults = 0
  /\ noticed = {} /\ loose = {} /\ lost = {} /\ told = {}

\* A module breaks, breaks in another way, or recovers.
HealthChanges(m) ==
  /\ changes < MaxChanges /\ changes' = changes + 1
  /\ \E h \in {"ok"} \cup {a \in Alerts : ModuleOf[a] = m} :
       h # health[m] /\ health' = [health EXCEPT ![m] = h]
  /\ UNCHANGED <<store, monitor, call, calls, faults, windows, told>>

\* An alert's record is gone: what was told of it is history.
Gone(a) == active' = active \ {a} /\ told' = told \ {a}
Put(a) == active' = active \cup {a}

-----------------------------------------------------------------------------
(* MonitorAgent.run_cycle *)

\* What a cycle knew is forgotten.
Asleep == pc' = "sleep" /\ results' = NoResults /\ todo' = {} /\ at' = NoAlert /\ fresh' = FALSE

Wake ==
  /\ pc = "sleep" /\ pc' = "probe"
  /\ UNCHANGED <<store, health, results, todo, at, fresh, call, bounds, windows, told>>

\* get_health asks one module after the other.
Probe(m) ==
  /\ pc = "probe" /\ results[m] = "unknown"
  /\ results' = [results EXCEPT ![m] = health[m]]
  /\ IF \A n \in Modules \ {m} : results[n] # "unknown"
       THEN /\ pc' = "check"
            /\ todo' = {results'[n] : n \in Modules} \ {"ok"}
       ELSE UNCHANGED <<pc, todo>>
  /\ UNCHANGED <<store, health, at, fresh, call, bounds, windows, told>>

\* Mutant: every failing check is taken for a new alert.
IsActiveMutant(a) ==
  /\ pc = "check" /\ a \in todo
  /\ fresh' = TRUE
  /\ at' = a /\ todo' = todo \ {a} /\ pc' = "record"
  /\ UNCHANGED <<store, health, results, call, bounds, windows, told>>

IsActive(a) ==
  /\ pc = "check" /\ a \in todo
  /\ fresh' = (a \notin active)
  /\ at' = a /\ todo' = todo \ {a} /\ pc' = "record"
  /\ UNCHANGED <<store, health, results, call, bounds, windows, told>>

Record ==
  /\ pc = "record"
  /\ Put(at) /\ fresh' = FALSE
  /\ IF fresh THEN pc' = "publish" /\ UNCHANGED at ELSE pc' = "check" /\ at' = NoAlert
  /\ UNCHANGED <<slot, health, results, todo, call, bounds, windows, told>>

\* Published for the dashboard; an alert that was resolved since it was
\* recorded is published all the same.
Publish ==
  /\ pc = "publish" /\ pc' = "check" /\ at' = NoAlert
  /\ told' = told \cup ({at} \cap active)
  /\ UNCHANGED <<store, health, results, todo, fresh, call, bounds, windows>>

\* Mutant: the alerts of modules in error are resolved with the others.
ListActiveMutant ==
  /\ pc = "check" /\ todo = {}
  /\ todo' = active /\ pc' = "resolve"
  /\ UNCHANGED <<store, health, results, at, fresh, call, bounds, windows, told>>

\* The active alerts of the modules that are well, whoever recorded them.
ListActive ==
  /\ pc = "check" /\ todo = {}
  /\ todo' = {a \in active : results[ModuleOf[a]] = "ok"} /\ pc' = "resolve"
  /\ UNCHANGED <<store, health, results, at, fresh, call, bounds, windows, told>>

\* resolve(): an alert without a record is passed over.
ResolveRead(a) ==
  /\ pc = "resolve" /\ a \in todo
  /\ todo' = todo \ {a}
  /\ IF a \in active THEN pc' = "remove" /\ at' = a ELSE UNCHANGED <<pc, at>>
  /\ UNCHANGED <<store, health, results, fresh, call, bounds, windows, told>>

Resolve ==
  /\ pc = "remove" /\ pc' = "resolve" /\ Gone(at) /\ at' = NoAlert
  /\ UNCHANGED <<slot, health, results, todo, fresh, call, bounds, windows>>

CycleDone ==
  /\ pc = "resolve" /\ todo = {} /\ Asleep
  /\ UNCHANGED <<store, health, call, bounds, windows, told>>

\* Any exception ends the cycle; the loop goes on with the next one.
MonitorFails ==
  /\ pc # "sleep" /\ faults < MaxFaults /\ faults' = faults + 1
  /\ Asleep
  /\ UNCHANGED <<store, health, call, calls, changes, windows, told>>

Monitor ==
  \/ Wake \/ \E m \in Modules : Probe(m)
  \/ \E a \in Alerts : IsActive(a) \/ ResolveRead(a)
  \/ Record \/ Publish \/ ListActive \/ Resolve \/ CycleDone

-----------------------------------------------------------------------------
(* The tools, the scans and the dashboard *)

Goes(c, p) == call' = [call EXCEPT ![c].pc = p]
Ends(c) == call' = [call EXCEPT ![c] = NoCall]
At(c, p) == call[c].pc = p

\* The call has reserved the slot of the alert and has not answered yet.
Holds(c, a) == a \in call[c].holds

\* The call gets through and answers: with the slot, that its caller is to
\* notify.  bound says whether the slot stays.
Answers(c, bound) ==
  /\ Ends(c)
  /\ noticed' = noticed \cup call[c].holds
  /\ loose' = IF bound THEN loose \ call[c].holds ELSE loose \cup call[c].holds
  /\ UNCHANGED lost

\* record_alert with or without a ticket and the cooldown; a security scan
\* notifies as a call with both does.
RecordAlert(c) ==
  /\ At(c, "idle") /\ calls < MaxCalls /\ calls' = calls + 1
  /\ \E a \in Alerts, ticket, check \in BOOLEAN :
       call' = [call EXCEPT ![c] =
         [pc |-> IF check THEN "reserve" ELSE "record", alert |-> a,
          then |-> IF ticket THEN "read" ELSE IF check THEN "release" ELSE "idle",
          holds |-> {}]]
  /\ UNCHANGED <<store, health, monitor, changes, faults, windows, told>>

\* Mutant: a call without a ticket that was refused the slot releases it too.
ReserveMutant(c) ==
  LET a == call[c].alert  granted == a \notin slot IN
  /\ At(c, "reserve")
  /\ slot' = slot \cup {a}
  /\ call' = [call EXCEPT ![c] =
       [pc |-> "record", alert |-> a,
        then |-> IF granted \/ call[c].then = "release" THEN call[c].then ELSE "idle",
        holds |-> IF granted THEN {a} ELSE {}]]
  /\ UNCHANGED <<active, health, monitor, bounds, windows, told>>

\* should_notify: SET NX EX.  With the slot a call with a ticket notes its
\* notification, one without gives the slot back.
Reserve(c) ==
  LET a == call[c].alert  granted == a \notin slot IN
  /\ At(c, "reserve")
  /\ slot' = slot \cup {a}
  /\ call' = [call EXCEPT ![c] =
       [pc |-> "record", alert |-> a,
        then |-> IF granted THEN call[c].then ELSE "idle",
        holds |-> IF granted THEN {a} ELSE {}]]
  /\ UNCHANGED <<active, health, monitor, bounds, windows, told>>

RecordByCall(c) ==
  /\ At(c, "record") /\ Put(call[c].alert)
  /\ IF call[c].then = "idle" THEN Answers(c, TRUE)
     ELSE Goes(c, call[c].then) /\ UNCHANGED windows
  /\ UNCHANGED <<slot, health, monitor, bounds, told>>

\* record_notification: nothing to do for an alert without a record.
NotificationRead(c) ==
  /\ At(c, "read")
  /\ IF call[c].alert \in active THEN Goes(c, "write") /\ UNCHANGED windows
     ELSE Answers(c, TRUE)
  /\ UNCHANGED <<store, health, monitor, bounds, told>>

NotificationWrite(c) ==
  /\ At(c, "write") /\ Put(call[c].alert) /\ Answers(c, TRUE)
  /\ UNCHANGED <<slot, health, monitor, bounds, told>>

\* release_notify_cooldown.  The caller is told to notify all the same.
Release(c) ==
  /\ At(c, "release") /\ slot' = slot \ {call[c].alert} /\ Answers(c, FALSE)
  /\ UNCHANGED <<active, health, monitor, bounds, told>>

\* resolve_alert and the dashboard's resolve, for an alert that has a record.
ResolveAlert(c) ==
  /\ At(c, "idle") /\ calls < MaxCalls /\ calls' = calls + 1
  /\ \E a \in active : 
       call' = [call EXCEPT ![c] = [NoCall EXCEPT !.pc = "remove", !.alert = a]]
  /\ UNCHANGED <<store, health, monitor, changes, faults, windows, told>>

Remove(c) ==
  /\ At(c, "remove") /\ Gone(call[c].alert) /\ Ends(c)
  /\ UNCHANGED <<slot, health, monitor, bounds, windows>>

Call(c) ==
  \/ RecordAlert(c) \/ Reserve(c) \/ RecordByCall(c) \/ NotificationRead(c)
  \/ NotificationWrite(c) \/ Release(c) \/ ResolveAlert(c) \/ Remove(c)

-----------------------------------------------------------------------------
(* Faults and time *)

\* The answer to SET NX is lost: the call ends without knowing of its slot.
AnswerLost(c) ==
  /\ At(c, "reserve") /\ call[c].alert \notin slot
  /\ faults < MaxFaults /\ faults' = faults + 1
  /\ slot' = slot \cup {call[c].alert} /\ lost' = lost \cup {call[c].alert}
  /\ Ends(c)
  /\ UNCHANGED <<active, health, monitor, calls, changes, noticed, loose, told>>

\* A Redis call fails or the call is cancelled.
CallFails(c) ==
  /\ ~At(c, "idle") /\ faults < MaxFaults /\ faults' = faults + 1
  /\ lost' = lost \cup call[c].holds
  /\ Ends(c)
  /\ UNCHANGED <<store, health, monitor, calls, changes, noticed, loose, told>>

Crash ==
  /\ faults < MaxFaults /\ faults' = faults + 1
  /\ lost' = lost \cup UNION {call[c].holds : c \in Caller}
  /\ call' = [c \in Caller |-> NoCall]
  /\ Asleep
  /\ UNCHANGED <<store, health, calls, changes, noticed, loose, told>>

\* Seven days pass without a write.
AlertExpires(a) ==
  /\ a \in active /\ faults < MaxFaults /\ faults' = faults + 1
  /\ Gone(a)
  /\ UNCHANGED <<slot, health, monitor, call, calls, changes, windows>>

\* The cooldown, of an hour at least, outlasts the call that started it.
CooldownEnds(a) ==
  /\ a \in slot /\ \A c \in Caller : ~Holds(c, a)
  /\ slot' = slot \ {a}
  /\ noticed' = noticed \ {a} /\ loose' = loose \ {a} /\ lost' = lost \ {a}
  /\ UNCHANGED <<active, health, monitor, call, bounds, told>>

Faults ==
  \/ MonitorFails \/ Crash
  \/ \E c \in Caller : CallFails(c) \/ AnswerLost(c)
  \/ \E a \in Alerts : AlertExpires(a)

Next ==
  \/ Monitor \/ Faults
  \/ \E m \in Modules : HealthChanges(m)
  \/ \E c \in Caller : Call(c)
  \/ \E a \in Alerts : CooldownEnds(a)

Spec == Init /\ [][Next]_vars

\* The loop sleeps for a fixed time and every health check answers.  The users
\* and agents owe nothing, not even the end of a call.
FairSpec == Spec /\ WF_vars(Monitor)

-----------------------------------------------------------------------------
(* Properties *)

TypeOK ==
  /\ active \subseteq Alerts /\ slot \subseteq Alerts /\ told \subseteq active
  /\ health \in [Modules -> Alerts \cup {"ok"}]
  /\ pc \in {"sleep", "probe", "check", "record", "publish", "resolve", "remove"}
  /\ results \in [Modules -> Alerts \cup {"ok", "unknown"}]
  /\ todo \subseteq Alerts /\ at \in Alerts \cup {NoAlert} /\ fresh \in BOOLEAN
  /\ call \in [Caller -> CallState]
  /\ calls \in 0..MaxCalls /\ changes \in 0..MaxChanges /\ faults \in 0..MaxFaults
  /\ noticed \subseteq Alerts /\ loose \subseteq noticed /\ lost \subseteq Alerts

\* A cooldown runs exactly for the alerts somebody was told to notify of and
\* those a call has reserved and not answered yet: who has notified is not
\* followed by another, and one that no notification accounts for is left by a
\* call that failed in between.  But a call without a ticket is told to notify
\* too and keeps no cooldown (alert_tools.py:175-206): of such an alert the
\* next caller is told again.  No call gives back the slot of another.
SlotAccounted ==
  slot = (noticed \ loose) \cup lost \cup UNION {call[c].holds : c \in Caller}

\* The monitor publishes an alert once for as long as it stands, however often
\* the tools record and resolve it around the monitor's two reads.
AnnouncedOnce ==
  [][pc = "publish" /\ pc' = "check" => at \notin told]_vars

\* The monitor has the last word: the alert of a module that stays broken
\* stays active, and the alerts of one that stays well are gone, whatever
\* stale copies the tools still write.
MonitorConverges ==
  /\ \A a \in Alerts : <>[](health[ModuleOf[a]] = a) => <>[](a \in active)
  /\ \A a \in Alerts : <>[](health[ModuleOf[a]] = "ok") => <>[](a \notin active)

=============================================================================
