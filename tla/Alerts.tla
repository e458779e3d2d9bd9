-------------------------------- MODULE Alerts --------------------------------
(***************************************************************************)
(* Alert rules, their evaluation and the events they raise: alerts.service *)
(* and alerts.worker, over the tables `alert_rules` and `alert_events`.    *)
(*                                                                         *)
(* A task is a request, or the worker's evaluation of one rule in one tick *)
(* (the rules of a tick are evaluated independently).  It starts with its  *)
(* first read and goes on await by await.  Time is the age of what is      *)
(* remembered, which counts up to Long, where no cooldown is left.         *)
(***************************************************************************)
EXTENDS Naturals

CONSTANTS
  Rules,      \* ids of rules; one that nothing refers to is used again
  AlertIds,   \* ids of events: those nothing refers to are forgotten
  Cooldowns,  \* the cooldowns a rule can have
  Long,       \* an age at which every cooldown is over
  Tasks,      \* tasks that can be in flight at once
  Keepers,    \* those that read and write rules, when used serially
  Nothing

ASSUME AlertsAssumption ==
  /\ Long \in Nat /\ Cooldowns \subseteq 0..Long
  /\ Keepers \subseteq Tasks
  /\ Nothing \notin Rules \cup AlertIds

VARIABLES
  rule,    \* the table of rules
  alert,   \* the table of events
  status,  \* of the stream a rule watches
  told,    \* the age of the last event of a rule that the dashboards got
  task     \* the tasks in flight

alertVars == <<rule, alert, status, told, task>>

-----------------------------------------------------------------------------
Age == 0..Long

\* The stream and the condition of a rule: nothing, for a rule without a
\* stream or with a condition that the worker does not evaluate.
Watch == {"down", "reconnecting", "nothing"}

StreamState == {"up", "connecting", "down", "deleted"}

\* last: the age of lastTriggeredAt, which is Long when there is none.
RuleRow == [watch : Watch, enabled : BOOLEAN, cooldown : Cooldowns, last : Age]

ASSUME NothingIsNoRow == Nothing \notin RuleRow

AlertRow == [rule : Rules, acknowledged : BOOLEAN]

NoTask == [op |-> "none", pc |-> "idle", rule |-> Nothing, row |-> Nothing, alert |-> Nothing]

Task ==
  [op : {"evaluate", "update", "delete", "acknowledge"},
   pc : {"stream", "load", "event", "save", "emit", "remove", "acknowledge"},
   rule : Rules, row : RuleRow \cup {Nothing}, alert : AlertIds \cup {Nothing}] \cup {NoTask}

AlertsTypeOK ==
  /\ rule \in [Rules -> RuleRow \cup {Nothing}]
  /\ alert \in [AlertIds -> AlertRow \cup {Nothing}]
  /\ status \in [Rules -> StreamState]
  /\ told \in [Rules -> Age]
  /\ task \in [Tasks -> Task]

Existing == {r \in Rules : rule[r] # Nothing}

AlertsInit ==
  /\ rule = [r \in Rules |-> Nothing]
  /\ alert = [a \in AlertIds |-> Nothing]
  /\ status \in [Rules -> StreamState]
  /\ told = [r \in Rules |-> Long]
  /\ task = [t \in Tasks |-> NoTask]

-----------------------------------------------------------------------------
StartTask(t, o, pc, r, row, a) ==
  /\ task[t] = NoTask
  /\ task' = [task EXCEPT ![t] = [op |-> o, pc |-> pc, rule |-> r, row |-> row, alert |-> a]]
  /\ UNCHANGED <<rule, alert, status, told>>

TaskGoes(t, pc) == task' = [task EXCEPT ![t].pc = pc]

TaskEnds(t) == task' = [task EXCEPT ![t] = NoTask]

\* An id is new if no row has it and no dashboard shows an event of it.
CreateRule(r, row) ==
  /\ rule[r] = Nothing /\ told[r] = Long /\ row.last = Long
  /\ \A t \in Tasks : task[t].rule # r
  /\ rule' = [rule EXCEPT ![r] = row]
  /\ UNCHANGED <<alert, status, told, task>>

\* Mutant: the entity is built from the request alone.
UpdateRuleAnew(t, r, watch, enabled, cooldown) ==
  /\ r \in Existing
  /\ StartTask(t, "update", "save", r,
       [watch |-> watch, enabled |-> enabled, cooldown |-> cooldown, last |-> Long], Nothing)

\* What the request does not mention stays as it was loaded.
UpdateRule(t, r, watch, enabled, cooldown) ==
  /\ r \in Existing
  /\ StartTask(t, "update", "save", r,
       [rule[r] EXCEPT !.watch = watch, !.enabled = enabled, !.cooldown = cooldown], Nothing)

DeleteRule(t, r) == r \in Existing /\ StartTask(t, "delete", "remove", r, Nothing, Nothing)

\* The events of the rule go with it.
RemoveRule(t) ==
  /\ task[t].pc = "remove"
  /\ rule' = [rule EXCEPT ![task[t].rule] = Nothing]
  /\ alert' = [a \in AlertIds |->
       IF alert[a] # Nothing /\ alert[a].rule = task[t].rule THEN Nothing ELSE alert[a]]
  /\ TaskEnds(t)
  /\ UNCHANGED <<status, told>>

AcknowledgeEvent(t, a) ==
  alert[a] # Nothing /\ StartTask(t, "acknowledge", "acknowledge", alert[a].rule, Nothing, a)

\* The save of an event whose rule is gone violates its foreign key.
SaveAcknowledged(t) ==
  /\ task[t].pc = "acknowledge"
  /\ alert' = IF task[t].rule \in Existing
              THEN [alert EXCEPT ![task[t].alert] = [rule |-> task[t].rule, acknowledged |-> TRUE]]
              ELSE alert
  /\ TaskEnds(t)
  /\ UNCHANGED <<rule, status, told>>

-----------------------------------------------------------------------------
(* The evaluation of a rule, in a tick of the worker.                       *)

\* The tick has read the enabled rules, and this is one of them.
EvaluateRule(t, r) ==
  /\ r \in Existing /\ rule[r].enabled
  /\ StartTask(t, "evaluate", "stream", r, rule[r], Nothing)

ShouldTrigger(watch, state) ==
  \/ watch = "down" /\ state = "down"
  \/ watch = "reconnecting" /\ state = "connecting"

FindStream(t) ==
  /\ task[t].pc = "stream"
  /\ IF ShouldTrigger(task[t].row.watch, status[task[t].rule]) THEN TaskGoes(t, "load")
     ELSE TaskEnds(t)
  /\ UNCHANGED <<rule, alert, status, told>>

\* Mutant: an alert that the cooldown holds back starts it again.
TriggerAlertRestarts(t) ==
  /\ task[t].pc = "load"
  /\ LET r == task[t].rule IN
     /\ IF r \in Existing /\ rule[r].enabled /\ rule[r].last >= rule[r].cooldown
        THEN task' = [task EXCEPT ![t].pc = "event", ![t].row = rule[r]] /\ UNCHANGED rule
        ELSE /\ TaskEnds(t)
             /\ rule' = IF r \in Existing THEN [rule EXCEPT ![r].last = 0] ELSE rule
     /\ UNCHANGED <<alert, status, told>>

\* triggerAlert loads the rule again, and it is that row it will save.
TriggerAlert(t) ==
  /\ task[t].pc = "load"
  /\ LET r == task[t].rule IN
     IF r \in Existing /\ rule[r].enabled /\ rule[r].last >= rule[r].cooldown
     THEN task' = [task EXCEPT ![t].pc = "event", ![t].row = rule[r]]
     ELSE TaskEnds(t)
  /\ UNCHANGED <<rule, alert, status, told>>

\* Mutant: the event is stored without an answer whether it is acknowledged.
SaveAlertUnanswered(t, a) ==
  /\ task[t].pc = "event" /\ task[t].rule \in Existing
  /\ \A u \in Tasks : task[u].alert # a
  /\ alert' = [alert EXCEPT ![a] = [rule |-> task[t].rule, acknowledged |-> Nothing]]
  /\ task' = [task EXCEPT ![t].pc = "save", ![t].row.last = 0]
  /\ UNCHANGED <<rule, status, told>>

\* The event is stored if its rule is still there; the rule is then marked
\* with the time, in memory.
SaveAlert(t, a) ==
  /\ task[t].pc = "event" /\ task[t].rule \in Existing
  /\ \A u \in Tasks : task[u].alert # a
  /\ alert' = [alert EXCEPT ![a] = [rule |-> task[t].rule, acknowledged |-> FALSE]]
  /\ task' = [task EXCEPT ![t].pc = "save", ![t].row.last = 0]
  /\ UNCHANGED <<rule, status, told>>

\* save writes the whole rule, and inserts it again if it was deleted: this is
\* the commit, and its answer is awaited.
SaveRule(t) ==
  /\ task[t].pc = "save"
  /\ rule' = [rule EXCEPT ![task[t].rule] = task[t].row]
  /\ IF task[t].op = "evaluate" THEN TaskGoes(t, "emit") ELSE TaskEnds(t)
  /\ UNCHANGED <<alert, status, told>>

\* The save has answered: the alert goes out to every dashboard.
EmitAlert(t) ==
  /\ task[t].pc = "emit"
  /\ told' = [told EXCEPT ![task[t].rule] = task[t].row.last]
  /\ TaskEnds(t)
  /\ UNCHANGED <<rule, alert, status>>

-----------------------------------------------------------------------------
(* Failures and the environment.                                            *)

\* A query rejects: the worker logs it, a request answers with it.  At "emit"
\* the save did commit and its answer is lost.
TaskFails(t) ==
  /\ task[t] # NoTask
  /\ TaskEnds(t)
  /\ UNCHANGED <<rule, alert, status, told>>

AlertsCrash ==
  /\ task' = [t \in Tasks |-> NoTask]
  /\ UNCHANGED <<rule, alert, status, told>>

StreamChanges(r, s) ==
  /\ status' = [status EXCEPT ![r] = s]
  /\ UNCHANGED <<rule, alert, told, task>>

Older(age) == IF age < Long THEN age + 1 ELSE Long

Aged(row) == IF row = Nothing THEN Nothing ELSE [row EXCEPT !.last = Older(@)]

TimePasses ==
  /\ rule' = [r \in Rules |-> Aged(rule[r])]
  /\ told' = [r \in Rules |-> Older(told[r])]
  /\ task' = [t \in Tasks |-> [task[t] EXCEPT !.row = Aged(@)]]
  /\ UNCHANGED <<alert, status>>

-----------------------------------------------------------------------------
StartOnRule(t) ==
  \E r \in Rules :
    \/ \E watch \in Watch, enabled \in BOOLEAN, cooldown \in Cooldowns :
         UpdateRule(t, r, watch, enabled, cooldown)
    \/ DeleteRule(t, r)
    \/ EvaluateRule(t, r)

TaskContinues(t) ==
  \/ RemoveRule(t) \/ SaveAcknowledged(t)
  \/ FindStream(t) \/ TriggerAlert(t) \/ SaveRule(t) \/ EmitAlert(t)
  \/ \E a \in AlertIds : SaveAlert(t, a)

AlertsEnvironment ==
  \/ \E r \in Rules, row \in RuleRow : CreateRule(r, row)
  \/ \E r \in Rules, s \in StreamState : StreamChanges(r, s)
  \/ \E t \in Tasks : TaskFails(t)
  \/ TimePasses
  \/ AlertsCrash

AlertsNext ==
  \/ \E t \in Tasks : StartOnRule(t) \/ TaskContinues(t)
  \/ \E t \in Tasks, a \in AlertIds : AcknowledgeEvent(t, a)
  \/ AlertsEnvironment

AlertsSpec == AlertsInit /\ [][AlertsNext]_alertVars

\* A tick of the worker is over before the next one, and administrators edit
\* between the ticks.
UndisturbedNext ==
  \/ \E t \in Keepers : (\A u \in Keepers : task[u] = NoTask) /\ StartOnRule(t)
  \/ \E t \in Tasks : TaskContinues(t)
  \/ \E t \in Tasks \ Keepers, a \in AlertIds : AcknowledgeEvent(t, a)
  \/ AlertsEnvironment

\* The clock goes on, every query is answered or rejected, the worker ticks,
\* and it does not find the same query failing for ever.
AlertsFairness ==
  /\ WF_alertVars(TimePasses)
  /\ \A t \in Keepers : WF_alertVars(TaskContinues(t) \/ TaskFails(t))
  /\ \A r \in Rules : SF_alertVars(\E t \in Keepers :
       (\A u \in Keepers : task[u] = NoTask) /\ EvaluateRule(t, r))
  /\ \A t \in Keepers, pc \in {"stream", "load", "event", "save", "emit"} :
       SF_alertVars(task[t].op = "evaluate" /\ task[t].pc = pc /\ TaskContinues(t))

Undisturbed == AlertsInit /\ [][UndisturbedNext]_alertVars /\ AlertsFairness

-----------------------------------------------------------------------------
(* Properties, of a worker that is not disturbed.                           *)

\* Two events of a rule are a cooldown apart if the dashboards got the first,
\* whatever failed, crashed or was edited in between: the time of the first is
\* written, and that of the second compared with it, awaits away.
CooldownKept ==
  [][\A t \in Tasks :
       task[t].pc = "event" /\ task'[t].pc = "save" =>
         told[task[t].rule] >= task[t].row.cooldown]_alertVars

\* While a stream stays in the state an enabled rule watches for, the
\* dashboards are told of it again and again.
Raised(r) == rule[r] # Nothing /\ rule[r].enabled /\ ShouldTrigger(rule[r].watch, status[r])

StillReported ==
  \A r \in Rules :
    <>[]Raised(r) => []<><<\E t \in Tasks : task[t].rule = r /\ EmitAlert(t)>>_alertVars

-----------------------------------------------------------------------------
(* The inductive invariant of CooldownKept.                                 *)

OneKeeper ==
  /\ \A t, u \in Keepers : task[t] # NoTask /\ task[u] # NoTask => t = u
  /\ \A t \in Tasks \ Keepers : task[t] # NoTask => task[t].op = "acknowledge"

Knows(k) ==
  /\ k.op = "acknowledge" <=> k.pc = "acknowledge"
  /\ k.pc = "acknowledge" => k.alert \in AlertIds
  /\ k.pc \in {"stream", "load", "event", "save", "emit"} => k.row \in RuleRow
  /\ k.pc \in {"stream", "load", "event", "emit"} => k.op = "evaluate"

TasksKnow == \A t \in Tasks : Knows(task[t])

\* What is remembered of a rule is never older than what the dashboards saw.
Remembers(k) ==
  /\ k.pc = "event" => k.row.last >= k.row.cooldown /\ k.row.last <= told[k.rule]
  /\ k.pc \in {"save", "emit"} => k.row.last <= told[k.rule]
  /\ k.pc = "emit" /\ k.rule \in Existing => rule[k.rule].last <= k.row.last

Remembered ==
  /\ \A r \in Existing : rule[r].last <= told[r]
  /\ \A t \in Tasks : Remembers(task[t])

AlertsInv == AlertsTypeOK /\ OneKeeper /\ TasksKnow /\ Remembered
=============================================================================
