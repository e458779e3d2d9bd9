---------------------------- MODULE Alerts_proofs ----------------------------
(***************************************************************************)
(* Theorems about alerts raised by a worker that is not disturbed, for     *)
(* every number of rules and tasks, and every cooldown.                    *)
(***************************************************************************)
EXTENDS Alerts, TLAPS

-----------------------------------------------------------------------------
(* What the helpers do.                                                     *)

LEMMA NoTaskIs ==
  /\ NoTask \in Task /\ NoTask.op = "none" /\ NoTask.pc = "idle"
  /\ Knows(NoTask) /\ Remembers(NoTask) /\ Remembers(NoTask)'
BY DEF NoTask, Task, Knows, Remembers

LEMMA ActiveTask ==
  ASSUME AlertsTypeOK, NEW t \in Tasks, task[t] # NoTask
  PROVE  task[t] \in [op : {"evaluate", "update", "delete", "acknowledge"},
                      pc : {"stream", "load", "event", "save", "emit", "remove", "acknowledge"},
                      rule : Rules, row : RuleRow \cup {Nothing}, alert : AlertIds \cup {Nothing}]
BY DEF AlertsTypeOK, Task

LEMMA AgesAreNumbers == Cooldowns \subseteq Nat /\ Age \subseteq Nat
<1>1. \A c \in Cooldowns : c \in 0..Long
  BY AlertsAssumption
<1>2. 0..Long \subseteq Nat
  BY AlertsAssumption
<1> QED
  BY <1>1, <1>2 DEF Age

\* A step of one task keeps the invariant if what the task goes on with is
\* well-formed, and what it writes is not older than what was told.
LEMMA StepOfTask ==
  ASSUME AlertsInv, NEW t \in Tasks, NEW new \in Task, task' = [task EXCEPT ![t] = new],
         rule' \in [Rules -> RuleRow \cup {Nothing}], alert' \in [AlertIds -> AlertRow \cup {Nothing}],
         status' = status, told' \in [Rules -> Age],
         \A r \in Rules : rule'[r] # Nothing => rule'[r].last <= told'[r],
         \/ told' = told /\ \A r \in Rules : rule'[r] = rule[r] \/ rule'[r] = Nothing
         \/ \A u \in Tasks : u # t => task[u].pc \notin {"event", "save", "emit"},
         \/ new = NoTask
         \/ t \in Keepers /\ \A u \in Keepers : u # t => task[u] = NoTask
         \/ t \notin Keepers /\ new.op = "acknowledge",
         Knows(new), Remembers(new)'
  PROVE  AlertsInv'
<1>1. task' \in [Tasks -> Task] /\ task'[t] = new /\ \A u \in Tasks : u # t => task'[u] = task[u]
  BY DEF AlertsInv, AlertsTypeOK
<1>2. AlertsTypeOK'
  BY <1>1 DEF AlertsInv, AlertsTypeOK
<1>3. OneKeeper'
  BY <1>1, AlertsAssumption DEF AlertsInv, OneKeeper
<1>4. TasksKnow'
  BY <1>1 DEF AlertsInv, TasksKnow, Knows
<1>5. \A r \in Existing' : rule'[r].last <= told'[r]
  BY DEF Existing
<1>6. ASSUME NEW u \in Tasks PROVE Remembers(task[u])'
  <2>1. CASE u = t
    BY <1>1, <2>1 DEF Remembers, Existing
  <2>2. CASE u # t /\ task[u].pc \notin {"event", "save", "emit"}
    BY <1>1, <2>2 DEF Remembers
  <2>3. CASE u # t /\ task[u].pc \in {"event", "save", "emit"}
    <3>1. /\ task'[u] = task[u] /\ told' = told /\ Remembers(task[u])
          /\ \A r \in Rules : rule'[r] = rule[r] \/ rule'[r] = Nothing
      BY <1>1, <2>3 DEF AlertsInv, Remembered
    <3> QED
      BY <3>1 DEF Remembers, Existing
  <2> QED
    BY <2>1, <2>2, <2>3
<1> QED
  BY <1>2, <1>3, <1>4, <1>5, <1>6 DEF AlertsInv, Remembered

\* A task that ends, or fails, without writing a rule.
LEMMA EndOfTask ==
  ASSUME AlertsInv, NEW t \in Tasks, TaskEnds(t), status' = status, told' = told,
         alert' \in [AlertIds -> AlertRow \cup {Nothing}],
         rule' \in [Rules -> RuleRow \cup {Nothing}],
         \A r \in Rules : rule'[r] = rule[r] \/ rule'[r] = Nothing
  PROVE  AlertsInv'
<1>1. \A r \in Rules : rule'[r] # Nothing => rule'[r].last <= told'[r]
  BY DEF AlertsInv, Remembered, Existing
<1>2. told' \in [Rules -> Age]
  BY DEF AlertsInv, AlertsTypeOK
<1> QED
  BY <1>1, <1>2, NoTaskIs, StepOfTask DEF TaskEnds

LEMMA RuleIs ==
  ASSUME AlertsInv, NEW r \in Existing
  PROVE  /\ r \in Rules /\ rule[r] \in RuleRow /\ rule[r].last <= told[r]
         /\ rule[r].last \in 0..Long /\ rule[r].cooldown \in 0..Long /\ told[r] \in 0..Long
BY AlertsAssumption DEF AlertsInv, AlertsTypeOK, Existing, Remembered, RuleRow, Age

LEMMA OnlyKeeper ==
  ASSUME AlertsInv, NEW t \in Tasks, task[t] # NoTask, task[t].op # "acknowledge"
  PROVE  /\ t \in Keepers /\ \A u \in Keepers : u # t => task[u] = NoTask
         /\ \A u \in Tasks : u # t => task[u].pc \notin {"event", "save", "emit"}
<1>1. t \in Keepers /\ \A u \in Keepers : u # t => task[u] = NoTask
  BY DEF AlertsInv, OneKeeper
<1>2. ASSUME NEW u \in Tasks, u # t PROVE task[u].pc \notin {"event", "save", "emit"}
  BY <1>1, <1>2, NoTaskIs DEF AlertsInv, OneKeeper, TasksKnow, Knows
<1> QED
  BY <1>1, <1>2

-----------------------------------------------------------------------------
(* The actions keep the invariant.                                          *)

LEMMA StartKeeps ==
  ASSUME AlertsInv, NEW t \in Keepers, \A u \in Keepers : task[u] = NoTask, StartOnRule(t)
  PROVE  AlertsInv'
<1>1. ASSUME NEW r \in Existing, NEW row \in RuleRow \cup {Nothing},
             NEW o \in {"update", "delete", "evaluate"}, NEW pc \in {"save", "remove", "stream"},
             StartTask(t, o, pc, r, row, Nothing),
             pc = "save" => row \in RuleRow /\ row.last = rule[r].last,
             pc = "stream" => o = "evaluate" /\ row \in RuleRow
      PROVE  AlertsInv'
  <2> DEFINE new == [op |-> o, pc |-> pc, rule |-> r, row |-> row, alert |-> Nothing]
  <2>1. r \in Rules /\ rule[r].last <= told[r]
    BY RuleIs
  <2>2. /\ new \in Task /\ new.op = o /\ new.pc = pc /\ new.rule = r /\ new.row = row
    BY <2>1 DEF Task
  <2>3. task' = [task EXCEPT ![t] = new] /\ UNCHANGED <<rule, alert, status, told>>
    BY <1>1 DEF StartTask
  <2> HIDE DEF new
  <2>4. Knows(new) /\ Remembers(new)'
    BY <1>1, <2>1, <2>2, <2>3 DEF Knows, Remembers
  <2>5. \A q \in Rules : rule'[q] # Nothing => rule'[q].last <= told'[q]
    BY <2>3 DEF AlertsInv, Remembered, Existing
  <2>6. t \in Tasks /\ \A u \in Keepers : u # t => task[u] = NoTask
    BY AlertsAssumption
  <2>7. /\ rule' \in [Rules -> RuleRow \cup {Nothing}]
        /\ alert' \in [AlertIds -> AlertRow \cup {Nothing}] /\ told' \in [Rules -> Age]
    BY <2>3 DEF AlertsInv, AlertsTypeOK
  <2> QED
    BY <2>2, <2>3, <2>4, <2>5, <2>6, <2>7, StepOfTask
<1>2. ASSUME NEW r \in Rules, NEW watch \in Watch, NEW enabled \in BOOLEAN,
             NEW cooldown \in Cooldowns, UpdateRule(t, r, watch, enabled, cooldown)
      PROVE  AlertsInv'
  <2> DEFINE row == [rule[r] EXCEPT !.watch = watch, !.enabled = enabled, !.cooldown = cooldown]
  <2>1. r \in Existing /\ StartTask(t, "update", "save", r, row, Nothing)
    BY <1>2 DEF UpdateRule
  <2>2. row \in RuleRow /\ row.last = rule[r].last
    BY <2>1, RuleIs DEF RuleRow
  <2> HIDE DEF row
  <2> QED
    BY <1>1, <2>1, <2>2
<1>3. ASSUME NEW r \in Rules, DeleteRule(t, r) PROVE AlertsInv'
  BY <1>1, <1>3 DEF DeleteRule
<1>4. ASSUME NEW r \in Rules, EvaluateRule(t, r) PROVE AlertsInv'
  <2>1. r \in Existing /\ StartTask(t, "evaluate", "stream", r, rule[r], Nothing)
    BY <1>4 DEF EvaluateRule
  <2>2. rule[r] \in RuleRow
    BY <2>1, RuleIs
  <2> QED
    BY <1>1, <2>1, <2>2
<1> QED
  BY <1>2, <1>3, <1>4 DEF StartOnRule

LEMMA AcknowledgeKeeps ==
  ASSUME AlertsInv, NEW t \in Tasks \ Keepers, NEW a \in AlertIds, AcknowledgeEvent(t, a)
  PROVE  AlertsInv'
<1>1. PICK r \in Rules : r = alert[a].rule
  BY DEF AcknowledgeEvent, AlertsInv, AlertsTypeOK, AlertRow
<1> DEFINE new == [op |-> "acknowledge", pc |-> "acknowledge", rule |-> r,
                   row |-> Nothing, alert |-> a]
<1>2. new \in Task /\ new.op = "acknowledge" /\ new.pc = "acknowledge" /\ new.alert = a
  BY DEF Task
<1>3. task' = [task EXCEPT ![t] = new] /\ UNCHANGED <<rule, alert, status, told>>
  BY <1>1 DEF AcknowledgeEvent, StartTask
<1> HIDE DEF new
<1>4. Knows(new) /\ Remembers(new)'
  BY <1>2 DEF Knows, Remembers
<1>5. \A q \in Rules : rule'[q] # Nothing => rule'[q].last <= told'[q]
  BY <1>3 DEF AlertsInv, Remembered, Existing
<1>6. /\ rule' \in [Rules -> RuleRow \cup {Nothing}]
      /\ alert' \in [AlertIds -> AlertRow \cup {Nothing}] /\ told' \in [Rules -> Age]
  BY <1>3 DEF AlertsInv, AlertsTypeOK
<1>7. t \in Tasks /\ t \notin Keepers /\ status' = status /\ told' = told
  BY <1>3
<1> QED
  BY <1>2, <1>3, <1>4, <1>5, <1>6, <1>7, StepOfTask

LEMMA EndingsKeep ==
  ASSUME AlertsInv, NEW t \in Tasks, RemoveRule(t) \/ SaveAcknowledged(t) \/ TaskFails(t)
  PROVE  AlertsInv'
<1>1. task[t] # NoTask
  BY NoTaskIs DEF RemoveRule, SaveAcknowledged, TaskFails
<1>2. task[t].rule \in Rules /\ (task[t].pc = "acknowledge" => task[t].alert \in AlertIds)
  BY <1>1, ActiveTask DEF AlertsInv, TasksKnow, Knows
<1>3. /\ alert' \in [AlertIds -> AlertRow \cup {Nothing}]
      /\ rule' \in [Rules -> RuleRow \cup {Nothing}]
      /\ \A r \in Rules : rule'[r] = rule[r] \/ rule'[r] = Nothing
  <2>1. CASE RemoveRule(t)
    BY <1>2, <2>1 DEF RemoveRule, AlertsInv, AlertsTypeOK
  <2>2. CASE SaveAcknowledged(t)
    BY <1>2, <2>2 DEF SaveAcknowledged, AlertsInv, AlertsTypeOK, AlertRow
  <2>3. CASE TaskFails(t)
    BY <2>3 DEF TaskFails, AlertsInv, AlertsTypeOK
  <2> QED
    BY <2>1, <2>2, <2>3
<1>4. TaskEnds(t) /\ status' = status /\ told' = told
  BY DEF RemoveRule, SaveAcknowledged, TaskFails
<1> QED
  BY <1>3, <1>4, EndOfTask

\* A step of the evaluation that writes nothing but its task.
LEMMA EvaluationGoesOn ==
  ASSUME AlertsInv, NEW t \in Tasks, NEW row \in RuleRow, NEW pc \in {"load", "event", "save"},
         task[t] # NoTask, task[t].op = "evaluate",
         task' = [task EXCEPT ![t].pc = pc, ![t].row = row],
         UNCHANGED <<rule, status, told>>, alert' \in [AlertIds -> AlertRow \cup {Nothing}],
         pc = "event" => row.last >= row.cooldown,
         pc \in {"event", "save"} => row.last <= told[task[t].rule]
  PROVE  AlertsInv'
<1>1. PICK k \in Task : k = [task[t] EXCEPT !.pc = pc, !.row = row]
  <2>1. [task[t] EXCEPT !.pc = pc, !.row = row] \in Task
    BY ActiveTask DEF AlertsInv, Task
  <2> QED
    BY <2>1
<1>2. k.op = "evaluate" /\ k.pc = pc /\ k.row = row /\ k.rule = task[t].rule
  BY <1>1, ActiveTask DEF AlertsInv
<1>3. task' = [task EXCEPT ![t] = k]
  BY <1>1, ActiveTask DEF AlertsInv, AlertsTypeOK
<1>4. Knows(k)
  BY <1>2 DEF Knows
<1>5. Remembers(k)'
  BY <1>2 DEF Remembers
<1>6. \A q \in Rules : rule'[q] # Nothing => rule'[q].last <= told'[q]
  BY DEF AlertsInv, Remembered, Existing
<1>7. rule' \in [Rules -> RuleRow \cup {Nothing}] /\ told' \in [Rules -> Age]
  BY DEF AlertsInv, AlertsTypeOK
<1>8. t \in Keepers /\ \A u \in Keepers : u # t => task[u] = NoTask
  BY OnlyKeeper
<1> QED
  BY <1>3, <1>4, <1>5, <1>6, <1>7, <1>8, StepOfTask

LEMMA EvaluationKeeps ==
  ASSUME AlertsInv, NEW t \in Tasks,
         FindStream(t) \/ TriggerAlert(t) \/ \E a \in AlertIds : SaveAlert(t, a)
  PROVE  AlertsInv'
<1>1. task[t] # NoTask /\ task[t].pc \in {"stream", "load", "event"}
  BY NoTaskIs DEF FindStream, TriggerAlert, SaveAlert
<1>2. task[t].op = "evaluate" /\ task[t].row \in RuleRow
  BY <1>1 DEF AlertsInv, TasksKnow, Knows
<1>3. task[t].rule \in Rules
  BY <1>1, ActiveTask DEF AlertsInv
<1>4. CASE TaskEnds(t) /\ UNCHANGED <<rule, alert, status, told>>
  <2>1. /\ alert' \in [AlertIds -> AlertRow \cup {Nothing}]
        /\ rule' \in [Rules -> RuleRow \cup {Nothing}]
    BY <1>4 DEF AlertsInv, AlertsTypeOK
  <2> QED
    BY <1>4, <2>1, EndOfTask
<1>5. CASE FindStream(t) /\ TaskGoes(t, "load")
  <2>1. task' = [task EXCEPT ![t].pc = "load", ![t].row = task[t].row]
    BY <1>1, <1>5, ActiveTask DEF TaskGoes, AlertsInv, AlertsTypeOK
  <2>2. UNCHANGED <<rule, alert, status, told>>
    BY <1>5 DEF FindStream
  <2>3. alert' \in [AlertIds -> AlertRow \cup {Nothing}]
    BY <2>2 DEF AlertsInv, AlertsTypeOK
  <2> QED
    BY <1>1, <1>2, <2>1, <2>2, <2>3, EvaluationGoesOn
<1>6. CASE TriggerAlert(t) /\ task[t].rule \in Existing
           /\ rule[task[t].rule].last >= rule[task[t].rule].cooldown
           /\ task' = [task EXCEPT ![t].pc = "event", ![t].row = rule[task[t].rule]]
  <2>1. UNCHANGED <<rule, alert, status, told>>
    BY <1>6 DEF TriggerAlert
  <2>2. alert' \in [AlertIds -> AlertRow \cup {Nothing}]
    BY <2>1 DEF AlertsInv, AlertsTypeOK
  <2>3. rule[task[t].rule] \in RuleRow /\ rule[task[t].rule].last <= told[task[t].rule]
    BY <1>6, RuleIs
  <2> QED
    BY <1>1, <1>2, <1>6, <2>1, <2>2, <2>3, EvaluationGoesOn
<1>7. ASSUME NEW a \in AlertIds, SaveAlert(t, a) PROVE AlertsInv'
  <2>1. /\ UNCHANGED <<rule, status, told>>
        /\ alert' = [alert EXCEPT ![a] = [rule |-> task[t].rule, acknowledged |-> FALSE]]
        /\ task' = [task EXCEPT ![t].pc = "save", ![t].row.last = 0]
    BY <1>7 DEF SaveAlert
  <2>2. alert' \in [AlertIds -> AlertRow \cup {Nothing}]
    BY <1>3, <2>1 DEF AlertsInv, AlertsTypeOK, AlertRow
  <2>3. PICK row \in RuleRow : row = [task[t].row EXCEPT !.last = 0] /\ row.last = 0
    <3>1. [task[t].row EXCEPT !.last = 0] \in RuleRow /\ [task[t].row EXCEPT !.last = 0].last = 0
      BY <1>2, AlertsAssumption DEF RuleRow, Age
    <3> QED
      BY <3>1
  <2>4. task' = [task EXCEPT ![t].pc = "save", ![t].row = row]
    BY <2>1, <2>3, <1>1, ActiveTask DEF AlertsInv, AlertsTypeOK
  <2>5. row.last <= told[task[t].rule]
    BY <1>3, <2>3, AlertsAssumption DEF AlertsInv, AlertsTypeOK, Age
  <2> QED
    BY <1>1, <1>2, <2>1, <2>2, <2>3, <2>4, <2>5, EvaluationGoesOn
<1> QED
  BY <1>4, <1>5, <1>6, <1>7 DEF FindStream, TriggerAlert

LEMMA SaveRuleKeeps ==
  ASSUME AlertsInv, NEW t \in Tasks, SaveRule(t)
  PROVE  AlertsInv'
<1>1. task[t] # NoTask /\ task[t].pc = "save"
  BY NoTaskIs DEF SaveRule
<1>2. /\ task[t].row \in RuleRow /\ task[t].op # "acknowledge" /\ task[t].rule \in Rules
      /\ task[t].row.last <= told[task[t].rule]
  BY <1>1, ActiveTask DEF AlertsInv, TasksKnow, Knows, Remembered, Remembers
<1>3. PICK new \in Task :
        /\ task' = [task EXCEPT ![t] = new]
        /\ \/ new = NoTask
           \/ /\ new.pc = "emit" /\ new.op = "evaluate"
              /\ new.row = task[t].row /\ new.rule = task[t].rule
  <2>1. CASE task[t].op = "evaluate"
    <3> DEFINE k == [task[t] EXCEPT !.pc = "emit"]
    <3>1. /\ k \in Task /\ k.pc = "emit" /\ k.op = "evaluate"
          /\ k.row = task[t].row /\ k.rule = task[t].rule
      BY <1>1, <2>1, ActiveTask DEF AlertsInv, Task
    <3>2. task' = [task EXCEPT ![t] = k]
      BY <1>1, <2>1, ActiveTask DEF SaveRule, TaskGoes, AlertsInv, AlertsTypeOK
    <3> QED
      BY <3>1, <3>2
  <2>2. CASE task[t].op # "evaluate"
    BY <2>2, NoTaskIs DEF SaveRule, TaskEnds
  <2> QED
    BY <2>1, <2>2
<1>4. /\ rule' = [rule EXCEPT ![task[t].rule] = task[t].row] /\ UNCHANGED <<alert, status, told>>
  BY DEF SaveRule
<1>5. /\ rule' \in [Rules -> RuleRow \cup {Nothing}] /\ told' \in [Rules -> Age]
      /\ alert' \in [AlertIds -> AlertRow \cup {Nothing}]
  BY <1>2, <1>4 DEF AlertsInv, AlertsTypeOK
<1>6. \A r \in Rules : rule'[r] # Nothing => rule'[r].last <= told'[r]
  BY <1>2, <1>4 DEF AlertsInv, AlertsTypeOK, Remembered, Existing
<1>7. /\ t \in Keepers /\ \A u \in Keepers : u # t => task[u] = NoTask
      /\ \A u \in Tasks : u # t => task[u].pc \notin {"event", "save", "emit"}
  BY <1>1, <1>2, OnlyKeeper
<1>8. Knows(new)
  BY <1>2, <1>3, NoTaskIs DEF Knows
<1>9. Remembers(new)'
  <2>1. task[t].row.last \in Nat /\ rule'[task[t].rule] = task[t].row
    BY <1>2, <1>4, AgesAreNumbers DEF RuleRow, AlertsInv, AlertsTypeOK
  <2> QED
    BY <1>2, <1>3, <1>4, <2>1, NoTaskIs DEF Remembers
<1> QED
  BY <1>3, <1>4, <1>5, <1>6, <1>7, <1>8, <1>9, StepOfTask

LEMMA EmitAlertKeeps ==
  ASSUME AlertsInv, NEW t \in Tasks, EmitAlert(t)
  PROVE  AlertsInv'
<1>1. task[t] # NoTask /\ task[t].pc = "emit"
  BY NoTaskIs DEF EmitAlert
<1>2. /\ task[t].row \in RuleRow /\ task[t].op = "evaluate" /\ task[t].rule \in Rules
      /\ task[t].rule \in Existing => rule[task[t].rule].last <= task[t].row.last
  BY <1>1, ActiveTask DEF AlertsInv, TasksKnow, Knows, Remembered, Remembers
<1>3. /\ told' = [told EXCEPT ![task[t].rule] = task[t].row.last] /\ TaskEnds(t)
      /\ UNCHANGED <<rule, alert, status>>
  BY DEF EmitAlert
<1>4. /\ rule' \in [Rules -> RuleRow \cup {Nothing}] /\ told' \in [Rules -> Age]
      /\ alert' \in [AlertIds -> AlertRow \cup {Nothing}]
  BY <1>2, <1>3 DEF AlertsInv, AlertsTypeOK, RuleRow
<1>5. \A r \in Rules : rule'[r] # Nothing => rule'[r].last <= told'[r]
  BY <1>2, <1>3 DEF AlertsInv, AlertsTypeOK, Remembered, Existing
<1>6. \A u \in Tasks : u # t => task[u].pc \notin {"event", "save", "emit"}
  BY <1>1, <1>2, OnlyKeeper
<1> QED
  BY <1>3, <1>4, <1>5, <1>6, NoTaskIs, StepOfTask DEF TaskEnds

LEMMA CrashKeeps ==
  ASSUME AlertsInv, AlertsCrash
  PROVE  AlertsInv'
<1>1. \A t \in Tasks : task'[t] = NoTask
  BY DEF AlertsCrash
<1>2. AlertsTypeOK'
  BY NoTaskIs DEF AlertsCrash, AlertsInv, AlertsTypeOK
<1>3. OneKeeper'
  BY <1>1, AlertsAssumption DEF OneKeeper
<1>4. TasksKnow'
  BY <1>1, NoTaskIs DEF TasksKnow, Knows
<1>5. Remembered'
  BY <1>1, NoTaskIs DEF AlertsCrash, AlertsInv, Remembered, Remembers, Existing
<1> QED
  BY <1>2, <1>3, <1>4, <1>5 DEF AlertsInv

\* A rule is created with an id that nothing refers to.
LEMMA CreateRuleKeeps ==
  ASSUME AlertsInv, NEW r \in Rules, NEW row \in RuleRow, CreateRule(r, row)
  PROVE  AlertsInv'
<1>1. /\ told[r] = Long /\ row.last = Long /\ rule' = [rule EXCEPT ![r] = row]
      /\ UNCHANGED <<alert, status, told, task>>
  BY DEF CreateRule
<1>2. AlertsTypeOK' /\ OneKeeper' /\ TasksKnow'
  BY <1>1 DEF AlertsInv, AlertsTypeOK, OneKeeper, TasksKnow, Knows
<1>3. \A q \in Existing' : rule'[q].last <= told'[q]
  BY <1>1, AlertsAssumption DEF AlertsInv, AlertsTypeOK, Remembered, Existing
<1>4. \A t \in Tasks : Remembers(task[t])'
  BY <1>1 DEF CreateRule, AlertsInv, Remembered, Remembers, Existing
<1> QED
  BY <1>2, <1>3, <1>4 DEF AlertsInv, Remembered

LEMMA StreamChangesKeeps ==
  ASSUME AlertsInv, NEW r \in Rules, NEW s \in StreamState, StreamChanges(r, s)
  PROVE  AlertsInv'
<1>1. AlertsTypeOK'
  BY DEF StreamChanges, AlertsInv, AlertsTypeOK
<1>2. OneKeeper' /\ TasksKnow' /\ Remembered'
  BY DEF StreamChanges, AlertsInv, OneKeeper, TasksKnow, Knows, Remembered, Remembers, Existing
<1> QED
  BY <1>1, <1>2 DEF AlertsInv

LEMMA StutterKeeps ==
  ASSUME AlertsInv, UNCHANGED alertVars
  PROVE  AlertsInv'
<1>1. AlertsTypeOK' /\ OneKeeper' /\ TasksKnow'
  BY DEF alertVars, AlertsInv, AlertsTypeOK, OneKeeper, TasksKnow, Knows
<1>2. Remembered'
  BY DEF alertVars, AlertsInv, Remembered, Remembers, Existing
<1> QED
  BY <1>1, <1>2 DEF AlertsInv

LEMMA OlderIs ==
  ASSUME NEW age \in Age, NEW seen \in Age
  PROVE  /\ Older(age) \in Age /\ Older(age) >= age
         /\ age <= seen => Older(age) <= Older(seen)
BY AlertsAssumption DEF Older, Age

LEMMA AgedIs ==
  ASSUME NEW row \in RuleRow \cup {Nothing}
  PROVE  /\ Aged(row) \in RuleRow \cup {Nothing}
         /\ row \in RuleRow => Aged(row) \in RuleRow
         /\ row \in RuleRow /\ row # Nothing =>
              Aged(row).last = Older(row.last) /\ Aged(row).cooldown = row.cooldown
<1>1. CASE row = Nothing
  BY <1>1 DEF Aged
<1>2. CASE row \in RuleRow /\ row # Nothing
  <2>1. row.last \in Age
    BY <1>2 DEF RuleRow
  <2>2. Older(row.last) \in Age
    BY <2>1, OlderIs
  <2> QED
    BY <1>2, <2>2 DEF Aged, RuleRow
<1> QED
  BY <1>1, <1>2

\* Everything that is remembered grows older by the same.
LEMMA TimePassesKeeps ==
  ASSUME AlertsInv, TimePasses
  PROVE  AlertsInv'
<1>1. ASSUME NEW t \in Tasks
      PROVE  /\ task'[t] \in Task /\ (task'[t] = NoTask <=> task[t] = NoTask)
             /\ task'[t].op = task[t].op /\ task'[t].pc = task[t].pc
             /\ task'[t].rule = task[t].rule /\ task'[t].alert = task[t].alert
             /\ task'[t].row = Aged(task[t].row)
  <2>1. task'[t] = [task[t] EXCEPT !.row = Aged(task[t].row)]
    BY DEF TimePasses
  <2>2. CASE task[t] = NoTask
    BY <2>1, <2>2 DEF NoTask, Aged, Task
  <2>3. CASE task[t] # NoTask
    <3>1. Aged(task[t].row) \in RuleRow \cup {Nothing}
      BY <2>3, ActiveTask, AgedIs DEF AlertsInv
    <3>2. task'[t] \in Task /\ task'[t].op = task[t].op /\ task'[t].pc = task[t].pc
          /\ task'[t].rule = task[t].rule /\ task'[t].alert = task[t].alert
          /\ task'[t].row = Aged(task[t].row)
      BY <2>1, <2>3, <3>1, ActiveTask DEF AlertsInv, Task
    <3>3. task[t].op # "none"
      BY <2>3, ActiveTask DEF AlertsInv
    <3> QED
      BY <2>3, <3>2, <3>3, NoTaskIs
  <2> QED
    BY <2>2, <2>3
<1>2. ASSUME NEW r \in Rules
      PROVE  /\ rule'[r] = Aged(rule[r]) /\ rule'[r] \in RuleRow \cup {Nothing}
             /\ told'[r] = Older(told[r]) /\ told'[r] \in Age
             /\ rule'[r] # Nothing => rule'[r].last <= told'[r]
  <2>1. rule'[r] = Aged(rule[r]) /\ told'[r] = Older(told[r])
    BY DEF TimePasses
  <2>2. rule[r] \in RuleRow \cup {Nothing} /\ told[r] \in Age
    BY DEF AlertsInv, AlertsTypeOK
  <2>3. told'[r] \in Age /\ rule'[r] \in RuleRow \cup {Nothing}
    BY <2>1, <2>2, AgedIs, OlderIs
  <2>4. ASSUME rule'[r] # Nothing PROVE rule'[r].last <= told'[r]
    <3>1. rule[r] # Nothing
      BY <2>1, <2>4 DEF Aged
    <3>2. rule[r].last <= told[r] /\ rule[r].last \in Age
      BY <2>2, <3>1 DEF AlertsInv, Remembered, Existing, RuleRow
    <3>3. rule'[r].last = Older(rule[r].last)
      BY <2>1, <2>2, <3>1, AgedIs
    <3> QED
      BY <2>1, <2>2, <3>2, <3>3, OlderIs
  <2> QED
    BY <2>1, <2>3, <2>4
<1>3. AlertsTypeOK'
  <2>1. rule' \in [Rules -> RuleRow \cup {Nothing}]
    BY <1>2 DEF TimePasses
  <2>2. told' \in [Rules -> Age]
    BY <1>2 DEF TimePasses
  <2>3. task' \in [Tasks -> Task]
    BY <1>1 DEF TimePasses
  <2> QED
    BY <2>1, <2>2, <2>3 DEF TimePasses, AlertsInv, AlertsTypeOK
<1>4. OneKeeper'
  BY <1>1, AlertsAssumption DEF AlertsInv, OneKeeper
<1>5. ASSUME NEW t \in Tasks, task[t].pc \in {"stream", "load", "event", "save", "emit"}
      PROVE  /\ task[t].row \in RuleRow /\ task'[t].row \in RuleRow /\ task[t].rule \in Rules
             /\ task[t].row = Nothing \/ (task'[t].row.last = Older(task[t].row.last)
                                          /\ task'[t].row.cooldown = task[t].row.cooldown)
  <2>1. task[t].row \in RuleRow
    BY <1>5 DEF AlertsInv, TasksKnow, Knows
  <2>2. task[t] # NoTask
    BY <1>5, NoTaskIs
  <2> QED
    BY <1>1, <2>1, <2>2, AgedIs, ActiveTask DEF AlertsInv
<1>6. TasksKnow'
  BY <1>1, <1>5 DEF AlertsInv, TasksKnow, Knows
<1>7. ASSUME NEW t \in Tasks PROVE Remembers(task[t])'
  <2>1. ASSUME task[t].pc \in {"event", "save", "emit"}
        PROVE  /\ task'[t].row.last <= told'[task'[t].rule]
               /\ task[t].pc = "event" => task'[t].row.last >= task'[t].row.cooldown
               /\ task[t].pc = "emit" /\ task'[t].rule \in Existing' =>
                    rule'[task'[t].rule].last <= task'[t].row.last
    <3>1. /\ task[t].row \in RuleRow /\ task[t].row.last \in Age /\ told[task[t].rule] \in Age
      BY <1>5, <2>1 DEF RuleRow, AlertsInv, AlertsTypeOK
    <3>2. Remembers(task[t])
      BY DEF AlertsInv, Remembered
    <3>3. task[t].row # Nothing
      BY <1>5, <2>1, NothingIsNoRow
    <3>4. /\ task'[t].row.last = Older(task[t].row.last)
          /\ task'[t].row.cooldown = task[t].row.cooldown
          /\ task'[t].rule = task[t].rule
          /\ told'[task'[t].rule] = Older(told[task[t].rule])
      BY <1>1, <1>2, <1>5, <2>1, <3>3
    <3>5. task'[t].row.last <= told'[task'[t].rule]
      BY <2>1, <3>1, <3>2, <3>4, OlderIs DEF Remembers
    <3>6. ASSUME task[t].pc = "event" PROVE task'[t].row.last >= task'[t].row.cooldown
      <4>1. task[t].row.cooldown \in Cooldowns
        BY <3>1 DEF RuleRow
      <4>2. task[t].row.cooldown \in Nat /\ task[t].row.last \in Nat
            /\ Older(task[t].row.last) \in Nat
        BY <3>1, <4>1, OlderIs, AgesAreNumbers
      <4>3. task[t].row.last >= task[t].row.cooldown /\ Older(task[t].row.last) >= task[t].row.last
        BY <3>1, <3>2, <3>6, OlderIs DEF Remembers
      <4> QED
        BY <3>4, <4>2, <4>3
    <3>7. ASSUME task[t].pc = "emit", task'[t].rule \in Existing'
          PROVE  rule'[task'[t].rule].last <= task'[t].row.last
      <4> DEFINE r == task[t].rule
      <4>1. r \in Rules /\ rule'[r] = Aged(rule[r]) /\ rule'[r] # Nothing
        BY <1>2, <1>5, <2>1, <3>4, <3>7 DEF Existing
      <4>2. rule[r] # Nothing /\ rule[r] \in RuleRow
        BY <4>1 DEF Aged, AlertsInv, AlertsTypeOK
      <4>3. rule[r].last \in Age /\ rule[r].last <= task[t].row.last
        BY <3>2, <3>7, <4>1, <4>2 DEF Remembers, Existing, RuleRow
      <4>4. rule'[r].last = Older(rule[r].last)
        BY <4>1, <4>2, AgedIs
      <4> QED
        BY <3>1, <3>4, <4>3, <4>4, OlderIs
    <3> QED
      BY <3>5, <3>6, <3>7
  <2> QED
    BY <1>1, <2>1 DEF Remembers
<1> QED
  BY <1>2, <1>3, <1>4, <1>6, <1>7 DEF AlertsInv, Remembered, Existing

-----------------------------------------------------------------------------
(* The invariant, and what follows from it.                                 *)

LEMMA InitAlerts == AlertsInit => AlertsInv
<1> SUFFICES ASSUME AlertsInit PROVE AlertsInv
  OBVIOUS
<1>1. AlertsTypeOK
  BY NoTaskIs, AlertsAssumption DEF AlertsInit, AlertsTypeOK, Age
<1>2. OneKeeper
  BY AlertsAssumption DEF AlertsInit, OneKeeper
<1>3. TasksKnow
  BY NoTaskIs DEF AlertsInit, TasksKnow
<1>4. Remembered
  BY NoTaskIs DEF AlertsInit, Remembered, Existing
<1> QED
  BY <1>1, <1>2, <1>3, <1>4 DEF AlertsInv

LEMMA NextAlerts == AlertsInv /\ [UndisturbedNext]_alertVars => AlertsInv'
<1> SUFFICES ASSUME AlertsInv, [UndisturbedNext]_alertVars PROVE AlertsInv'
  OBVIOUS
<1>1. ASSUME NEW t \in Keepers, \A u \in Keepers : task[u] = NoTask, StartOnRule(t)
      PROVE  AlertsInv'
  BY <1>1, StartKeeps
<1>2. ASSUME NEW t \in Tasks, TaskContinues(t) PROVE AlertsInv'
  BY <1>2, EndingsKeep, EvaluationKeeps, SaveRuleKeeps, EmitAlertKeeps DEF TaskContinues
<1>3. ASSUME NEW t \in Tasks \ Keepers, NEW a \in AlertIds, AcknowledgeEvent(t, a)
      PROVE  AlertsInv'
  BY <1>3, AcknowledgeKeeps
<1>4. CASE AlertsEnvironment
  <2>1. ASSUME NEW r \in Rules, NEW row \in RuleRow, CreateRule(r, row) PROVE AlertsInv'
    BY <2>1, CreateRuleKeeps
  <2>2. ASSUME NEW r \in Rules, NEW s \in StreamState, StreamChanges(r, s) PROVE AlertsInv'
    BY <2>2, StreamChangesKeeps
  <2>3. ASSUME NEW t \in Tasks, TaskFails(t) PROVE AlertsInv'
    BY <2>3, EndingsKeep
  <2> QED
    BY <1>4, <2>1, <2>2, <2>3, TimePassesKeeps, CrashKeeps DEF AlertsEnvironment
<1>5. CASE UNCHANGED alertVars
  BY <1>5, StutterKeeps
<1> QED
  BY <1>1, <1>2, <1>3, <1>4, <1>5 DEF UndisturbedNext

LEMMA AlwaysAlertsInv == Undisturbed => []AlertsInv
BY InitAlerts, NextAlerts, PTL DEF Undisturbed

\* The tables, the streams and the tasks in flight of alerts.service and
\* alerts.worker keep their types, whatever fails or crashes.
THEOREM AlertsTypes == Undisturbed => []AlertsTypeOK
<1>1. AlertsInv => AlertsTypeOK
  BY DEF AlertsInv
<1> QED
  BY <1>1, AlwaysAlertsInv, PTL

\* Only the evaluation that stores an event goes from "event" to "save", and it
\* had compared the cooldown with a time no older than what was told.
LEMMA CooldownOfStep ==
  ASSUME AlertsInv, [UndisturbedNext]_alertVars, NEW t \in Tasks,
         task[t].pc = "event", task'[t].pc = "save"
  PROVE  told[task[t].rule] >= task[t].row.cooldown
<1>1. task[t] # NoTask
  BY NoTaskIs
<1>2. task[t].row \in RuleRow /\ task[t].rule \in Rules
  BY <1>1, ActiveTask DEF AlertsInv, TasksKnow, Knows
<1>3. task[t].row.cooldown \in Cooldowns /\ task[t].row.last \in Age /\ told[task[t].rule] \in Age
  BY <1>2 DEF RuleRow, AlertsInv, AlertsTypeOK
<1>4. task[t].row.cooldown \in Nat /\ task[t].row.last \in Nat /\ told[task[t].rule] \in Nat
  BY <1>3, AgesAreNumbers
<1>5. task[t].row.last >= task[t].row.cooldown /\ task[t].row.last <= told[task[t].rule]
  BY DEF AlertsInv, Remembered, Remembers
<1> QED
  BY <1>4, <1>5

\* A worker whose ticks do not overlap, and whose rules nobody edits during
\* one, never raises two events of a rule within its cooldown if the dashboards
\* got the first: triggerAlert compares a time that save wrote before the first
\* was sent, and neither an edit, a failed query nor a crash makes it older.
THEOREM CooldownAlwaysKept == Undisturbed => CooldownKept
<1>1. AlertsInv /\ [UndisturbedNext]_alertVars =>
        [\A t \in Tasks :
           task[t].pc = "event" /\ task'[t].pc = "save" =>
             told[task[t].rule] >= task[t].row.cooldown]_alertVars
  BY CooldownOfStep
<1> QED
  BY <1>1, AlwaysAlertsInv, PTL DEF Undisturbed, CooldownKept
=============================================================================
