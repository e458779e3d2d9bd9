--------------------------- MODULE Streams_proofs ---------------------------
(***************************************************************************)
(* Theorems about the streams, for every number of streams, sessions and   *)
(* requests: the supervisor under any use, then under the serial use of    *)
(* IngestionSerial, up to its refinement of StreamSupervisor; then the     *)
(* service that uses it, and what the serial service adds.                 *)
(***************************************************************************)
EXTENDS StreamServiceSerial, TLAPS

LEMMA TypeInit == Init => TypeOK
<1> SUFFICES ASSUME Init PROVE TypeOK
  OBVIOUS
<1>1. attempts \in [Sessions -> Nat]
  <2>1. 0 \in Nat
    OBVIOUS
  <2> QED
    BY <2>1 DEF Init
<1> QED
  BY <1>1 DEF Init, TypeOK, IngestionStatus, Task

LEMMA TypeStep == TypeOK /\ [Next]_vars => TypeOK'
<1> SUFFICES ASSUME TypeOK, [Next]_vars PROVE TypeOK'
  OBVIOUS
<1> USE LimitAssumption DEF TypeOK, IngestionStatus, Task
<1>1. CASE CheckFFmpegAvailability
  BY <1>1 DEF CheckFFmpegAvailability, maps, captured
<1>2. ASSUME NEW st \in Streams, NEW c \in Configs, NEW ok \in BOOLEAN,
             StartIngestion(st, c, ok)
      PROVE TypeOK'
  BY <1>2 DEF StartIngestion, SpawnFFmpeg
<1>3. ASSUME NEW st \in Streams, StopIngestion(st) PROVE TypeOK'
  BY <1>3 DEF StopIngestion, Signalled, captured
<1>4. ASSUME NEW st \in Streams, NEW ok \in BOOLEAN, RestartIngestion(st, ok)
      PROVE TypeOK'
  BY <1>4 DEF RestartIngestion, SpawnFFmpeg, Signalled
<1>5. CASE Shutdown
  BY <1>5 DEF Shutdown, Signalled, captured
<1>6. ASSUME NEW s \in Sessions, NEW code \in ExitCode, ProcessClose(s, code)
      PROVE TypeOK'
  BY <1>6 DEF ProcessClose, ScheduleReconnect, CountAttempt, captured
<1>7. ASSUME NEW s \in Sessions, NEW ok \in BOOLEAN, ReconnectTimer(s, ok)
      PROVE TypeOK'
  BY <1>7 DEF ReconnectTimer, SpawnFFmpeg, captured
<1>8. ASSUME NEW s \in Sessions, KillTimer(s) PROVE TypeOK'
  BY <1>8 DEF KillTimer, maps, captured
<1>9. CASE UNCHANGED vars
  BY <1>9 DEF vars
<1> QED
  BY <1>1, <1>2, <1>3, <1>4, <1>5, <1>6, <1>7, <1>8, <1>9
     DEF Next, Operation, Callback

\* Type correctness: every operation and callback of ingestion.service keeps
\* the maps, the captured values and the counters in their types.
THEOREM TypeCorrect == Spec => []TypeOK
BY TypeInit, TypeStep, PTL DEF Spec

-----------------------------------------------------------------------------
(* The maps agree only together with the fact that whatever can still call  *)
(* back knows its stream and its limit.                                     *)
CallbacksKnow ==
  \A s \in Sessions : task[s] # "idle" => stream[s] \in Streams /\ config[s] \in Configs

MapsInv == TypeOK /\ MapsAgree /\ CallbacksKnow

LEMMA MapsStep == MapsInv /\ [Next]_vars => MapsInv'
<1> SUFFICES ASSUME MapsInv, [Next]_vars PROVE MapsInv'
  OBVIOUS
<1>t. TypeOK'
  BY TypeStep DEF MapsInv
<1> USE NoneAssumption, <1>t DEF MapsInv, MapsAgree, CallbacksKnow, TypeOK
<1>1. CASE CheckFFmpegAvailability
  BY <1>1 DEF CheckFFmpegAvailability, maps, captured
<1>2. ASSUME NEW st \in Streams, NEW c \in Configs, NEW ok \in BOOLEAN,
             StartIngestion(st, c, ok)
      PROVE MapsInv'
  BY <1>2 DEF StartIngestion, SpawnFFmpeg, Discarded
<1>3. ASSUME NEW st \in Streams, StopIngestion(st) PROVE MapsInv'
  BY <1>3 DEF StopIngestion, Signalled, captured
<1>4. ASSUME NEW st \in Streams, NEW ok \in BOOLEAN, RestartIngestion(st, ok)
      PROVE MapsInv'
  BY <1>4 DEF RestartIngestion, SpawnFFmpeg, Signalled, Discarded
<1>5. CASE Shutdown
  BY <1>5 DEF Shutdown, Signalled, captured
<1>6. ASSUME NEW s \in Sessions, NEW code \in ExitCode, ProcessClose(s, code)
      PROVE MapsInv'
  BY <1>6 DEF ProcessClose, ScheduleReconnect, Registered, ClosesWith, captured
<1>7. ASSUME NEW s \in Sessions, NEW ok \in BOOLEAN, ReconnectTimer(s, ok)
      PROVE MapsInv'
  BY <1>7 DEF ReconnectTimer, SpawnFFmpeg, Registered, captured
<1>8. ASSUME NEW s \in Sessions, KillTimer(s) PROVE MapsInv'
  BY <1>8 DEF KillTimer, maps, captured
<1>9. CASE UNCHANGED vars
  BY <1>9 DEF vars
<1> QED
  BY <1>1, <1>2, <1>3, <1>4, <1>5, <1>6, <1>7, <1>8, <1>9
     DEF Next, Operation, Callback

LEMMA MapsInvariant == Spec => []MapsInv
<1>1. Init => MapsInv
  BY TypeInit DEF Init, MapsInv, MapsAgree, CallbacksKnow
<1> QED
  BY <1>1, MapsStep, PTL DEF Spec

\* Under any interleaving of operations and callbacks the three maps agree, so
\* the unchecked states.get(streamId)! of stopIngestion never finds nothing
\* and a restart uses the config its predecessor was started with.
THEOREM MapsAlwaysAgree == Spec => []MapsAgree
BY MapsInvariant, PTL DEF MapsInv

-----------------------------------------------------------------------------
(* The retry budget is inductive given the maps' invariant: a callback that  *)
(* leaves something outstanding has just compared the counter.               *)
LEMMA BudgetStep == MapsInv /\ RetryBudget /\ [Next]_vars => RetryBudget'
<1> SUFFICES ASSUME MapsInv, RetryBudget, [Next]_vars PROVE RetryBudget'
  OBVIOUS
<1> USE LimitAssumption DEF MapsInv, CallbacksKnow, TypeOK, RetryBudget, limitOf
<1>1. CASE CheckFFmpegAvailability
  BY <1>1 DEF CheckFFmpegAvailability, maps, captured
<1>2. ASSUME NEW st \in Streams, NEW c \in Configs, NEW ok \in BOOLEAN,
             StartIngestion(st, c, ok)
      PROVE RetryBudget'
  BY <1>2 DEF StartIngestion, SpawnFFmpeg
<1>3. ASSUME NEW st \in Streams, StopIngestion(st) PROVE RetryBudget'
  BY <1>3 DEF StopIngestion, Signalled, captured
<1>4. ASSUME NEW st \in Streams, NEW ok \in BOOLEAN, RestartIngestion(st, ok)
      PROVE RetryBudget'
  <2>1. configs[st] \in Configs /\ MaxReconnects[configs[st]] \in Nat
    BY <1>4 DEF RestartIngestion
  <2>2. PICK s \in Sessions :
          /\ config' = [config EXCEPT ![s] = configs[st]]
          /\ attempts' = [attempts EXCEPT ![s] = 0]
          /\ task' = [[task EXCEPT ![processes[st]] = Signalled(@)]
                        EXCEPT ![s] = IF ok THEN "live" ELSE "failed"]
    BY <1>4 DEF RestartIngestion, SpawnFFmpeg
  <2>5. \A r \in Sessions : r # s /\ task'[r] # "idle" => task[r] # "idle"
    BY <2>2 DEF Signalled
  <2>3. config'[s] = configs[st] /\ attempts'[s] = 0
    BY <2>2
  <2>4. \A r \in Sessions : r # s => config'[r] = config[r] /\ attempts'[r] = attempts[r]
    BY <2>2
  <2> QED
    BY <2>1, <2>3, <2>4, <2>5
<1>5. CASE Shutdown
  BY <1>5 DEF Shutdown, Signalled, captured
<1>6. ASSUME NEW s \in Sessions, NEW code \in ExitCode, ProcessClose(s, code)
      PROVE RetryBudget'
  <2>1. task[s] # "idle"
    BY <1>6 DEF ProcessClose, ClosesWith
  <2>2. \A r \in Sessions : r # s => task'[r] = task[r] /\ attempts'[r] = attempts[r]
    BY <1>6 DEF ProcessClose, ScheduleReconnect
  <2>3. CASE Registered(s) /\ code = "nonzero" /\ ~OverLimit(s, CountAttempt(attempts[s]))
    <3>1. attempts'[s] = CountAttempt(attempts[s]) /\ UNCHANGED config
      BY <1>6, <2>3 DEF ProcessClose, ScheduleReconnect, captured
    <3>2. limitOf(s) \in Nat /\ attempts[s] \in Nat /\ AttemptBound \in Nat
      <4>1. config[s] \in Configs
        BY <2>1
      <4> QED
        BY <4>1
    <3>3. CountAttempt(attempts[s]) \in Nat
      BY <3>2 DEF CountAttempt
    <3>4. limitOf(s) > 0 => CountAttempt(attempts[s]) <= limitOf(s)
      BY <2>3, <3>2, <3>3 DEF OverLimit
    <3> QED
      BY <2>1, <2>2, <3>1, <3>4
  <2>4. CASE ~(Registered(s) /\ code = "nonzero" /\ ~OverLimit(s, CountAttempt(attempts[s])))
    <3>1. task'[s] = "idle" /\ UNCHANGED config
      BY <1>6, <2>4 DEF ProcessClose, ScheduleReconnect, captured
    <3> QED
      BY <2>2, <3>1
  <2> QED
    BY <2>3, <2>4
<1>7. ASSUME NEW s \in Sessions, NEW ok \in BOOLEAN, ReconnectTimer(s, ok)
      PROVE RetryBudget'
  BY <1>7 DEF ReconnectTimer, SpawnFFmpeg, captured
<1>8. ASSUME NEW s \in Sessions, KillTimer(s) PROVE RetryBudget'
  BY <1>8 DEF KillTimer, maps, captured
<1>9. CASE UNCHANGED vars
  BY <1>9 DEF vars
<1> QED
  BY <1>1, <1>2, <1>3, <1>4, <1>5, <1>6, <1>7, <1>8, <1>9
     DEF Next, Operation, Callback

\* scheduleReconnect never lets a session with a limit be tried more often
\* than its config allows, whatever other sessions of the stream do.
THEOREM RetriesWithinBudget == Spec => []RetryBudget
<1>1. Init => RetryBudget
  BY DEF Init, RetryBudget
<1> QED
  BY <1>1, BudgetStep, MapsInvariant, PTL DEF Spec

-----------------------------------------------------------------------------
LEMMA ArmedStep == MapsInv /\ ReconnectingIsArmed /\ [Next]_vars => ReconnectingIsArmed'
<1> SUFFICES ASSUME MapsInv, ReconnectingIsArmed, [Next]_vars PROVE ReconnectingIsArmed'
  OBVIOUS
<1> USE NoneAssumption DEF MapsInv, MapsAgree, CallbacksKnow, TypeOK, ReconnectingIsArmed
<1>1. CASE CheckFFmpegAvailability
  BY <1>1 DEF CheckFFmpegAvailability, maps, captured
<1>2. ASSUME NEW st \in Streams, NEW c \in Configs, NEW ok \in BOOLEAN,
             StartIngestion(st, c, ok)
      PROVE ReconnectingIsArmed'
  BY <1>2 DEF StartIngestion, SpawnFFmpeg, Discarded
<1>3. ASSUME NEW st \in Streams, StopIngestion(st) PROVE ReconnectingIsArmed'
  BY <1>3 DEF StopIngestion, Signalled, captured
<1>4. ASSUME NEW st \in Streams, NEW ok \in BOOLEAN, RestartIngestion(st, ok)
      PROVE ReconnectingIsArmed'
  BY <1>4 DEF RestartIngestion, SpawnFFmpeg, Signalled, Discarded
<1>5. CASE Shutdown
  BY <1>5 DEF Shutdown, Signalled, captured
<1>6. ASSUME NEW s \in Sessions, NEW code \in ExitCode, ProcessClose(s, code)
      PROVE ReconnectingIsArmed'
  BY <1>6 DEF ProcessClose, ScheduleReconnect, Registered, ClosesWith, captured
<1>7. ASSUME NEW s \in Sessions, NEW ok \in BOOLEAN, ReconnectTimer(s, ok)
      PROVE ReconnectingIsArmed'
  BY <1>7 DEF ReconnectTimer, SpawnFFmpeg, Registered, captured
<1>8. ASSUME NEW s \in Sessions, KillTimer(s) PROVE ReconnectingIsArmed'
  BY <1>8 DEF KillTimer, maps, captured
<1>9. CASE UNCHANGED vars
  BY <1>9 DEF vars
<1> QED
  BY <1>1, <1>2, <1>3, <1>4, <1>5, <1>6, <1>7, <1>8, <1>9
     DEF Next, Operation, Callback

\* Whenever getStatus reports RECONNECTING for a stream that still has an entry
\* in `processes`, the timer that will reconnect it is armed.
THEOREM ReconnectingAlwaysArmed == Spec => []ReconnectingIsArmed
<1>1. Init => ReconnectingIsArmed
  BY DEF Init, ReconnectingIsArmed
<1> QED
  BY <1>1, ArmedStep, MapsInvariant, PTL DEF Spec

-----------------------------------------------------------------------------
LEMMA RegisterStep ==
  MapsInv /\ [Next]_vars =>
    [\A st \in Streams :
       processes[st] = None /\ processes'[st] # None =>
         /\ up
         /\ states'[st] = processes'[st]
         /\ attempts'[processes'[st]] = 0
         /\ task[processes'[st]] = "idle"]_vars
<1> SUFFICES ASSUME MapsInv, Next, NEW st \in Streams,
                    processes[st] = None, processes'[st] # None
             PROVE  /\ up
                    /\ states'[st] = processes'[st]
                    /\ attempts'[processes'[st]] = 0
                    /\ task[processes'[st]] = "idle"
  OBVIOUS
<1> USE NoneAssumption DEF MapsInv, MapsAgree, CallbacksKnow, TypeOK
<1>1. CASE CheckFFmpegAvailability
  BY <1>1 DEF CheckFFmpegAvailability, maps
<1>2. ASSUME NEW u \in Streams, NEW c \in Configs, NEW ok \in BOOLEAN,
             StartIngestion(u, c, ok)
      PROVE up /\ states'[st] = processes'[st] /\ attempts'[processes'[st]] = 0
              /\ task[processes'[st]] = "idle"
  BY <1>2 DEF StartIngestion, SpawnFFmpeg, Discarded
<1>3. ASSUME NEW u \in Streams, StopIngestion(u) PROVE FALSE
  BY <1>3 DEF StopIngestion
<1>4. ASSUME NEW u \in Streams, NEW ok \in BOOLEAN, RestartIngestion(u, ok)
      PROVE FALSE
  BY <1>4 DEF RestartIngestion, SpawnFFmpeg
<1>5. CASE Shutdown
  BY <1>5 DEF Shutdown
<1>6. ASSUME NEW s \in Sessions, NEW code \in ExitCode, ProcessClose(s, code)
      PROVE FALSE
  BY <1>6 DEF ProcessClose, ScheduleReconnect, ClosesWith
<1>7. ASSUME NEW s \in Sessions, NEW ok \in BOOLEAN, ReconnectTimer(s, ok)
      PROVE FALSE
  BY <1>7 DEF ReconnectTimer, SpawnFFmpeg, Registered
<1>8. ASSUME NEW s \in Sessions, KillTimer(s) PROVE FALSE
  BY <1>8 DEF KillTimer, maps
<1> QED
  BY <1>1, <1>2, <1>3, <1>4, <1>5, <1>6, <1>7, <1>8
     DEF Next, Operation, Callback

\* Late callbacks of stopped sessions never put an unregistered stream back on
\* air, and nothing does after shutdown.
THEOREM OnlyAStartRegisters == Spec => OnlyStartRegisters
BY RegisterStep, MapsInvariant, PTL DEF Spec, OnlyStartRegisters

-----------------------------------------------------------------------------
(* Serial use.                                                               *)

SerialIInv == MapsInv /\ RetryBudget /\ SerialInv

LEMMA SerialIsUse == [SerialNext]_vars => [Next]_vars
BY DEF SerialNext, Next, Operation

\* A start that the conflict test lets through finds nothing that calls back.
LEMMA SettledStart ==
  ASSUME TypeOK, NEW st \in Streams, Settled(st), Startable(st)
  PROVE  Quiet(st)
BY NoneAssumption DEF Settled, Startable, Quiet, TypeOK

LEMMA SerialStep == MapsInv /\ SerialInv /\ [SerialNext]_vars => SerialInv'
<1> SUFFICES ASSUME MapsInv, SerialInv, [SerialNext]_vars PROVE SerialInv'
  OBVIOUS
<1>m. MapsInv'
  BY MapsStep, SerialIsUse
<1> USE NoneAssumption, <1>m
    DEF MapsInv, MapsAgree, CallbacksKnow, TypeOK, SerialInv, OneOwner, OwnEntry,
        CurrentEntry, NoWedge, Startable
<1>1. CASE CheckFFmpegAvailability
  BY <1>1 DEF CheckFFmpegAvailability, maps, captured
<1>2. ASSUME NEW st \in Streams, NEW c \in Configs, NEW ok \in BOOLEAN,
             Settled(st), StartIngestion(st, c, ok)
      PROVE SerialInv'
  <2>1. Quiet(st)
    BY <1>2, SettledStart DEF StartIngestion
  <2> QED
    BY <1>2, <2>1 DEF Quiet, StartIngestion, SpawnFFmpeg, Discarded
<1>3. ASSUME NEW st \in Streams, StopIngestion(st) PROVE SerialInv'
  BY <1>3 DEF StopIngestion, Signalled, captured
<1>4. ASSUME NEW st \in Streams, NEW ok \in BOOLEAN, Quiet(st), RestartIngestion(st, ok)
      PROVE SerialInv'
  BY <1>4 DEF Quiet, RestartIngestion, SpawnFFmpeg, Signalled, Discarded
<1>5. CASE Shutdown
  BY <1>5 DEF Shutdown, Signalled, captured
<1>6. ASSUME NEW s \in Sessions, NEW code \in ExitCode, ProcessClose(s, code)
      PROVE SerialInv'
  BY <1>6 DEF ProcessClose, ScheduleReconnect, Registered, ClosesWith, captured
<1>7. ASSUME NEW s \in Sessions, NEW ok \in BOOLEAN, ReconnectTimer(s, ok)
      PROVE SerialInv'
  BY <1>7 DEF ReconnectTimer, SpawnFFmpeg, Registered, captured
<1>8. ASSUME NEW s \in Sessions, KillTimer(s) PROVE SerialInv'
  BY <1>8 DEF KillTimer, maps, captured
<1>9. CASE UNCHANGED vars
  BY <1>9 DEF vars
<1> QED
  BY <1>1, <1>2, <1>3, <1>4, <1>5, <1>6, <1>7, <1>8, <1>9
     DEF SerialNext, Callback

LEMMA SerialInit == Init => SerialIInv
BY TypeInit
   DEF Init, SerialIInv, MapsInv, MapsAgree, CallbacksKnow, RetryBudget, SerialInv,
       OneOwner, OwnEntry, CurrentEntry, NoWedge, Startable

LEMMA SerialKept == SerialIInv /\ [SerialNext]_vars => SerialIInv'
BY MapsStep, BudgetStep, SerialStep, SerialIsUse DEF SerialIInv

LEMMA SerialInvariant == SerialSpec => []SerialIInv
BY SerialInit, SerialKept, PTL DEF SerialSpec

\* Used serially, a stream never has two ffmpeg processes, or an ffmpeg and a
\* reconnect timer, at the same time.
THEOREM AtMostOneOwner == SerialSpec => []OneOwner
BY SerialInvariant, PTL DEF SerialIInv, SerialInv

\* Used serially, every publishing ffmpeg is the one the maps of the service
\* name, so getStatus shows it and stopIngestion reaches it.
THEOREM LiveAlwaysTracked == SerialSpec => []LiveIsTracked
<1>1. SerialIInv => LiveIsTracked
  BY NoneAssumption
     DEF SerialIInv, SerialInv, OwnEntry, CurrentEntry, LiveIsTracked, MapsInv,
         CallbacksKnow, TypeOK
<1> QED
  BY <1>1, SerialInvariant, PTL

\* Used serially, no stream is refused both by startIngestion and by
\* stopIngestion.
THEOREM NeverWedged == SerialSpec => []NoWedge
BY SerialInvariant, PTL DEF SerialIInv, SerialInv

\* Used serially, the 'close' of a process that was told to die schedules no
\* reconnection.
THEOREM KilledStaysDown == SerialSpec => KilledNeverReconnects
<1>1. SerialIInv /\ [SerialNext]_vars =>
        [\A s \in Sessions : task[s] \in {"dying", "killed"} => task'[s] # "timer"]_vars
  <2> SUFFICES ASSUME SerialIInv, SerialNext, NEW s \in Sessions,
                      task[s] \in {"dying", "killed"}, task'[s] = "timer"
               PROVE  FALSE
    OBVIOUS
  <2> USE DEF SerialIInv, SerialInv, OwnEntry, MapsInv, TypeOK
  <2>1. CASE CheckFFmpegAvailability
    BY <2>1 DEF CheckFFmpegAvailability
  <2>2. ASSUME NEW st \in Streams, NEW c \in Configs, NEW ok \in BOOLEAN,
               StartIngestion(st, c, ok)
        PROVE FALSE
    BY <2>2 DEF StartIngestion, SpawnFFmpeg
  <2>3. ASSUME NEW st \in Streams, StopIngestion(st) PROVE FALSE
    BY <2>3 DEF StopIngestion, Signalled
  <2>4. ASSUME NEW st \in Streams, NEW ok \in BOOLEAN, RestartIngestion(st, ok)
        PROVE FALSE
    BY <2>4 DEF RestartIngestion, SpawnFFmpeg, Signalled
  <2>5. CASE Shutdown
    BY <2>5 DEF Shutdown, Signalled
  <2>6. ASSUME NEW r \in Sessions, NEW code \in ExitCode, ProcessClose(r, code)
        PROVE FALSE
    BY <2>6 DEF ProcessClose, ScheduleReconnect, Registered, ClosesWith
  <2>7. ASSUME NEW r \in Sessions, NEW ok \in BOOLEAN, ReconnectTimer(r, ok)
        PROVE FALSE
    BY <2>7 DEF ReconnectTimer, SpawnFFmpeg
  <2>8. ASSUME NEW r \in Sessions, KillTimer(r) PROVE FALSE
    BY <2>8 DEF KillTimer
  <2> QED
    BY <2>1, <2>2, <2>3, <2>4, <2>5, <2>6, <2>7, <2>8 DEF SerialNext, Callback
<1> QED
  BY <1>1, SerialInvariant, PTL DEF SerialSpec, KilledNeverReconnects

-----------------------------------------------------------------------------
(* The refinement.  Each step of the service changes the view of at most one *)
(* stream, except Shutdown; a step of the abstract supervisor is determined  *)
(* by the values its four variables get, stream by stream.                   *)
sourceOf(st) == {s \in Sessions : stream[s] = st /\ task[s] = "live"}
budgetOf(st) == IF processes[st] = None THEN 0 ELSE limitOf(processes[st])
retriesOf(st) == IF processes[st] = None THEN 0 ELSE attempts[processes[st]]

Becomes(st, v, src, b, r) ==
  viewOf(st)' = v /\ sourceOf(st)' = src /\ budgetOf(st)' = b /\ retriesOf(st)' = r

Stays(st) == Becomes(st, viewOf(st), sourceOf(st), budgetOf(st), retriesOf(st))

LEMMA RefineInit == Init => Supervisor!Init
BY NoneAssumption DEF Init, Supervisor!Init, viewOf

LEMMA SetStep ==
  ASSUME NEW st \in Streams, NEW v, NEW src, NEW b, NEW r,
         Becomes(st, v, src, b, r),
         \A u \in Streams : u # st => Stays(u)
  PROVE  Supervisor!Set(st, v, src, b, r)
<1>1. [u \in Streams |-> viewOf(u)]' = [[u \in Streams |-> viewOf(u)] EXCEPT ![st] = v]
  BY DEF Becomes, Stays
<1>2. [u \in Streams |-> sourceOf(u)]' = [[u \in Streams |-> sourceOf(u)] EXCEPT ![st] = src]
  BY DEF Becomes, Stays
<1>3. [u \in Streams |-> budgetOf(u)]' = [[u \in Streams |-> budgetOf(u)] EXCEPT ![st] = b]
  BY DEF Becomes, Stays
<1>4. [u \in Streams |-> retriesOf(u)]' = [[u \in Streams |-> retriesOf(u)] EXCEPT ![st] = r]
  BY DEF Becomes, Stays
<1> QED
  BY <1>1, <1>2, <1>3, <1>4 DEF Supervisor!Set, sourceOf, budgetOf, retriesOf

LEMMA OffStep ==
  ASSUME NEW S \in SUBSET Streams,
         \A u \in S : Becomes(u, "off", {}, 0, 0),
         \A u \in Streams : u \notin S => Stays(u)
  PROVE  Supervisor!Off(S)
BY DEF Supervisor!Off, Becomes, Stays, sourceOf, budgetOf, retriesOf, limitOf

LEMMA SameStep ==
  ASSUME \A u \in Streams : Stays(u)
  PROVE  UNCHANGED Supervisor!vars
BY DEF Supervisor!vars, Becomes, Stays, sourceOf, budgetOf, retriesOf, limitOf

\* A step that touches only session s and the entry of its stream st leaves
\* the view of every other stream alone.
LEMMA OthersStay ==
  ASSUME TypeOK, NEW st \in Streams, NEW s \in Sessions,
         \A u \in Streams : processes[u] = s => u = st,
         task[s] = "live" => stream[s] = st,
         task'[s] = "live" => stream'[s] = st,
         \A u \in Streams : u # st => processes'[u] = processes[u],
         \A t \in Sessions : t # s =>
           /\ stream'[t] = stream[t] /\ config'[t] = config[t]
           /\ attempts'[t] = attempts[t] /\ task'[t] = task[t],
         NEW u \in Streams, u # st
  PROVE  Stays(u)
<1>1. processes'[u] = processes[u] /\ processes[u] # s
  OBVIOUS
<1>2. processes[u] # None =>
        /\ task'[processes[u]] = task[processes[u]]
        /\ config'[processes[u]] = config[processes[u]]
        /\ attempts'[processes[u]] = attempts[processes[u]]
  BY <1>1 DEF TypeOK
<1>3. sourceOf(u)' = sourceOf(u)
  BY DEF sourceOf
<1> QED
  BY <1>1, <1>2, <1>3 DEF Stays, Becomes, viewOf, budgetOf, retriesOf, limitOf

LEMMA RefineStart ==
  ASSUME SerialIInv, NEW st \in Streams, NEW c \in Configs, NEW ok \in BOOLEAN,
         Settled(st), StartIngestion(st, c, ok)
  PROVE  [Supervisor!Next]_Supervisor!vars
<1> USE NoneAssumption DEF SerialIInv, MapsInv, TypeOK
<1>1. PICK s \in Sessions :
        /\ Discarded(s)
        /\ stream' = [stream EXCEPT ![s] = st]
        /\ config' = [config EXCEPT ![s] = c]
        /\ attempts' = [attempts EXCEPT ![s] = 0]
        /\ SpawnFFmpeg(s, st, ok, status, task)
  BY DEF StartIngestion
<1>q. Quiet(st)
  BY SettledStart DEF StartIngestion
<1>2. processes[st] = None
  BY <1>q DEF StartIngestion, Startable, Quiet, SerialInv, CurrentEntry, MapsAgree
<1>3. \A u \in Streams : u # st => Stays(u)
  BY <1>1, OthersStay DEF Discarded, SpawnFFmpeg
<1>4. \A t \in Sessions : stream[t] = st => task[t] # "live"
  BY <1>q DEF Quiet
<1>5. CASE ok
  <2>1. Becomes(st, "publishing", {s}, MaxReconnects[c], 0)
    BY <1>1, <1>4, <1>5 DEF SpawnFFmpeg, Becomes, viewOf, sourceOf, budgetOf, retriesOf, limitOf
  <2>2. Supervisor!Begin(st)
    BY <1>2, <1>3, <2>1, SetStep DEF Supervisor!Begin, viewOf
  <2> QED
    BY <2>2 DEF Supervisor!Next
<1>6. CASE ~ok
  <2>1. Becomes(st, "off", {}, 0, 0)
    BY <1>1, <1>4, <1>6 DEF SpawnFFmpeg, Becomes, viewOf, sourceOf, budgetOf, retriesOf, limitOf
  <2>2. Supervisor!Off({st})
    BY <1>3, <2>1, OffStep
  <2> QED
    BY <2>2 DEF Supervisor!Next
<1> QED
  BY <1>5, <1>6

LEMMA RefineStop ==
  ASSUME SerialIInv, NEW st \in Streams, StopIngestion(st)
  PROVE  [Supervisor!Next]_Supervisor!vars
<1> USE NoneAssumption DEF SerialIInv, MapsInv, TypeOK
<1> DEFINE s == processes[st]
<1>1. s \in Sessions /\ processes[st] # None /\ stream[s] = st
  BY DEF StopIngestion, MapsAgree
<1>2. /\ processes' = [processes EXCEPT ![st] = None]
      /\ task' = [task EXCEPT ![s] = Signalled(@)]
      /\ UNCHANGED <<stream, config, attempts>>
  BY DEF StopIngestion, captured
<1>3. \A u \in Streams : u # st => Stays(u)
  <2>1. \A u \in Streams : processes[u] = s => u = st
    BY <1>1 DEF MapsAgree
  <2> QED
    BY <1>1, <1>2, <2>1, OthersStay DEF Signalled
<1>4. Becomes(st, "off", {}, 0, 0)
  <2>1. \A t \in Sessions : stream[t] = st /\ task[t] = "live" => t = s
    BY DEF SerialInv, OwnEntry
  <2> QED
    BY <1>1, <1>2, <2>1 DEF Signalled, Becomes, viewOf, sourceOf, budgetOf, retriesOf, limitOf
<1>5. Supervisor!Off({st})
  BY <1>3, <1>4, OffStep
<1> QED
  BY <1>5 DEF Supervisor!Next

LEMMA RefineRestart ==
  ASSUME SerialIInv, NEW st \in Streams, NEW ok \in BOOLEAN,
         Quiet(st), RestartIngestion(st, ok)
  PROVE  [Supervisor!Next]_Supervisor!vars
<1> USE NoneAssumption DEF SerialIInv, MapsInv, TypeOK
<1>0. processes[st] \in Sessions /\ task[processes[st]] = "idle" /\ configs[st] \in Configs
  BY DEF RestartIngestion, Quiet, MapsAgree
<1>1. PICK s \in Sessions :
        /\ Discarded(s)
        /\ stream' = [stream EXCEPT ![s] = st]
        /\ config' = [config EXCEPT ![s] = configs[st]]
        /\ attempts' = [attempts EXCEPT ![s] = 0]
        /\ processes' = [processes EXCEPT ![st] = IF ok THEN s ELSE None]
        /\ task' = [task EXCEPT ![s] = IF ok THEN "live" ELSE "failed"]
  <2>1. [task EXCEPT ![processes[st]] = Signalled(@)] = task
    BY <1>0 DEF Signalled
  <2> QED
    BY <2>1 DEF RestartIngestion, SpawnFFmpeg
<1>2. viewOf(st) = "ended"
  BY <1>0 DEF viewOf
<1>3. \A u \in Streams : u # st => Stays(u)
  BY <1>1, OthersStay DEF Discarded
<1>4. \A t \in Sessions : stream[t] = st => task[t] # "live"
  BY DEF Quiet
<1>5. CASE ok
  <2>1. Becomes(st, "publishing", {s}, MaxReconnects[configs[st]], 0)
    BY <1>0, <1>1, <1>4, <1>5 DEF Becomes, viewOf, sourceOf, budgetOf, retriesOf, limitOf
  <2>2. Supervisor!Begin(st)
    BY <1>0, <1>2, <1>3, <2>1, SetStep DEF Supervisor!Begin
  <2> QED
    BY <2>2 DEF Supervisor!Next
<1>6. CASE ~ok
  <2>1. Becomes(st, "off", {}, 0, 0)
    BY <1>1, <1>4, <1>6 DEF Becomes, viewOf, sourceOf, budgetOf, retriesOf, limitOf
  <2>2. Supervisor!Off({st})
    BY <1>3, <2>1, OffStep
  <2> QED
    BY <2>2 DEF Supervisor!Next
<1> QED
  BY <1>5, <1>6

LEMMA RefineShutdown ==
  ASSUME SerialIInv, Shutdown
  PROVE  [Supervisor!Next]_Supervisor!vars
<1> USE NoneAssumption DEF SerialIInv, MapsInv, TypeOK
<1>1. \A t \in Sessions : task'[t] # "live"
  BY DEF Shutdown, Signalled, SerialInv, OwnEntry, CallbacksKnow
<1>2. \A u \in Streams : Becomes(u, "off", {}, 0, 0)
  BY <1>1 DEF Shutdown, Becomes, viewOf, sourceOf, budgetOf, retriesOf, limitOf
<1>3. Supervisor!Off(Streams)
  BY <1>2, OffStep
<1> QED
  BY <1>3 DEF Supervisor!Next

LEMMA RefineIdle ==
  ASSUME TypeOK, NEW s \in Sessions, task[s] # "live", task'[s] # "live",
         \A u \in Streams : processes[u] # s,
         task' = [task EXCEPT ![s] = task'[s]],
         UNCHANGED <<processes, stream, config, attempts>>
  PROVE  [Supervisor!Next]_Supervisor!vars
<1>1. \A t \in Sessions : t # s => task'[t] = task[t]
  BY DEF TypeOK
<1>2. \A u \in Streams : sourceOf(u)' = sourceOf(u)
  BY <1>1 DEF sourceOf
<1>3. \A u \in Streams : processes[u] # None => task'[processes[u]] = task[processes[u]]
  BY <1>1 DEF TypeOK
<1>4. \A u \in Streams : Stays(u)
  BY <1>2, <1>3 DEF Stays, Becomes, viewOf, budgetOf, retriesOf, limitOf
<1> QED
  BY <1>4, SameStep

LEMMA RefineClose ==
  ASSUME SerialIInv, NEW s \in Sessions, NEW code \in ExitCode, ProcessClose(s, code)
  PROVE  [Supervisor!Next]_Supervisor!vars
<1> USE NoneAssumption DEF SerialIInv, MapsInv, TypeOK
<1>0. task[s] \in {"live", "failed", "dying", "killed"} /\ stream[s] \in Streams
  BY DEF ProcessClose, ClosesWith, CallbacksKnow
<1> PICK st \in Streams : st = stream[s]
  BY <1>0
<1>1. task[s] \in {"live", "failed", "dying", "killed"} /\ st = stream[s]
  BY <1>0
<1>2. \A u \in Streams : processes[u] = s => u = st
  BY DEF MapsAgree
<1>3. CASE ~Registered(s)
  <2>1. \A u \in Streams : processes[u] # s
    BY <1>1, <1>2, <1>3 DEF Registered
  <2>2. /\ task' = [task EXCEPT ![s] = "idle"]
        /\ UNCHANGED <<processes, stream, config, attempts>>
    BY <1>3 DEF ProcessClose, captured
  <2>3. task[s] # "live"
    BY <2>1, <1>1 DEF SerialInv, OwnEntry
  <2> QED
    BY <2>1, <2>2, <2>3, RefineIdle
<1>4. CASE Registered(s)
  <2>1. processes[st] = s /\ task[s] = "live"
    BY <1>1, <1>4 DEF Registered, SerialInv, OwnEntry
  <2>2. \A t \in Sessions : stream[t] = st /\ task[t] = "live" => t = s
    BY <2>1 DEF SerialInv, OwnEntry
  <2>3. /\ UNCHANGED <<stream, config>>
        /\ \A t \in Sessions : t # s => task'[t] = task[t] /\ attempts'[t] = attempts[t]
        /\ \A u \in Streams : u # st => processes'[u] = processes[u]
        /\ task'[s] # "live"
    BY <1>1 DEF ProcessClose, ScheduleReconnect, captured
  <2>4. \A u \in Streams : u # st => Stays(u)
    BY <1>1, <1>2, <2>3, OthersStay
  <2>5. sourceOf(st)' = {}
    BY <2>2, <2>3 DEF sourceOf
  <2> PICK b, r : b = limitOf(s) /\ r = attempts[s]
    OBVIOUS
  <2>6. viewOf(st) = "publishing" /\ budgetOf(st) = b /\ retriesOf(st) = r
    BY <2>1 DEF viewOf, budgetOf, retriesOf, limitOf
  <2> PICK n : n = CountAttempt(attempts[s])
    OBVIOUS
  <2>7. CASE code # "nonzero"
    <3>1. Becomes(st, "ended", {}, b, r)
      BY <1>1, <2>1, <2>5, <2>7
         DEF ProcessClose, captured, Becomes, viewOf, budgetOf, retriesOf, limitOf
    <3>2. Supervisor!Set(st, "ended", {}, b, r)
      BY <2>4, <3>1, SetStep
    <3>3. Supervisor!End(st)
      BY <2>6, <3>2 DEF Supervisor!End, Supervisor!Set, budgetOf, retriesOf, limitOf
    <3> QED
      BY <3>3 DEF Supervisor!Next
  <2>8. CASE code = "nonzero" /\ OverLimit(s, n)
    <3>1. Becomes(st, "off", {}, 0, 0)
      BY <1>1, <1>4, <2>5, <2>8
         DEF ProcessClose, ScheduleReconnect, Becomes, viewOf, budgetOf, retriesOf, limitOf
    <3>2. Supervisor!Off({st})
      BY <1>1, <2>4, <3>1, OffStep
    <3> QED
      BY <3>2 DEF Supervisor!Next
  <2>9. CASE code = "nonzero" /\ ~OverLimit(s, n)
    <3>1. Becomes(st, "waiting", {}, b, n)
      BY <1>1, <1>4, <2>1, <2>5, <2>9
         DEF ProcessClose, ScheduleReconnect, captured, Becomes, viewOf, budgetOf, retriesOf, limitOf
    <3>2. Supervisor!Set(st, "waiting", {}, b, n)
      BY <2>4, <3>1, SetStep
    <3>3. /\ attempts[s] \in Nat /\ limitOf(s) \in Nat /\ AttemptBound \in Nat
          /\ limitOf(s) < AttemptBound
      BY <1>1, LimitAssumption DEF CallbacksKnow, limitOf
    <3>4. CASE attempts[s] < AttemptBound
      <4>1. n = attempts[s] + 1
        BY <3>4 DEF CountAttempt
      <4>2. limitOf(s) = 0 \/ attempts[s] < limitOf(s)
        BY <2>9, <3>3, <4>1 DEF OverLimit, limitOf
      <4>3. Supervisor!Fail(st)
        BY <2>6, <3>2, <3>4, <4>1, <4>2
           DEF Supervisor!Fail, Supervisor!Set, budgetOf, retriesOf, limitOf
      <4> QED
        BY <1>1, <4>3 DEF Supervisor!Next
    <3>5. CASE ~(attempts[s] < AttemptBound)
      <4>1. limitOf(s) = 0
        BY <1>1, <3>3, <3>5 DEF RetryBudget, limitOf
      <4>2. Supervisor!FailUncounted(st)
        <5>1. n = r /\ b = 0
          BY <3>5, <4>1 DEF CountAttempt
        <5>2. r >= AttemptBound
          BY <3>3, <3>5
        <5> QED
          BY <2>6, <3>2, <5>1, <5>2
             DEF Supervisor!FailUncounted, Supervisor!Set, budgetOf, retriesOf, limitOf
      <4> QED
        BY <1>1, <4>2 DEF Supervisor!Next
    <3> QED
      BY <3>4, <3>5
  <2> QED
    BY <2>7, <2>8, <2>9
<1> QED
  BY <1>3, <1>4

LEMMA RefineTimer ==
  ASSUME SerialIInv, NEW s \in Sessions, NEW ok \in BOOLEAN, ReconnectTimer(s, ok)
  PROVE  [Supervisor!Next]_Supervisor!vars
<1> USE NoneAssumption DEF SerialIInv, MapsInv, TypeOK
<1>0. task[s] = "timer" /\ stream[s] \in Streams
  BY DEF ReconnectTimer, CallbacksKnow
<1> PICK st \in Streams : st = stream[s]
  BY <1>0
<1>1. task[s] = "timer" /\ st = stream[s]
  BY <1>0
<1>2. \A u \in Streams : processes[u] = s => u = st
  BY DEF MapsAgree
<1>3. CASE ~Registered(s)
  <2>1. \A u \in Streams : processes[u] # s
    BY <1>1, <1>2, <1>3 DEF Registered
  <2>2. /\ task' = [task EXCEPT ![s] = "idle"]
        /\ UNCHANGED <<processes, stream, config, attempts>>
    BY <1>3 DEF ReconnectTimer, captured
  <2> QED
    BY <1>1, <2>1, <2>2, RefineIdle
<1>4. CASE Registered(s)
  <2>1. processes[st] = s
    BY <1>1, <1>4 DEF Registered, SerialInv, OwnEntry
  <2>2. \A t \in Sessions : stream[t] = st => task[t] # "live"
    BY <1>1, <2>1 DEF SerialInv, OwnEntry
  <2>3. /\ UNCHANGED <<stream, config, attempts>>
        /\ processes' = [processes EXCEPT ![st] = IF ok THEN s ELSE None]
        /\ task' = [task EXCEPT ![s] = IF ok THEN "live" ELSE "failed"]
    BY <1>4 DEF ReconnectTimer, SpawnFFmpeg, captured
  <2>4. \A u \in Streams : u # st => Stays(u)
    BY <1>1, <1>2, <2>3, OthersStay
  <2>5. CASE ok
    <3> PICK b, r : b = limitOf(s) /\ r = attempts[s]
      OBVIOUS
    <3>1. Becomes(st, "publishing", {s}, b, r)
      BY <1>1, <2>1, <2>2, <2>3, <2>5 DEF Becomes, viewOf, sourceOf, budgetOf, retriesOf, limitOf
    <3>2. viewOf(st) = "waiting" /\ budgetOf(st) = b /\ retriesOf(st) = r
      BY <1>1, <2>1 DEF viewOf, budgetOf, retriesOf, limitOf
    <3>4. Supervisor!Set(st, "publishing", {s}, b, r)
      BY <2>4, <3>1, SetStep
    <3>3. Supervisor!Retry(st)
      BY <3>2, <3>4 DEF Supervisor!Retry, Supervisor!Set, budgetOf, retriesOf, limitOf
    <3> QED
      BY <1>1, <3>3 DEF Supervisor!Next
  <2>6. CASE ~ok
    <3>1. Becomes(st, "off", {}, 0, 0)
      BY <1>1, <2>2, <2>3, <2>6 DEF Becomes, viewOf, sourceOf, budgetOf, retriesOf, limitOf
    <3>2. Supervisor!Off({st})
      BY <1>1, <2>4, <3>1, OffStep
    <3> QED
      BY <3>2 DEF Supervisor!Next
  <2> QED
    BY <2>5, <2>6
<1> QED
  BY <1>3, <1>4

LEMMA RefineStep ==
  SerialIInv /\ [SerialNext]_vars => [Supervisor!Next]_Supervisor!vars
<1> SUFFICES ASSUME SerialIInv, [SerialNext]_vars PROVE [Supervisor!Next]_Supervisor!vars
  OBVIOUS
<1>1. CASE CheckFFmpegAvailability
  <2>1. \A u \in Streams : Stays(u)
    BY <1>1 DEF CheckFFmpegAvailability, maps, captured, Stays, Becomes, viewOf, sourceOf,
                budgetOf, retriesOf, limitOf
  <2> QED
    BY <2>1, SameStep
<1>2. ASSUME NEW s \in Sessions, KillTimer(s) PROVE [Supervisor!Next]_Supervisor!vars
  <2>1. \A u \in Streams : processes[u] # s
    BY <1>2, NoneAssumption
       DEF KillTimer, SerialIInv, SerialInv, OwnEntry, MapsInv, MapsAgree, TypeOK
  <2> QED
    BY <1>2, <2>1, RefineIdle DEF KillTimer, maps, captured, SerialIInv, MapsInv, TypeOK
<1>3. CASE UNCHANGED vars
  <2>1. \A u \in Streams : Stays(u)
    BY <1>3 DEF vars, Stays, Becomes, viewOf, sourceOf, budgetOf, retriesOf, limitOf
  <2> QED
    BY <2>1, SameStep
<1> QED
  BY <1>1, <1>2, <1>3, RefineStart, RefineStop, RefineRestart, RefineShutdown,
     RefineClose, RefineTimer
     DEF SerialNext, Callback

\* Used serially, the ingestion service implements the abstract supervisor.
THEOREM SerialImplementsSupervisor == SerialSpec => ImplementsSupervisor
BY RefineInit, RefineStep, SerialInvariant, PTL
   DEF SerialSpec, ImplementsSupervisor, Supervisor!Spec


LEMMA Busy ==
  ASSUME ServiceTypeOK, NEW r \in Requests, req[r].pc # "idle"
  PROVE  /\ req[r].st \in Streams
         /\ req[r].op \in Op
         /\ req[r].entity \in Row
         /\ req[r].entity.conf # None => req[r].entity.conf \in RowConfigs
BY DEF ServiceTypeOK, Request, Idle, Row

LEMMA NewRequest ==
  ASSUME ServiceTypeOK, NEW r \in Requests, NEW o \in Op, NEW st \in Streams,
         req' = [req EXCEPT ![r] = [op |-> o, st |-> st, pc |-> "find", entity |-> NoEntity]]
  PROVE  req' \in [Requests -> Request]
<1>1. NoEntity \in Row
  BY DEF NoEntity, Row, StreamStatus
<1>2. [op |-> o, st |-> st, pc |-> "find", entity |-> NoEntity] \in Request
  BY <1>1 DEF Request, Phase
<1> QED
  BY <1>2 DEF ServiceTypeOK

LEMMA AwaitType ==
  ASSUME ServiceTypeOK, NEW r \in Requests, req[r].pc # "idle",
         NEW pc \in Phase, NEW e \in Row, Await(r, pc, e)
  PROVE  req' \in [Requests -> Request]
<1>1. req[r] \in [op : Op, st : Streams, pc : Phase, entity : Row]
  BY DEF ServiceTypeOK, Request, Idle
<1>2. [req[r] EXCEPT !.pc = pc, !.entity = e] \in Request
  BY <1>1 DEF Request
<1> QED
  BY <1>2 DEF ServiceTypeOK, Await

LEMMA ReturnType ==
  ASSUME ServiceTypeOK, NEW r \in Requests, Return(r)
  PROVE  req' \in [Requests -> Request]
BY DEF ServiceTypeOK, Return, Request

LEMMA ServiceTypeStep == ServiceTypeOK /\ [ServiceNext]_allVars => ServiceTypeOK'
<1> SUFFICES ASSUME ServiceTypeOK, [ServiceNext]_allVars PROVE ServiceTypeOK'
  OBVIOUS
<1>1. ASSUME NEW r \in Requests, NEW st \in Streams, NEW o \in Op, Arrive(r, o, st)
      PROVE  ServiceTypeOK'
  BY <1>1, NewRequest DEF Arrive, ServiceTypeOK
<1>2. ASSUME NEW r \in Requests, NEW st \in Streams, Stop(r, st) PROVE ServiceTypeOK'
  <2>1. "stop" \in Op
    BY DEF Op
  <2> QED
    BY <1>2, <2>1, NewRequest DEF Stop, ServiceTypeOK
<1>3. ASSUME NEW r \in Requests, NEW ok \in BOOLEAN, Start(r, ok) PROVE ServiceTypeOK'
  <2>1. req[r].pc # "idle" /\ req[r].entity \in Row
    BY <1>3, Busy DEF Start, At
  <2>2. [req[r].entity EXCEPT !.status = "connecting"] \in Row
    BY <2>1 DEF Row, StreamStatus
  <2>3. req' \in [Requests -> Request]
    BY <1>3, <2>1, <2>2, AwaitType, ReturnType DEF Start, Phase
  <2> QED
    BY <1>3, <2>3 DEF Start, ServiceTypeOK
<1>4. ASSUME NEW r \in Requests, FindOne(r) PROVE ServiceTypeOK'
  <2>1. row[req[r].st] \in Row
    BY <1>4, Busy DEF FindOne, ServiceTypeOK
  <2>2. req' \in [Requests -> Request]
    BY <1>4, <2>1, AwaitType, ReturnType DEF FindOne, Phase
  <2> QED
    BY <1>4, <2>2 DEF FindOne, ServiceTypeOK
<1>5. ASSUME NEW r \in Requests, Save(r) PROVE ServiceTypeOK'
  BY <1>5, Busy, ReturnType DEF Save, ServiceTypeOK
<1>6. ASSUME NEW r \in Requests, Fail(r) PROVE ServiceTypeOK'
  BY <1>6, ReturnType DEF Fail, ServiceTypeOK
<1>7. ASSUME NEW r \in Requests, SoftDelete(r) PROVE ServiceTypeOK'
  <2>1. req[r].st \in Streams
    BY <1>7, Busy DEF SoftDelete
  <2>2. [row[req[r].st] EXCEPT !.deleted = TRUE] \in Row
    BY <2>1 DEF ServiceTypeOK, Row
  <2> QED
    BY <1>7, <2>1, <2>2, ReturnType DEF SoftDelete, ServiceTypeOK
<1>8. ASSUME NEW r \in Requests, NEW c \in RowConfigs \cup {None}, Update(r, c)
      PROVE  ServiceTypeOK'
  <2>1. req[r].pc # "idle" /\ req[r].entity \in Row
    BY <1>8, Busy DEF Update, At
  <2>2. [req[r].entity EXCEPT !.conf = c] \in Row
    BY <2>1 DEF Row
  <2>3. req' \in [Requests -> Request]
    BY <1>8, <2>1, <2>2, AwaitType, ReturnType DEF Update, Phase
  <2> QED
    BY <1>8, <2>3 DEF Update, ServiceTypeOK
<1>9. ASSUME NEW r \in Requests, Remove(r) PROVE ServiceTypeOK'
  <2>1. req[r].pc # "idle" /\ req[r].entity \in Row
    BY <1>9, Busy DEF Remove, At
  <2>2. req' \in [Requests -> Request]
    BY <1>9, <2>1, AwaitType, ReturnType DEF Remove, Phase
  <2> QED
    BY <1>9, <2>2 DEF Remove, ServiceTypeOK
<1>10. ASSUME NEW r \in Requests, StopFound(r) \/ AskWowza(r) \/ WowzaAnswered(r)
       PROVE  ServiceTypeOK'
  <2>1. req[r].pc # "idle" /\ req[r].entity \in Row
    BY <1>10, Busy DEF StopFound, AskWowza, WowzaAnswered, At
  <2>2. PICK v \in StreamStatus, pc \in Phase :
          Await(r, pc, [req[r].entity EXCEPT !.status = v])
    BY <1>10, <2>1 DEF StopFound, AskWowza, WowzaAnswered, Synced, StreamStatus, Phase, Row
  <2>3. [req[r].entity EXCEPT !.status = v] \in Row
    BY <2>1 DEF Row
  <2>4. req' \in [Requests -> Request]
    BY <2>1, <2>2, <2>3, AwaitType
  <2> QED
    BY <1>10, <2>4 DEF StopFound, AskWowza, WowzaAnswered, ServiceTypeOK
<1>11. ASSUME NEW st \in Streams, WowzaNotices(st) PROVE ServiceTypeOK'
  BY <1>11 DEF WowzaNotices, ServiceTypeOK
<1>12. CASE UNCHANGED serviceVars
  BY <1>12 DEF serviceVars, ServiceTypeOK
<1> QED
  BY <1>1, <1>2, <1>3, <1>4, <1>5, <1>6, <1>7, <1>8, <1>9, <1>10, <1>11, <1>12
     DEF ServiceNext, Handler, allVars, serviceVars

LEMMA ServiceInitType == ServiceInit => ServiceTypeOK
BY DEF ServiceInit, ServiceTypeOK, Request

-----------------------------------------------------------------------------
(* The service as a user of the supervisor.                                  *)

LEMMA StartUses ==
  ASSUME ServiceTypeOK, NEW r \in Requests, NEW ok \in BOOLEAN, Start(r, ok)
  PROVE  \/ UNCHANGED vars
         \/ \E st \in Streams, c \in Configs :
              st = req[r].st /\ StartIngestion(st, c, ok)
<1>1. req[r].st \in Streams
  BY Busy DEF Start, At
<1>2. req[r].entity.conf # None => req[r].entity.conf \in Configs
  BY Busy, RowConfigsAssumption DEF Start, At
<1> QED
  BY <1>1, <1>2 DEF Start

LEMMA RemoveUses ==
  ASSUME ServiceTypeOK, NEW r \in Requests, Remove(r)
  PROVE  UNCHANGED vars \/ \E st \in Streams : StopIngestion(st)
BY Busy DEF Remove, At

LEMMA HandlerUses ==
  ASSUME ServiceTypeOK, NEW r \in Requests, Handler(r)
  PROVE  UNCHANGED vars \/ \E st \in Streams : StopIngestion(st)
BY RemoveUses
   DEF Handler, FindOne, Save, Fail, SoftDelete, Update, StopFound, AskWowza, WowzaAnswered

LEMMA ServiceUsesStep == ServiceTypeOK /\ [ServiceNext]_allVars => [Next]_vars
<1> SUFFICES ASSUME ServiceTypeOK, [ServiceNext]_allVars PROVE [Next]_vars
  OBVIOUS
<1>1. ASSUME NEW r \in Requests, NEW ok \in BOOLEAN, Start(r, ok) PROVE [Next]_vars
  BY <1>1, StartUses DEF Next, Operation
<1>2. ASSUME NEW r \in Requests, Handler(r) PROVE [Next]_vars
  BY <1>2, HandlerUses DEF Next, Operation
<1>3. CASE Direct \/ Supervise
  BY <1>3 DEF Direct, Supervise, Close, Next, Operation
<1> QED
  BY <1>1, <1>2, <1>3
     DEF ServiceNext, Stop, Arrive, WowzaNotices, Next, Operation, allVars

\* However the stream service and the ingestion controller are used, the
\* supervisor goes only through steps of Ingestion: the theorems about
\* Ingestion hold of the system.
THEOREM ServiceUsesIngestion == ServiceSpec => UsesIngestion
<1>1. ServiceInit => Init /\ ServiceTypeOK
  BY ServiceInitType DEF ServiceInit
<1>2. ServiceTypeOK /\ [ServiceNext]_allVars => [Next]_vars /\ ServiceTypeOK'
  BY ServiceUsesStep, ServiceTypeStep
<1> QED
  BY <1>1, <1>2, PTL DEF ServiceSpec, UsesIngestion, Spec

\* The rows of the table, what Wowza reports and the requests in flight keep
\* their types, however the service and the controller are used.
THEOREM ServiceTypes == ServiceSpec => []ServiceTypeOK
BY ServiceInitType, ServiceTypeStep, PTL DEF ServiceSpec

LEMMA SerialServiceIsUse == [SerialServiceNext]_allVars => [ServiceNext]_allVars
BY PollersAssumption DEF SerialServiceNext, ServiceNext, OperatorAsks, Operators, Op

\* However the service and the ingestion controller are used, await by await,
\* the three maps agree, no stream is retried beyond its limit, a reconnecting
\* one has its timer, and only a start puts a stream on air.
THEOREM ServiceKeepsMaps ==
  ServiceSpec => [](MapsAgree /\ RetryBudget /\ ReconnectingIsArmed) /\ OnlyStartRegisters
BY ServiceUsesIngestion, MapsAlwaysAgree, RetriesWithinBudget, ReconnectingAlwaysArmed,
   OnlyAStartRegisters, PTL
DEF UsesIngestion

-----------------------------------------------------------------------------
(* The invariant of the serial service.                                      *)

LEMMA SuperviseKeeps ==
  ASSUME TypeOK, MapsAgree, CallbacksKnow, Supervise, NEW st \in Streams, processes'[st] # None
  PROVE  processes[st] # None /\ configs'[st] = configs[st]
<1> USE NoneAssumption DEF TypeOK, MapsAgree, CallbacksKnow
<1>1. CASE CheckFFmpegAvailability
  BY <1>1 DEF CheckFFmpegAvailability, maps
<1>2. CASE Close
  BY <1>2 DEF Close, Shutdown
<1>3. ASSUME NEW s \in Sessions, NEW code \in ExitCode, ProcessClose(s, code)
      PROVE  processes[st] # None /\ configs'[st] = configs[st]
  BY <1>3 DEF ProcessClose, ScheduleReconnect
<1>4. ASSUME NEW s \in Sessions, NEW ok \in BOOLEAN, ReconnectTimer(s, ok)
      PROVE  processes[st] # None /\ configs'[st] = configs[st]
  BY <1>4 DEF ReconnectTimer, Registered, SpawnFFmpeg
<1>5. ASSUME NEW s \in Sessions, KillTimer(s)
      PROVE  processes[st] # None /\ configs'[st] = configs[st]
  BY <1>5 DEF KillTimer, maps
<1> QED
  BY <1>1, <1>2, <1>3, <1>4, <1>5 DEF Supervise, Callback

LEMMA NotRunningIsOff ==
  ASSUME SerialIInv, NEW st \in Streams, ~IsRunning(st)
  PROVE  processes[st] = None
BY NoneAssumption
   DEF SerialIInv, SerialInv, CurrentEntry, IsRunning, MapsInv, MapsAgree, TypeOK

\* A stop clears the entry of its stream and leaves the others alone.
LEMMA StopClears ==
  ASSUME TypeOK, NEW st \in Streams, StopIngestion(st), NEW u \in Streams,
         processes'[u] # None
  PROVE  u # st /\ processes[u] # None /\ configs'[u] = configs[u]
BY DEF StopIngestion, TypeOK

ServiceIInv == SerialIInv /\ ServiceTypeOK /\ ServiceInv /\ StartsQuiet

\* The request r moves: the others keep what they hold, the table stays, and
\* no entry appears or changes but perhaps that of r's own stream.  Nothing is
\* disturbed if what r now holds and is about to write is right, and its
\* entry, if there is one, has the configuration of the row.
LEMMA OneRequestMoves ==
  ASSUME ServiceTypeOK, ServiceInv, NEW r \in Requests, req[r].pc # "idle",
         \A q \in Requests : q # r => req'[q] = req[q],
         (req'[r].st = req[r].st /\ req'[r].op = req[r].op) \/ req'[r] = Idle,
         row' = row,
         \A u \in Streams :
           processes'[u] # None =>
             \/ processes[u] # None /\ configs'[u] = configs[u]
             \/ /\ u = req[r].st /\ r \in Operators /\ req'[r].op = "start"
                /\ ~row[u].deleted /\ (Pollers = {} => configs'[u] = row[u].conf),
         req'[r].pc \in Holding =>
           /\ ~req'[r].entity.deleted
           /\ r \in Operators => ~row[req[r].st].deleted
           /\ Pollers = {} /\ req'[r].entity.conf # row[req[r].st].conf =>
                req'[r].op = "update" /\ req'[r].pc = "save",
         At(r, "update", "save")' \/ req'[r].pc = "softDelete" =>
           r \in Operators /\ processes'[req[r].st] = None
  PROVE  ServiceInv'
<1> USE DEF ServiceInv, Operators, Idle
<1>0. req[r].st \in Streams
  BY Busy
<1>1. OneRequest'
  BY DEF OneRequest
<1>2. PollersSync'
  BY PollersAssumption DEF PollersSync
<1>3. LoadedIsThere'
  BY DEF LoadedIsThere, Holding
<1>4. LoadedIsCurrent'
  BY DEF LoadedIsCurrent, Holding
<1>5. WriteOnlyStopped'
  <2> SUFFICES ASSUME NEW q \in Requests, At(q, "update", "save")' \/ req'[q].pc = "softDelete"
               PROVE  processes'[req'[q].st] = None
    BY DEF WriteOnlyStopped
  <2>1. CASE q = r
    BY <2>1 DEF At
  <2>2. CASE q # r
    <3>1. req'[q] = req[q] /\ (At(q, "update", "save") \/ req[q].pc = "softDelete")
      BY <2>2 DEF At
    <3>2. processes[req[q].st] = None /\ req[q].st \in Streams /\ q \in Operators
      BY <3>1, Busy DEF WriteOnlyStopped, PollersSync, At
    <3>3. r \in Operators => req[q].st # req[r].st
      BY <1>0, <2>2, <3>2, NoneAssumption DEF OneRequest
    <3> QED
      BY <3>1, <3>2, <3>3
  <2> QED
    BY <2>1, <2>2
<1>6. RegisteredHasRow'
  BY DEF RegisteredHasRow
<1> QED
  BY <1>1, <1>2, <1>3, <1>4, <1>5, <1>6

\* A request enters: it holds nothing yet, and no entry appears or changes.
LEMMA NewRequestMoves ==
  ASSUME ServiceTypeOK, ServiceInv, NEW r \in Requests, NEW o \in Op, NEW st \in Streams,
         r \in Operators => Alone(st),
         r \in Pollers => o = "sync",
         req' = [req EXCEPT ![r] = [op |-> o, st |-> st, pc |-> "find", entity |-> NoEntity]],
         row' = row,
         \A u \in Streams :
           processes'[u] # None => processes[u] # None /\ configs'[u] = configs[u]
  PROVE  ServiceInv'
<1> USE DEF ServiceInv, Operators, ServiceTypeOK
<1>1. OneRequest'
  BY DEF OneRequest, Alone
<1>2. PollersSync'
  BY PollersAssumption DEF PollersSync
<1>3. LoadedIsThere'
  BY DEF LoadedIsThere, Holding
<1>4. LoadedIsCurrent'
  BY DEF LoadedIsCurrent, Holding
<1>5. WriteOnlyStopped'
  BY Busy DEF WriteOnlyStopped, At
<1>6. RegisteredHasRow'
  BY DEF RegisteredHasRow
<1> QED
  BY <1>1, <1>2, <1>3, <1>4, <1>5, <1>6

LEMMA ArriveStep ==
  ASSUME ServiceIInv, NEW r \in Requests, NEW st \in Streams, NEW o \in Op,
         r \in Operators => Alone(st), r \in Pollers => o = "sync", Arrive(r, o, st)
  PROVE  ServiceInv'
BY NewRequestMoves DEF ServiceIInv, Arrive, vars, maps

LEMMA StopStep ==
  ASSUME ServiceIInv, NEW r \in Operators, NEW st \in Streams, Alone(st), Stop(r, st)
  PROVE  ServiceInv'
<1>1. \A u \in Streams : processes'[u] # None => processes[u] # None /\ configs'[u] = configs[u]
  BY StopClears DEF Stop, ServiceIInv, SerialIInv, MapsInv
<1> QED
  BY <1>1, NewRequestMoves DEF ServiceIInv, Stop, Op, Operators

LEMMA QuietMoves ==
  ASSUME ServiceIInv, NEW r \in Requests,
         FindOne(r) \/ Fail(r) \/ StopFound(r) \/ AskWowza(r) \/ WowzaAnswered(r)
  PROVE  ServiceInv'
<1> USE DEF ServiceIInv, vars, maps
<1>0. req[r].pc # "idle"
  BY DEF FindOne, Fail, StopFound, AskWowza, WowzaAnswered, At
<1>1. /\ req[r].st \in Streams /\ req[r].entity \in Row
      /\ req[r] \in [op : Op, st : Streams, pc : Phase, entity : Row]
  BY <1>0, Busy DEF ServiceTypeOK, Request, Idle
<1>p. UNCHANGED <<row, processes, configs>>
  BY DEF FindOne, Fail, StopFound, AskWowza, WowzaAnswered
<1>2. CASE Return(r)
  BY <1>0, <1>p, <1>2, OneRequestMoves DEF Return, Idle, ServiceTypeOK, Holding, At
<1>3. CASE FindOne(r) /\ ~row[req[r].st].deleted
  <2>1. /\ req'[r].entity = row[req[r].st] /\ req'[r].pc = "found"
        /\ req'[r].st = req[r].st /\ req'[r].op = req[r].op
        /\ \A q \in Requests : q # r => req'[q] = req[q]
    BY <1>1, <1>3 DEF FindOne, Await, ServiceTypeOK
  <2> QED
    BY <1>0, <1>p, <1>3, <2>1, OneRequestMoves DEF At
<1>4. CASE StopFound(r) \/ AskWowza(r) \/ WowzaAnswered(r)
  <2>1. PICK pc \in {"asked", "save"}, v \in StreamStatus :
          Await(r, pc, [req[r].entity EXCEPT !.status = v])
    BY <1>1, <1>4 DEF StopFound, AskWowza, WowzaAnswered, Synced, StreamStatus, Row
  <2>2. /\ req'[r].entity.deleted = req[r].entity.deleted
        /\ req'[r].entity.conf = req[r].entity.conf
        /\ req'[r].st = req[r].st /\ req'[r].op = req[r].op /\ req'[r].pc = pc
        /\ \A q \in Requests : q # r => req'[q] = req[q]
    BY <1>1, <2>1 DEF Await, ServiceTypeOK, Row
  <2>3. req[r].op \in {"stop", "sync"} /\ req[r].pc \in {"found", "asked"}
    BY <1>4 DEF StopFound, AskWowza, WowzaAnswered, At
  <2>4. /\ ~req[r].entity.deleted
        /\ r \in Operators => ~row[req[r].st].deleted
        /\ Pollers = {} => req[r].entity.conf = row[req[r].st].conf
    BY <2>3 DEF ServiceInv, LoadedIsThere, LoadedIsCurrent, Holding
  <2> QED
    BY <1>0, <1>p, <2>1, <2>2, <2>3, <2>4, OneRequestMoves DEF At
<1> QED
  BY <1>2, <1>3, <1>4 DEF FindOne, Fail

LEMMA UpdateMoves ==
  ASSUME ServiceIInv, NEW r \in Requests, NEW c \in RowConfigs \cup {None}, Update(r, c)
  PROVE  ServiceInv'
<1> USE DEF ServiceIInv, vars, maps
<1>1. /\ req[r].pc # "idle" /\ req[r].st \in Streams /\ req[r].entity \in Row
      /\ req[r] \in [op : Op, st : Streams, pc : Phase, entity : Row]
      /\ At(r, "update", "found")
  BY Busy DEF Update, At, ServiceTypeOK, Request, Idle
<1>p. UNCHANGED <<row, processes, configs>>
  BY DEF Update
<1>2. CASE Return(r)
  BY <1>1, <1>p, <1>2, OneRequestMoves DEF Return, Idle, ServiceTypeOK, Holding, At
<1>3. CASE Updatable(req[r].entity, req[r].st) /\ Await(r, "save", [req[r].entity EXCEPT !.conf = c])
  <2>1. processes[req[r].st] = None
    BY <1>1, <1>3, NotRunningIsOff DEF Updatable
  <2>2. ~req[r].entity.deleted /\ r \in Operators /\ ~row[req[r].st].deleted
    BY <1>1 DEF ServiceInv, LoadedIsThere, PollersSync, Operators, Holding, At
  <2>3. /\ req'[r].entity.deleted = req[r].entity.deleted
        /\ req'[r].st = req[r].st /\ req'[r].op = req[r].op /\ req'[r].pc = "save"
        /\ \A q \in Requests : q # r => req'[q] = req[q]
    BY <1>1, <1>3 DEF Await, ServiceTypeOK, Row
  <2> QED
    BY <1>1, <1>p, <2>1, <2>2, <2>3, OneRequestMoves DEF At
<1> QED
  BY <1>2, <1>3 DEF Update

LEMMA RemoveMoves ==
  ASSUME ServiceIInv, NEW r \in Requests, Remove(r)
  PROVE  ServiceInv'
<1> USE DEF ServiceIInv
<1>1. /\ req[r].pc # "idle" /\ req[r].st \in Streams /\ req[r].entity \in Row
      /\ req[r] \in [op : Op, st : Streams, pc : Phase, entity : Row]
      /\ At(r, "remove", "found")
  BY Busy DEF Remove, At, ServiceTypeOK, Request, Idle
<1>p. /\ row' = row
      /\ \A u \in Streams : processes'[u] # None =>
           processes[u] # None /\ configs'[u] = configs[u]
  BY <1>1, StopClears DEF Remove, SerialIInv, MapsInv, vars, maps
<1>2. CASE Return(r)
  BY <1>1, <1>p, <1>2, OneRequestMoves DEF Return, Idle, ServiceTypeOK, Holding, At
<1>3. CASE Await(r, "softDelete", req[r].entity)
  <2>1. /\ req'[r].entity = req[r].entity
        /\ req'[r].st = req[r].st /\ req'[r].op = req[r].op /\ req'[r].pc = "softDelete"
        /\ \A q \in Requests : q # r => req'[q] = req[q]
    BY <1>1, <1>3 DEF Await, ServiceTypeOK
  <2>2. /\ ~req[r].entity.deleted /\ r \in Operators /\ ~row[req[r].st].deleted
        /\ Pollers = {} => req[r].entity.conf = row[req[r].st].conf
    BY <1>1 DEF ServiceInv, LoadedIsThere, LoadedIsCurrent, PollersSync, Operators, Holding, At
  <2>3. processes'[req[r].st] = None
    <3>1. CASE StopIngestion(req[r].st)
      BY <1>1, <3>1 DEF StopIngestion, SerialIInv, MapsInv, TypeOK
    <3>2. CASE ~IsRunning(req[r].st) /\ UNCHANGED vars
      BY <1>1, <3>2, NotRunningIsOff DEF vars, maps
    <3> QED
      BY <1>1, <1>3, <2>1, <3>1, <3>2 DEF Remove, Return, Idle, ServiceTypeOK
  <2> QED
    BY <1>1, <1>p, <2>1, <2>2, <2>3, OneRequestMoves DEF At
<1> QED
  BY <1>2, <1>3 DEF Remove

LEMMA StartMoves ==
  ASSUME ServiceIInv, NEW r \in Requests, NEW ok \in BOOLEAN, Start(r, ok)
  PROVE  ServiceInv'
<1> USE DEF ServiceIInv
<1>1. /\ req[r].pc # "idle" /\ req[r].st \in Streams /\ req[r].entity \in Row
      /\ req[r] \in [op : Op, st : Streams, pc : Phase, entity : Row]
      /\ At(r, "start", "found") /\ row' = row
  BY Busy DEF Start, At, ServiceTypeOK, Request, Idle
<1>2. CASE Return(r) /\ UNCHANGED vars
  BY <1>1, <1>2, OneRequestMoves DEF Return, Idle, ServiceTypeOK, vars, maps, Holding, At
<1>3. CASE /\ StartIngestion(req[r].st, req[r].entity.conf, ok)
           /\ Await(r, "save", [req[r].entity EXCEPT !.status = "connecting"])
  <2>1. /\ req'[r].entity.deleted = req[r].entity.deleted
        /\ req'[r].entity.conf = req[r].entity.conf
        /\ req'[r].st = req[r].st /\ req'[r].op = "start" /\ req'[r].pc = "save"
        /\ \A q \in Requests : q # r => req'[q] = req[q]
    BY <1>1, <1>3 DEF Await, ServiceTypeOK, Row, At
  <2>2. /\ ~req[r].entity.deleted /\ r \in Operators /\ ~row[req[r].st].deleted
        /\ Pollers = {} => req[r].entity.conf = row[req[r].st].conf
    BY <1>1 DEF ServiceInv, LoadedIsThere, LoadedIsCurrent, PollersSync, Operators, Holding, At
  <2>3. /\ \A u \in Streams : u # req[r].st =>
             processes'[u] = processes[u] /\ configs'[u] = configs[u]
        /\ configs'[req[r].st] = req[r].entity.conf
    BY <1>1, <1>3 DEF StartIngestion, SpawnFFmpeg, SerialIInv, MapsInv, TypeOK
  <2> QED
    BY <1>1, <2>1, <2>2, <2>3, OneRequestMoves DEF At
<1> QED
  BY <1>2, <1>3 DEF Start

\* Whoever writes the row of a stream is its only operator's request, or a
\* poll, which writes a row that is not removed.
LEMMA WriteMoves ==
  ASSUME ServiceIInv, NEW r \in Requests, Save(r) \/ SoftDelete(r)
  PROVE  ServiceInv'
<1> USE DEF ServiceIInv, vars, maps
<1>1. /\ req[r].pc \in {"save", "softDelete"}
      /\ req[r].st \in Streams /\ req[r].entity \in Row
  BY Busy DEF Save, SoftDelete
<1>2. /\ req'[r] = Idle
      /\ \A q \in Requests : q # r => req'[q] = req[q]
      /\ UNCHANGED <<processes, configs>>
  BY DEF Save, SoftDelete, Return, ServiceTypeOK
<1>3. /\ \A q \in Operators : r \in Operators /\ q # r /\ req[q].pc # "idle" => req[q].st # req[r].st
      /\ Pollers = {} => Operators = Requests
  BY <1>1, NoneAssumption, Busy DEF ServiceInv, OneRequest, Operators
<1>4. \A u \in Streams : u # req[r].st => row'[u] = row[u]
  BY <1>1 DEF Save, SoftDelete, ServiceTypeOK
<1>5. /\ req[r].pc = "save" => row'[req[r].st] = req[r].entity /\ ~req[r].entity.deleted
      /\ req[r].pc = "softDelete" => r \in Operators
  BY <1>1 DEF Save, SoftDelete, ServiceTypeOK, ServiceInv, LoadedIsThere, PollersSync,
              Operators, Holding
<1>6. OneRequest' /\ PollersSync'
  BY <1>2, PollersAssumption DEF ServiceInv, OneRequest, PollersSync, Operators, Idle
<1>7. LoadedIsThere'
  <2> SUFFICES ASSUME NEW q \in Requests, req'[q].pc \in Holding
               PROVE  ~req'[q].entity.deleted /\ (q \in Operators => ~row'[req'[q].st].deleted)
    BY DEF LoadedIsThere
  <2>1. q # r /\ req'[q] = req[q] /\ req[q].pc # "idle" /\ req[q].st \in Streams
    BY <1>2, Busy DEF Idle, Holding
  <2>2. ~req[q].entity.deleted /\ (q \in Operators => ~row[req[q].st].deleted)
    BY <2>1 DEF ServiceInv, LoadedIsThere
  <2> QED
    BY <1>1, <1>3, <1>4, <1>5, <2>1, <2>2
<1>8. LoadedIsCurrent'
  <2> SUFFICES ASSUME NEW q \in Requests, Pollers = {}, req'[q].pc \in Holding,
                      req'[q].entity.conf # row'[req'[q].st].conf
               PROVE  req'[q].op = "update" /\ req'[q].pc = "save"
    BY DEF LoadedIsCurrent
  <2>1. q # r /\ req'[q] = req[q] /\ req[q].pc # "idle" /\ req[q].st \in Streams
    BY <1>2, Busy DEF Idle, Holding
  <2>2. row'[req[q].st] = row[req[q].st]
    BY <1>3, <1>4, <2>1
  <2> QED
    BY <2>1, <2>2 DEF ServiceInv, LoadedIsCurrent
<1>9. WriteOnlyStopped'
  BY <1>2 DEF ServiceInv, WriteOnlyStopped, At, Idle
<1>10. RegisteredHasRow'
  <2> SUFFICES ASSUME NEW u \in Streams, processes[u] # None
               PROVE  ~row'[u].deleted /\ (Pollers = {} => configs[u] = row'[u].conf)
    BY <1>2 DEF RegisteredHasRow
  <2>1. ~row[u].deleted /\ (Pollers = {} => configs[u] = row[u].conf)
    BY DEF ServiceInv, RegisteredHasRow
  <2>2. CASE u # req[r].st
    BY <1>4, <2>1, <2>2
  <2>3. CASE u = req[r].st
    <3>1. req[r].pc = "save" /\ req[r].op # "update"
      BY <1>1, <2>3 DEF ServiceInv, WriteOnlyStopped, At
    <3>2. Pollers = {} => req[r].entity.conf = row[u].conf
      BY <2>3, <3>1 DEF ServiceInv, LoadedIsCurrent, Holding
    <3> QED
      BY <1>5, <2>1, <2>3, <3>1, <3>2
  <2> QED
    BY <2>2, <2>3
<1> QED
  BY <1>6, <1>7, <1>8, <1>9, <1>10 DEF ServiceInv

LEMMA SuperviseMoves ==
  ASSUME ServiceIInv, Supervise, UNCHANGED serviceVars
  PROVE  ServiceInv'
<1> USE DEF ServiceIInv, serviceVars
<1>1. \A u \in Streams : processes'[u] # None =>
        processes[u] # None /\ configs'[u] = configs[u]
  BY SuperviseKeeps DEF SerialIInv, MapsInv
<1>2. OneRequest' /\ PollersSync' /\ LoadedIsThere' /\ LoadedIsCurrent'
  BY DEF ServiceInv, OneRequest, PollersSync, LoadedIsThere, LoadedIsCurrent
<1>3. WriteOnlyStopped'
  BY <1>1, Busy DEF ServiceInv, WriteOnlyStopped, At
<1>4. RegisteredHasRow'
  BY <1>1 DEF ServiceInv, RegisteredHasRow
<1> QED
  BY <1>2, <1>3, <1>4 DEF ServiceInv

LEMMA ServiceInvStep == ServiceIInv /\ [SerialServiceNext]_allVars => ServiceInv'
<1> SUFFICES ASSUME ServiceIInv, [SerialServiceNext]_allVars PROVE ServiceInv'
  OBVIOUS
<1> USE DEF ServiceIInv, ServiceInv, OneRequest, PollersSync, LoadedIsThere, LoadedIsCurrent,
            WriteOnlyStopped, RegisteredHasRow, At, vars, maps
<1>1. ASSUME NEW st \in Streams, WowzaNotices(st) PROVE ServiceInv'
  BY <1>1 DEF WowzaNotices
<1>2. CASE UNCHANGED allVars
  BY <1>2 DEF allVars
<1>3. ASSUME NEW r \in Operators, NEW st \in Streams, OperatorAsks(r, st)
      PROVE  ServiceInv'
  <2>1. r \in Requests /\ r \notin Pollers /\ Alone(st)
    BY <1>3 DEF Operators, OperatorAsks
  <2> QED
    BY ONLY ServiceIInv, <1>3, <2>1, ArriveStep, StopStep DEF OperatorAsks
<1>4. ASSUME NEW r \in Pollers, NEW st \in Streams, Arrive(r, "sync", st) PROVE ServiceInv'
  <2>1. r \in Requests /\ r \notin Operators /\ "sync" \in Op
    BY PollersAssumption DEF Operators, Op
  <2> QED
    BY ONLY ServiceIInv, <1>4, <2>1, ArriveStep
<1>5. ASSUME NEW r \in Requests, Handler(r) PROVE ServiceInv'
  BY ONLY ServiceIInv, <1>5, QuietMoves, UpdateMoves, RemoveMoves, WriteMoves DEF Handler
<1>6. ASSUME NEW r \in Requests, NEW ok \in BOOLEAN, Start(r, ok) PROVE ServiceInv'
  BY ONLY ServiceIInv, <1>6, StartMoves
<1>7. CASE Supervise /\ UNCHANGED serviceVars
  BY ONLY ServiceIInv, <1>7, SuperviseMoves
<1> QED
  BY ONLY [SerialServiceNext]_allVars, <1>1, <1>2, <1>3, <1>4, <1>5, <1>6, <1>7
     DEF SerialServiceNext

\* While nothing of st can call back, only a start of st can change that.
LEMMA QuietStays ==
  ASSUME TypeOK, NEW st \in Streams, Quiet(st),
         \/ UNCHANGED vars
         \/ CheckFFmpegAvailability
         \/ Shutdown
         \/ \E u \in Streams : StopIngestion(u)
         \/ \E u \in Streams, c \in Configs, ok \in BOOLEAN : u # st /\ StartIngestion(u, c, ok)
         \/ \E s \in Sessions : Callback(s)
  PROVE  Quiet(st)'
<1> USE DEF TypeOK, Quiet, captured, maps
<1>1. CASE UNCHANGED vars \/ CheckFFmpegAvailability
  BY <1>1 DEF vars, CheckFFmpegAvailability
<1>2. CASE Shutdown
  BY <1>2 DEF Shutdown, Signalled
<1>3. ASSUME NEW u \in Streams, StopIngestion(u) PROVE Quiet(st)'
  BY <1>3 DEF StopIngestion, Signalled
<1>4. ASSUME NEW u \in Streams, NEW c \in Configs, NEW ok \in BOOLEAN, u # st,
             StartIngestion(u, c, ok)
      PROVE  Quiet(st)'
  BY <1>4 DEF StartIngestion, SpawnFFmpeg
<1>5. ASSUME NEW s \in Sessions, NEW code \in ExitCode, ProcessClose(s, code)
      PROVE  Quiet(st)'
  BY <1>5 DEF ProcessClose, ClosesWith, ScheduleReconnect
<1>6. ASSUME NEW s \in Sessions, NEW ok \in BOOLEAN, ReconnectTimer(s, ok)
      PROVE  Quiet(st)'
  BY <1>6 DEF ReconnectTimer, SpawnFFmpeg
<1>7. ASSUME NEW s \in Sessions, KillTimer(s) PROVE Quiet(st)'
  BY <1>7 DEF KillTimer
<1> QED
  BY <1>1, <1>2, <1>3, <1>4, <1>5, <1>6, <1>7 DEF Callback

\* What a step of the serial service does to the supervisor.
LEMMA ServiceStepUses ==
  ASSUME ServiceTypeOK, SerialServiceNext
  PROVE  \/ UNCHANGED vars
         \/ CheckFFmpegAvailability
         \/ Shutdown
         \/ \E u \in Streams : StopIngestion(u)
         \/ \E r \in Requests, ok \in BOOLEAN : Start(r, ok)
         \/ \E s \in Sessions : Callback(s)
<1>1. ASSUME NEW r \in Requests, Handler(r)
      PROVE  UNCHANGED vars \/ \E u \in Streams : StopIngestion(u)
  BY <1>1, HandlerUses
<1>2. ASSUME NEW r \in Operators, NEW st \in Streams, OperatorAsks(r, st)
      PROVE  UNCHANGED vars \/ \E u \in Streams : StopIngestion(u)
  BY <1>2 DEF OperatorAsks, Stop, Arrive
<1> QED
  BY <1>1, <1>2 DEF SerialServiceNext, Arrive, Supervise, Close, WowzaNotices

\* The start of a stream that is quiet when it comes to the supervisor is one
\* the serial use allows.
LEMMA SerialUsesStep == ServiceIInv /\ [SerialServiceNext]_allVars => [SerialNext]_vars
<1> SUFFICES ASSUME ServiceIInv, [SerialServiceNext]_allVars PROVE [SerialNext]_vars
  OBVIOUS
<1>1. ASSUME NEW r \in Requests, NEW ok \in BOOLEAN, Start(r, ok) PROVE [SerialNext]_vars
  <2>1. Settled(req[r].st)
    BY <1>1 DEF ServiceIInv, StartsQuiet, Start, At, Quiet, Settled
  <2> QED
    BY <1>1, <2>1, StartUses DEF ServiceIInv, SerialNext
<1>2. CASE UNCHANGED allVars
  BY <1>2 DEF allVars
<1> QED
  BY <1>1, <1>2, ServiceStepUses DEF ServiceIInv, SerialNext

\* A start on its way to the supervisor was so before, or is asked for now.
LEMMA StartGoesOn ==
  ASSUME ServiceTypeOK, SerialServiceNext, NEW r \in Requests,
         req'[r].op = "start", req'[r].pc \in {"find", "found"}
  PROVE  \/ /\ req[r].op = "start" /\ req[r].pc \in {"find", "found"}
            /\ req'[r].st = req[r].st
         \/ Quiet(req'[r].st) /\ UNCHANGED vars
<1> USE DEF ServiceTypeOK
<1>1. ASSUME NEW q \in Requests, Handler(q) \/ \E ok \in BOOLEAN : Start(q, ok)
      PROVE  /\ req[r].op = "start" /\ req[r].pc \in {"find", "found"}
             /\ req'[r].st = req[r].st
  <2>0. req[q].pc # "idle"
    BY <1>1 DEF Handler, FindOne, Save, Fail, SoftDelete, Update, Remove, Start, StopFound,
                AskWowza, WowzaAnswered, At
  <2>1. req[q] \in [op : Op, st : Streams, pc : Phase, entity : Row]
    BY <2>0 DEF Request, Idle
  <2>2. CASE req' = [req EXCEPT ![q] = Idle]
    BY <2>2 DEF Idle
  <2>3. ASSUME NEW pc, NEW e, Await(q, pc, e),
               (pc = "found" /\ req[q].pc = "find") \/ pc \notin {"find", "found"}
        PROVE  /\ req[r].op = "start" /\ req[r].pc \in {"find", "found"}
               /\ req'[r].st = req[r].st
    BY <2>1, <2>3 DEF Await
  <2> QED
    BY <1>1, <2>2, <2>3
       DEF Handler, FindOne, Save, Fail, SoftDelete, Update, Remove, Start, StopFound,
           AskWowza, WowzaAnswered, Return
<1>2. ASSUME NEW q \in Operators, NEW st \in Streams, OperatorAsks(q, st)
      PROVE  \/ req'[r] = req[r]
             \/ Quiet(req'[r].st) /\ UNCHANGED vars
  BY <1>2 DEF OperatorAsks, Stop, Arrive, Operators
<1>3. ASSUME NEW q \in Pollers, NEW st \in Streams, Arrive(q, "sync", st)
      PROVE  req'[r] = req[r]
  BY <1>3, PollersAssumption DEF Arrive
<1> QED
  BY <1>1, <1>2, <1>3 DEF SerialServiceNext, WowzaNotices, serviceVars

\* A start is an operator's, so no other request starts its stream meanwhile.
LEMMA StartsQuietStep == ServiceIInv /\ [SerialServiceNext]_allVars => StartsQuiet'
<1> SUFFICES ASSUME ServiceIInv, [SerialServiceNext]_allVars, NEW r \in Requests, NEW st,
                    req'[r].op = "start", req'[r].pc \in {"find", "found"}, st = req'[r].st
             PROVE  Quiet(st)'
  BY DEF StartsQuiet, Quiet
<1> USE DEF ServiceIInv
<1>1. CASE UNCHANGED allVars
  BY <1>1 DEF allVars, vars, captured, StartsQuiet, Quiet
<1>2. CASE SerialServiceNext /\ Quiet(st) /\ UNCHANGED vars
  BY <1>2 DEF vars, captured, Quiet
<1>3. CASE /\ SerialServiceNext
           /\ req[r].op = "start" /\ req[r].pc \in {"find", "found"} /\ st = req[r].st
  <2>1. st \in Streams /\ Quiet(st) /\ r \in Operators
    BY <1>3, Busy DEF StartsQuiet, ServiceInv, PollersSync, Operators
  <2>2. ASSUME NEW q \in Requests, NEW ok \in BOOLEAN, Start(q, ok)
        PROVE  \/ UNCHANGED vars
               \/ \E u \in Streams, c \in Configs : u # st /\ StartIngestion(u, c, ok)
    <3>0. req[q] \in [op : Op, st : Streams, pc : Phase, entity : Row]
      BY <2>2 DEF Start, At, ServiceTypeOK, Request, Idle
    <3>1. q # r
      BY <2>2, <3>0 DEF Start, Await, Return, Idle, ServiceTypeOK
    <3>2. q \in Operators
      BY <2>2 DEF Start, At, ServiceInv, PollersSync, Operators
    <3>3. req[q].st # st
      BY <1>3, <2>1, <3>1, <3>2, NoneAssumption DEF ServiceInv, OneRequest
    <3> QED
      BY <2>2, <3>3, StartUses
  <2> QED
    BY ONLY <1>3, ServiceIInv, <2>1, <2>2, ServiceStepUses, QuietStays
       DEF ServiceIInv, SerialIInv, MapsInv
<1> QED
  BY <1>1, <1>2, <1>3, StartGoesOn

LEMMA ServiceInvariant == SerialServiceSpec => []ServiceIInv
<1>1. ServiceInit => ServiceIInv
  BY ServiceInitType, SerialInit, NoneAssumption, PollersAssumption
     DEF ServiceIInv, ServiceInit, Init, ServiceInv, OneRequest, PollersSync, LoadedIsThere,
         LoadedIsCurrent, WriteOnlyStopped, RegisteredHasRow, StartsQuiet, Operators,
         Holding, Idle, At
<1>2. ServiceIInv /\ [SerialServiceNext]_allVars => ServiceIInv'
  <2> SUFFICES ASSUME ServiceIInv, [SerialServiceNext]_allVars PROVE ServiceIInv'
    OBVIOUS
  <2>1. SerialIInv'
    BY SerialUsesStep, SerialKept DEF ServiceIInv
  <2>2. ServiceTypeOK' /\ ServiceInv' /\ StartsQuiet'
    BY ServiceTypeStep, SerialServiceIsUse, ServiceInvStep, StartsQuietStep DEF ServiceIInv
  <2> QED
    BY <2>1, <2>2 DEF ServiceIInv
<1> QED
  BY <1>1, <1>2, PTL DEF SerialServiceSpec

-----------------------------------------------------------------------------
(* What that brings to the composed system.                                  *)

\* A start is asked for when its stream is quiet and reaches the supervisor
\* awaits later: with one operator's request at a time per stream, nothing that
\* any number of polls, callbacks and requests for other streams do meanwhile
\* unsettles it, and the supervisor is used serially; the theorems about
\* IngestionSerial hold of the system.
THEOREM ServiceUsesSerially == SerialServiceSpec => UsesIngestionSerially
<1>1. ServiceInit => Init
  BY DEF ServiceInit
<1> QED
  BY <1>1, ServiceInvariant, SerialUsesStep, PTL
     DEF SerialServiceSpec, UsesIngestionSerially, SerialSpec

\* With one operator's request at a time per stream and whatever the polls do, a
\* stream has one owner, what publishes is tracked, what cannot be started can
\* be stopped, and what was told to die does not come back.
THEOREM ServiceOwnsOnce ==
  SerialServiceSpec => [](OneOwner /\ LiveIsTracked /\ NoWedge) /\ KilledNeverReconnects
BY ServiceUsesSerially, AtMostOneOwner, LiveAlwaysTracked, NeverWedged, KilledStaysDown, PTL
DEF UsesIngestionSerially

\* So the whole, table, requests, polls and supervisor, implements the abstract
\* supervisor.
THEOREM ServiceImplementsSupervisor == SerialServiceSpec => ImplementsSupervisor
BY ServiceUsesSerially, SerialImplementsSupervisor, PTL DEF UsesIngestionSerially

\* One operator's request at a time per stream: no ffmpeg publishes for a
\* removed stream, whatever the polls write.
THEOREM RemovedAlwaysQuiet == SerialServiceSpec => []RemovedIsQuiet
<1>1. ServiceIInv => RemovedIsQuiet
  BY NoneAssumption
     DEF ServiceIInv, SerialIInv, MapsInv, CallbacksKnow, SerialInv, OwnEntry, ServiceInv,
         RegisteredHasRow, RemovedIsQuiet
<1> QED
  BY <1>1, ServiceInvariant, PTL

\* One operator's request at a time per stream and nobody polling: whatever
\* is updated, synchronised and reconnected, an ffmpeg publishes with the
\* configuration of its row.
THEOREM ConfigAlwaysInForce ==
  ASSUME Pollers = {}
  PROVE  SerialServiceSpec => []ConfigInForce
<1>1. ServiceIInv => ConfigInForce
  <2> SUFFICES ASSUME ServiceIInv, NEW s \in Sessions, task[s] = "live"
               PROVE  config[s] = row[stream[s]].conf
    BY DEF ConfigInForce
  <2> USE DEF ServiceIInv, SerialIInv, MapsInv
  <2>1. PICK st \in Streams : st = stream[s]
    BY DEF CallbacksKnow
  <2>2. processes[st] = s /\ states[st] = s
    BY <2>1, NoneAssumption DEF SerialInv, OwnEntry, CurrentEntry
  <2>3. configs[st] = config[s]
    BY <2>2, NoneAssumption DEF MapsAgree
  <2>4. configs[st] = row[st].conf
    BY <2>2, NoneAssumption DEF ServiceInv, RegisteredHasRow
  <2> QED
    BY <2>1, <2>3, <2>4
<1> QED
  BY <1>1, ServiceInvariant, PTL
=============================================================================
