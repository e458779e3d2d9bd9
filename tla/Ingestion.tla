----------------------------- MODULE Ingestion -----------------------------
(***************************************************************************)
(* The RTSP ingestion supervisor, src/modules/ingestion/ingestion.service. *)
(*                                                                         *)
(* Every startIngestion creates a state object (a SESSION here) that the   *)
(* 'close' handler and the reconnect timer of its ffmpeg capture; the      *)
(* service finds the current session of a stream through three maps keyed  *)
(* by stream id.  The handlers look a stream up by KEY, never by identity, *)
(* so a handler of an old session can act on the entry of a newer one.     *)
(*                                                                         *)
(* A session owns one thing at a time that can still call back: its ffmpeg *)
(* process or its reconnect timer.  'close' is emitted once per process,   *)
(* only the 'close' handler arms a timer, and a timer spawns one process;  *)
(* task[s] is that one thing.  Node runs a handler to its first await      *)
(* without interruption, so a handler is one step.                         *)
(***************************************************************************)
EXTENDS Naturals

CONSTANTS Streams,       \* stream ids
          Sessions,      \* identities of state objects; a discarded one is reused
          None,          \* an absent map entry
          Configs,       \* camera configurations a stream can be started with
          MaxReconnects, \* maxReconnectAttempts of a configuration; 0 is "no limit"
          AttemptBound   \* reconnectAttempts is not counted past this value

ASSUME NoneAssumption == None \notin Sessions \cup Configs \cup Streams
ASSUME LimitAssumption ==
  /\ MaxReconnects \in [Configs -> Nat]
  /\ AttemptBound \in Nat
  /\ \A c \in Configs : MaxReconnects[c] < AttemptBound

VARIABLES
  up,               \* FALSE once the application is shutting down
  ffmpegAvailable,  \* this.ffmpegAvailable
  processes,        \* this.processes: the session whose ffmpeg the map holds
  states,           \* this.states: the current session of the stream
  configs,          \* this.configs: the configuration the stream was started with
  stream,           \* the stream id a session's handlers capture
  config,           \* the configuration a session's handlers capture
  status,           \* state.status of a session
  attempts,         \* state.reconnectAttempts of a session
  task              \* what can still call back on behalf of a session

maps == <<processes, states, configs>>
captured == <<stream, config>>
vars == <<up, ffmpegAvailable, processes, states, configs, stream, config,
          status, attempts, task>>

IngestionStatus == {"running", "reconnecting", "stopped", "error", "max_retries"}

(* "live": ffmpeg runs; "failed": spawn failed, 'error' was emitted and     *)
(* 'close' is due; "dying": SIGTERM was sent; "killed": SIGKILL was sent;   *)
(* "timer": the reconnect timer is armed.                                   *)
Task == {"idle", "live", "failed", "dying", "killed", "timer"}

ExitCode == {"zero", "nonzero", "null"}

TypeOK ==
  /\ up \in BOOLEAN
  /\ ffmpegAvailable \in BOOLEAN
  /\ processes \in [Streams -> Sessions \cup {None}]
  /\ states \in [Streams -> Sessions \cup {None}]
  /\ configs \in [Streams -> Configs \cup {None}]
  /\ stream \in [Sessions -> Streams \cup {None}]
  /\ config \in [Sessions -> Configs \cup {None}]
  /\ status \in [Sessions -> IngestionStatus]
  /\ attempts \in [Sessions -> Nat]
  /\ task \in [Sessions -> Task]

Init ==
  /\ up = TRUE
  /\ ffmpegAvailable = FALSE
  /\ processes = [st \in Streams |-> None]
  /\ states = [st \in Streams |-> None]
  /\ configs = [st \in Streams |-> None]
  /\ stream = [s \in Sessions |-> None]
  /\ config = [s \in Sessions |-> None]
  /\ status = [s \in Sessions |-> "stopped"]
  /\ attempts = [s \in Sessions |-> 0]
  /\ task = [s \in Sessions |-> "idle"]

-----------------------------------------------------------------------------
(* Helpers.                                                                 *)

\* No map entry, handler or timer refers to s any more.
Discarded(s) ==
  /\ task[s] = "idle"
  /\ \A st \in Streams : processes[st] # s /\ states[st] # s

\* Mutant: the conflict test is dropped.
StartableAlways(st) == TRUE

\* The conflict test of startIngestion: only STARTING and RUNNING refuse (and
\* STARTING is over before startIngestion returns).
Startable(st) == states[st] # None => status[states[st]] # "running"

\* isRunning, what the stream service and the gateway ask
IsRunning(st) ==
  states[st] # None /\ status[states[st]] \in {"running", "reconnecting"}

\* Mutant: state.reconnectAttempts++ is lost.
AttemptLost(n) == n

CountAttempt(n) == IF n < AttemptBound THEN n + 1 ELSE n

\* proc.kill('SIGTERM') reaches only a process that is still there.
Signalled(t) == IF t = "live" THEN "dying" ELSE t

\* Mutant: a spawn leaves the status STARTING that startIngestion put there.
SpawnForgetsStatus(s, st, ok, st0, tk0) ==
  /\ processes' = [processes EXCEPT ![st] = IF ok THEN s ELSE None]
  /\ status' = [st0 EXCEPT ![s] = "starting"]
  /\ task' = [tk0 EXCEPT ![s] = IF ok THEN "live" ELSE "failed"]

(* spawnFFmpeg, started from the status and task maps st0 and tk0 that the  *)
(* caller has reached.  A failed spawn emits 'error' before any other       *)
(* callback runs; that handler deletes whatever entry the stream has.       *)
SpawnFFmpeg(s, st, ok, st0, tk0) ==
  /\ processes' = [processes EXCEPT ![st] = IF ok THEN s ELSE None]
  /\ status' = [st0 EXCEPT ![s] = IF ok THEN "running" ELSE "error"]
  /\ task' = [tk0 EXCEPT ![s] = IF ok THEN "live" ELSE "failed"]

-----------------------------------------------------------------------------
(* Operations.                                                              *)

\* onModuleInit: the check of `ffmpeg -version` ends well (a failed check
\* leaves the flag as it is).
CheckFFmpegAvailability ==
  /\ up
  /\ ~ffmpegAvailable
  /\ ffmpegAvailable' = TRUE
  /\ UNCHANGED <<up, maps, captured, status, attempts, task>>

\* startIngestion with a fresh state object.
StartIngestion(st, c, ok) ==
  /\ up
  /\ ffmpegAvailable
  /\ Startable(st)
  /\ \E s \in Sessions :
       /\ Discarded(s)
       /\ states' = [states EXCEPT ![st] = s]
       /\ configs' = [configs EXCEPT ![st] = c]
       /\ stream' = [stream EXCEPT ![s] = st]
       /\ config' = [config EXCEPT ![s] = c]
       /\ attempts' = [attempts EXCEPT ![s] = 0]
       /\ SpawnFFmpeg(s, st, ok, status, task)
  /\ UNCHANGED <<up, ffmpegAvailable>>

\* Mutant: the config is not deleted with the other two entries.
StopKeepsConfig(st) ==
  /\ up
  /\ processes[st] # None
  /\ processes' = [processes EXCEPT ![st] = None]
  /\ states' = [states EXCEPT ![st] = None]
  /\ status' = [status EXCEPT ![states[st]] = "stopped"]
  /\ task' = [task EXCEPT ![processes[st]] = Signalled(@)]
  /\ UNCHANGED <<up, ffmpegAvailable, configs, captured, attempts>>

\* Mutant: the entry of the state object stays and is not marked STOPPED.
StopKeepsState(st) ==
  /\ up
  /\ processes[st] # None
  /\ processes' = [processes EXCEPT ![st] = None]
  /\ task' = [task EXCEPT ![processes[st]] = Signalled(@)]
  /\ UNCHANGED <<up, ffmpegAvailable, states, configs, captured, status, attempts>>

\* Mutant: the process is killed and stays registered until it has closed.
StopKillsFirst(st) ==
  /\ up
  /\ processes[st] # None
  /\ states' = [states EXCEPT ![st] = None]
  /\ configs' = [configs EXCEPT ![st] = None]
  /\ status' = [status EXCEPT ![states[st]] = "stopped"]
  /\ task' = [task EXCEPT ![processes[st]] = Signalled(@)]
  /\ UNCHANGED <<up, ffmpegAvailable, processes, captured, attempts>>

\* stopIngestion.  The process killed is the one `processes` holds, the state
\* object marked is the one `states` holds: two sessions in general.
StopIngestion(st) ==
  /\ up
  /\ processes[st] # None
  /\ processes' = [processes EXCEPT ![st] = None]
  /\ states' = [states EXCEPT ![st] = None]
  /\ configs' = [configs EXCEPT ![st] = None]
  /\ status' = [status EXCEPT ![states[st]] = "stopped"]
  /\ task' = [task EXCEPT ![processes[st]] = Signalled(@)]
  /\ UNCHANGED <<up, ffmpegAvailable, captured, attempts>>

\* restartIngestion: stop, then start with the registered config.  The
\* promise of stopIngestion is already resolved, so nothing runs in between.
RestartIngestion(st, ok) ==
  /\ up
  /\ configs[st] # None
  /\ processes[st] # None
  /\ \E s \in Sessions :
       /\ Discarded(s)
       /\ states' = [states EXCEPT ![st] = s]
       /\ stream' = [stream EXCEPT ![s] = st]
       /\ config' = [config EXCEPT ![s] = configs[st]]
       /\ attempts' = [attempts EXCEPT ![s] = 0]
       /\ SpawnFFmpeg(s, st, ok,
            [status EXCEPT ![states[st]] = "stopped"],
            [task EXCEPT ![processes[st]] = Signalled(@)])
  /\ UNCHANGED <<up, ffmpegAvailable, configs>>

\* onApplicationShutdown: stopAll over the keys of `processes`.
Shutdown ==
  /\ up
  /\ up' = FALSE
  /\ LET ids == {st \in Streams : processes[st] # None} IN
       /\ processes' = [st \in Streams |-> None]
       /\ states' = [st \in Streams |-> IF st \in ids THEN None ELSE states[st]]
       /\ configs' = [st \in Streams |-> IF st \in ids THEN None ELSE configs[st]]
       /\ status' = [s \in Sessions |->
                       IF \E st \in ids : states[st] = s THEN "stopped" ELSE status[s]]
       /\ task' = [s \in Sessions |->
                     IF \E st \in ids : processes[st] = s
                       THEN Signalled(task[s]) ELSE task[s]]
  /\ UNCHANGED <<ffmpegAvailable, captured, attempts>>

-----------------------------------------------------------------------------
(* Callbacks.                                                               *)

\* The codes a process can close with.  ffmpeg answers SIGTERM by exiting
\* with 255; a signal it does not handle closes with code null.
ClosesWith(t) ==
  CASE t \in {"live", "dying"} -> ExitCode
    [] t = "failed"            -> {"nonzero"}
    [] t = "killed"            -> {"null"}
    [] OTHER                   -> {}

\* Mutant: the callbacks do not look whether the stream is still registered.
RegisteredUnchecked(s) == TRUE

\* this.processes.has(streamId)
Registered(s) == processes[stream[s]] # None

limitOf(s) == MaxReconnects[config[s]]

\* Mutant: one attempt too many.
OverLimitLate(s, n) == limitOf(s) > 0 /\ n > limitOf(s) + 1

OverLimit(s, n) == limitOf(s) > 0 /\ n > limitOf(s)

\* Mutant: RECONNECTING is announced and no timer is set.
ScheduleUnarmed(s) ==
  LET n == CountAttempt(attempts[s]) IN
  /\ attempts' = [attempts EXCEPT ![s] = n]
  /\ status' = [status EXCEPT ![s] = "reconnecting"]
  /\ task' = [task EXCEPT ![s] = "idle"]
  /\ UNCHANGED processes

\* scheduleReconnect
ScheduleReconnect(s) ==
  LET n == CountAttempt(attempts[s]) IN
  /\ attempts' = [attempts EXCEPT ![s] = n]
  /\ \/ /\ OverLimit(s, n)
        /\ status' = [status EXCEPT ![s] = "max_retries"]
        /\ processes' = [processes EXCEPT ![stream[s]] = None]
        /\ task' = [task EXCEPT ![s] = "idle"]
     \/ /\ ~OverLimit(s, n)
        /\ status' = [status EXCEPT ![s] = "reconnecting"]
        /\ task' = [task EXCEPT ![s] = "timer"]
        /\ UNCHANGED processes

\* The 'close' handler: has(streamId), then the code.
ProcessClose(s, code) ==
  /\ code \in ClosesWith(task[s])
  /\ \/ /\ Registered(s)
        /\ code = "nonzero"
        /\ ScheduleReconnect(s)
     \/ /\ ~Registered(s) \/ code # "nonzero"
        /\ task' = [task EXCEPT ![s] = "idle"]
        /\ UNCHANGED <<processes, status, attempts>>
  /\ UNCHANGED <<up, ffmpegAvailable, states, configs, captured>>

\* The reconnect timer: stopIngestion does not clear it, so it looks again.
ReconnectTimer(s, ok) ==
  /\ task[s] = "timer"
  /\ \/ /\ Registered(s)
        /\ SpawnFFmpeg(s, stream[s], ok, status, task)
     \/ /\ ~Registered(s)
        /\ task' = [task EXCEPT ![s] = "idle"]
        /\ UNCHANGED <<processes, status>>
  /\ UNCHANGED <<up, ffmpegAvailable, states, configs, captured, attempts>>

\* Mutant: the second signal is SIGTERM again.
KillTimerTerm(s) ==
  /\ task[s] = "dying"
  /\ UNCHANGED vars

\* Three seconds after SIGTERM, SIGKILL to a process that is still there.
KillTimer(s) ==
  /\ task[s] = "dying"
  /\ task' = [task EXCEPT ![s] = "killed"]
  /\ UNCHANGED <<up, ffmpegAvailable, maps, captured, status, attempts>>

Callback(s) ==
  \/ \E code \in ExitCode : ProcessClose(s, code)
  \/ \E ok \in BOOLEAN : ReconnectTimer(s, ok)
  \/ KillTimer(s)

Operation ==
  \/ CheckFFmpegAvailability
  \/ \E st \in Streams, c \in Configs, ok \in BOOLEAN : StartIngestion(st, c, ok)
  \/ \E st \in Streams : StopIngestion(st)
  \/ \E st \in Streams, ok \in BOOLEAN : RestartIngestion(st, ok)
  \/ Shutdown

Next == Operation \/ \E s \in Sessions : Callback(s)

Spec == Init /\ [][Next]_vars

(* Node runs due timers, SIGKILL cannot be ignored, and a process that was  *)
(* never spawned closes; nothing makes a healthy or a SIGTERMed ffmpeg end. *)
(* After the shutdown hooks the process exits with its timers still pending.*)
Fairness ==
  \A s \in Sessions :
    /\ WF_vars(up /\ KillTimer(s))
    /\ WF_vars(up /\ \E ok \in BOOLEAN : ReconnectTimer(s, ok))
    /\ WF_vars(up /\ task[s] \in {"failed", "killed"}
                  /\ \E c \in ExitCode : ProcessClose(s, c))

FairSpec == Spec /\ Fairness

-----------------------------------------------------------------------------
(* Properties under any use of the service.                                 *)

\* The three maps agree: a registered process implies a state object and a
\* config for that stream (stopIngestion reads states.get(streamId)! without
\* a check), and the config kept for a restart is the one the state object's
\* own handlers captured.
MapsAgree ==
  \A st \in Streams :
    /\ processes[st] # None => states[st] # None /\ stream[processes[st]] = st
    /\ states[st] = None => configs[st] = None
    /\ states[st] # None => stream[states[st]] = st /\ configs[st] = config[states[st]]

\* A session with a limit never runs or waits beyond it: the camera is tried
\* at most 1 + maxReconnectAttempts times on behalf of one start.
RetryBudget ==
  \A s \in Sessions :
    task[s] # "idle" /\ limitOf(s) > 0 => attempts[s] <= limitOf(s)

\* A RECONNECTING state object that is current has its timer armed as long
\* as its stream is registered: no reconnection is announced that nobody
\* will carry out.
ReconnectingIsArmed ==
  \A st \in Streams :
    /\ processes[st] # None
    /\ states[st] # None
    /\ status[states[st]] = "reconnecting"
    => task[states[st]] = "timer"

\* A stream without a registered process gets one only from a start that
\* makes a new current session: no late close, error or timer of an earlier
\* session, and nothing after shutdown, puts a stream back on air.
OnlyStartRegisters ==
  [][\A st \in Streams :
       processes[st] = None /\ processes'[st] # None =>
         /\ up
         /\ states'[st] = processes'[st]
         /\ attempts'[processes'[st]] = 0
         /\ task[processes'[st]] = "idle"]_vars

\* If no ffmpeg of a session with a retry limit runs forever, the session
\* comes to rest as long as the server is up: it is given up, or dropped, and
\* no timer is left.
RetriesEnd ==
  \A s \in Sessions :
    []<>(up /\ task[s] # "live" /\ config[s] # None /\ limitOf(s) # 0) =>
      []<>(task[s] = "idle")
=============================================================================
