---------------------------- MODULE IngestionSerial ----------------------------
(***************************************************************************)
(* The ingestion supervisor used serially: start may be called while the   *)
(* stream is RUNNING (the code refuses it), otherwise a stream is started  *)
(* or restarted only when nothing of its sessions can call back any more.  *)
(* The code does not enforce this; it is the discipline under which it     *)
(* keeps the promises of StreamSupervisor, which it breaks without it.     *)
(***************************************************************************)
EXTENDS Ingestion

Quiet(st) == \A s \in Sessions : stream[s] = st => task[s] = "idle"

\* Only a session that is current and RUNNING can still call back.
Settled(st) ==
  \A s \in Sessions :
    stream[s] = st /\ task[s] # "idle" => s = states[st] /\ status[s] = "running"

SerialNext ==
  \/ CheckFFmpegAvailability
  \/ \E st \in Streams, c \in Configs, ok \in BOOLEAN :
       Settled(st) /\ StartIngestion(st, c, ok)
  \/ \E st \in Streams : StopIngestion(st)
  \/ \E st \in Streams, ok \in BOOLEAN : Quiet(st) /\ RestartIngestion(st, ok)
  \/ Shutdown
  \/ \E s \in Sessions : Callback(s)

SerialSpec == Init /\ [][SerialNext]_vars

FairSerialSpec == SerialSpec /\ Fairness

-----------------------------------------------------------------------------
\* At most one session of a stream has an ffmpeg, a dying ffmpeg or a timer.
OneOwner ==
  \A s, t \in Sessions :
    task[s] # "idle" /\ task[t] # "idle" /\ stream[s] = stream[t] => s = t

\* An ffmpeg that publishes is the one all three maps know and report as
\* RUNNING: it can be seen by getStatus and stopped by stopIngestion.
LiveIsTracked ==
  \A s \in Sessions :
    task[s] = "live" =>
      /\ processes[stream[s]] = s
      /\ states[stream[s]] = s
      /\ status[s] = "running"

\* A stream that startIngestion refuses as already being ingested is one
\* that stopIngestion accepts: the operator always has a way out.
NoWedge == \A st \in Streams : ~Startable(st) => processes[st] # None

\* A process that was told to die never leads to a reconnection: the maps are
\* cleared before the kill so that its 'close' does not trigger one.
KilledNeverReconnects ==
  [][\A s \in Sessions : task[s] \in {"dying", "killed"} => task'[s] # "timer"]_vars

\* As long as the server is up, a stream that stays without a registered
\* process gets quiet: no ffmpeg of it goes on, including one that ignores
\* SIGTERM, and no timer is left.
StoppedGetsQuiet ==
  \A st \in Streams :
    processes[st] = None ~> Quiet(st) \/ processes[st] # None \/ ~up

-----------------------------------------------------------------------------
(* The inductive invariant behind the three safety properties.              *)

\* Whoever can still call back finds its own entry or none, and a registered
\* entry is not that of a dying or failed process.
OwnEntry ==
  \A s \in Sessions :
    /\ task[s] = "live" => processes[stream[s]] = s
    /\ task[s] # "idle" /\ processes[stream[s]] # None =>
         processes[stream[s]] = s /\ task[s] \in {"live", "timer"}

\* The registered process belongs to the current state object, which reports
\* RECONNECTING exactly while the timer is armed and RUNNING otherwise.
CurrentEntry ==
  \A st \in Streams :
    processes[st] # None =>
      /\ states[st] = processes[st]
      /\ status[processes[st]] =
           IF task[processes[st]] = "timer" THEN "reconnecting" ELSE "running"

SerialInv == OneOwner /\ OwnEntry /\ CurrentEntry /\ NoWedge

-----------------------------------------------------------------------------
(* The promise: StreamSupervisor, seen through the maps.                    *)

viewOf(st) ==
  IF processes[st] = None THEN "off"
  ELSE CASE task[processes[st]] = "live"  -> "publishing"
         [] task[processes[st]] = "timer" -> "waiting"
         [] OTHER                         -> "ended"

Supervisor == INSTANCE StreamSupervisor WITH
  Sources <- Sessions,
  RetryLimits <- {MaxReconnects[c] : c \in Configs},
  view    <- [st \in Streams |-> viewOf(st)],
  source  <- [st \in Streams |-> {s \in Sessions : stream[s] = st /\ task[s] = "live"}],
  budget  <- [st \in Streams |-> IF processes[st] = None THEN 0 ELSE limitOf(processes[st])],
  retries <- [st \in Streams |-> IF processes[st] = None THEN 0 ELSE attempts[processes[st]]]

\* Used serially, the service implements the abstract supervisor.
ImplementsSupervisor == Supervisor!Spec
=============================================================================
