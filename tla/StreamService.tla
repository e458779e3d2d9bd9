----------------------------- MODULE StreamService -----------------------------
(***************************************************************************)
(* The stream service, src/modules/streams/streams.service, over the       *)
(* ingestion supervisor and the `streams` table.                           *)
(*                                                                         *)
(* A request is an async function: it reads the row, continues with the    *)
(* entity it has loaded, and writes that entity back.  Between two awaits  *)
(* it runs without interruption; at an await any other request, callback   *)
(* or operator may come in between, and the database or Wowza may fail.    *)
(* Audit entries, playback urls and response bodies are left out.          *)
(***************************************************************************)
EXTENDS IngestionSerial

CONSTANTS Requests,   \* requests that can be in flight at once
          RowConfigs  \* configurations startIngestion can build from a row

ASSUME RowConfigsAssumption == RowConfigs \subseteq Configs

VARIABLES
  row,    \* the `streams` table
  wowza,  \* isConnected of the stream's incoming stream, as Wowza reports it
  req     \* the requests in flight

serviceVars == <<row, wowza, req>>
allVars == <<vars, row, wowza, req>>

StreamStatus == {"active", "inactive", "connecting"}

\* conf is what the row gives ffmpeg: the source url and the Wowza
\* application; None when the protocol is not RTSP or there is no url.
Row == [deleted : BOOLEAN, status : StreamStatus, conf : RowConfigs \cup {None}]

Op == {"update", "remove", "start", "stop", "sync"}

Phase == {"find", "found", "asked", "save", "softDelete"}

NoEntity == [deleted |-> FALSE, status |-> "inactive", conf |-> None]

Idle == [op |-> "none", st |-> None, pc |-> "idle", entity |-> NoEntity]

Request == [op : Op, st : Streams, pc : Phase, entity : Row] \cup {Idle}

ServiceTypeOK ==
  /\ row \in [Streams -> Row]
  /\ wowza \in [Streams -> BOOLEAN]
  /\ req \in [Requests -> Request]

ServiceInit ==
  /\ Init
  /\ row \in [Streams -> {r \in Row : ~r.deleted /\ r.status = "inactive"}]
  /\ wowza = [st \in Streams |-> FALSE]
  /\ req = [r \in Requests |-> Idle]

-----------------------------------------------------------------------------
(* Steps every request shares.                                              *)

At(r, o, pc) == req[r].op = o /\ req[r].pc = pc

Return(r) == req' = [req EXCEPT ![r] = Idle]

\* The request goes on to its next await holding the entity e.
Await(r, pc, e) == req' = [req EXCEPT ![r].pc = pc, ![r].entity = e]

\* A request other than stop enters its handler, which first reads the row.
Arrive(r, o, st) ==
  /\ up
  /\ req[r] = Idle
  /\ o \in Op \ {"stop"}
  /\ req' = [req EXCEPT ![r] = [op |-> o, st |-> st, pc |-> "find", entity |-> NoEntity]]
  /\ UNCHANGED <<vars, row, wowza>>

\* findOne does not see a soft-deleted row.
FindOne(r) ==
  /\ req[r].pc = "find"
  /\ LET e == row[req[r].st] IN
       \/ e.deleted /\ Return(r)
       \/ ~e.deleted /\ Await(r, "found", e)
  /\ UNCHANGED <<vars, row, wowza>>

\* save writes every column of the entity that differs from the row, and
\* deletedAt is one of them: a soft-deleted row comes back.
Save(r) ==
  /\ req[r].pc = "save"
  /\ row' = [row EXCEPT ![req[r].st] = req[r].entity]
  /\ Return(r)
  /\ UNCHANGED <<vars, wowza>>

\* The database or Wowza fails at an await: the request ends there.
Fail(r) ==
  /\ req[r].pc \in {"find", "asked", "save", "softDelete"}
  /\ Return(r)
  /\ UNCHANGED <<vars, row, wowza>>

-----------------------------------------------------------------------------
(* The handlers, from their first await on.                                 *)

\* Mutant: the gate trusts the status column alone.
UpdatableByStatus(e, st) == e.status = "inactive"

\* update refuses an active, connecting or running stream.
Updatable(e, st) == e.status \notin {"active", "connecting"} /\ ~IsRunning(st)

\* Mutant: the update of a running stream restarts it.
UpdateAndRestart(r, c) ==
  /\ At(r, "update", "found")
  /\ \/ IsRunning(req[r].st) /\ \E ok \in BOOLEAN : RestartIngestion(req[r].st, ok)
     \/ ~IsRunning(req[r].st) /\ UNCHANGED vars
  /\ Await(r, "save", [req[r].entity EXCEPT !.conf = c])
  /\ UNCHANGED <<row, wowza>>

Update(r, c) ==
  /\ At(r, "update", "found")
  /\ LET e == req[r].entity IN
       \/ Updatable(e, req[r].st) /\ Await(r, "save", [e EXCEPT !.conf = c])
       \/ ~Updatable(e, req[r].st) /\ Return(r)
  /\ UNCHANGED <<vars, row, wowza>>

\* Mutant: remove asks the row, not the supervisor, whether to stop.
RemoveByStatus(r) ==
  LET st == req[r].st IN
  /\ At(r, "remove", "found")
  /\ \/ /\ req[r].entity.status = "active"
        /\ \/ StopIngestion(st) /\ Await(r, "softDelete", req[r].entity)
           \/ processes[st] = None /\ Return(r) /\ UNCHANGED vars
     \/ /\ req[r].entity.status # "active"
        /\ Await(r, "softDelete", req[r].entity)
        /\ UNCHANGED vars
  /\ UNCHANGED <<row, wowza>>

\* remove stops a running stream; stopIngestion throws when no process is
\* registered for it, and the request ends there.
Remove(r) ==
  LET st == req[r].st IN
  /\ At(r, "remove", "found")
  /\ \/ /\ IsRunning(st)
        /\ \/ StopIngestion(st) /\ Await(r, "softDelete", req[r].entity)
           \/ processes[st] = None /\ Return(r) /\ UNCHANGED vars
     \/ /\ ~IsRunning(st)
        /\ Await(r, "softDelete", req[r].entity)
        /\ UNCHANGED vars
  /\ UNCHANGED <<row, wowza>>

SoftDelete(r) ==
  /\ req[r].pc = "softDelete"
  /\ row' = [row EXCEPT ![req[r].st].deleted = TRUE]
  /\ Return(r)
  /\ UNCHANGED <<vars, wowza>>

\* startIngestion of the service: the supervisor starts or throws.
Start(r, ok) ==
  LET st == req[r].st
      e  == req[r].entity IN
  /\ At(r, "start", "found")
  /\ \/ /\ e.conf # None
        /\ StartIngestion(st, e.conf, ok)
        /\ Await(r, "save", [e EXCEPT !.status = "connecting"])
     \/ /\ e.conf = None \/ ~ffmpegAvailable \/ ~Startable(st)
        /\ Return(r)
        /\ UNCHANGED vars
  /\ UNCHANGED <<row, wowza>>

\* stopIngestion of the service calls the supervisor before it reads the row.
Stop(r, st) ==
  /\ req[r] = Idle
  /\ StopIngestion(st)
  /\ req' = [req EXCEPT ![r] = [op |-> "stop", st |-> st, pc |-> "find", entity |-> NoEntity]]
  /\ UNCHANGED <<row, wowza>>

StopFound(r) ==
  /\ At(r, "stop", "found")
  /\ Await(r, "save", [req[r].entity EXCEPT !.status = "inactive"])
  /\ UNCHANGED <<vars, row, wowza>>

\* syncStatusFromWowza: the answer of Wowza is on its way (404 counts as not
\* connected) ...
AskWowza(r) ==
  /\ At(r, "sync", "found")
  /\ Await(r, "asked", [req[r].entity EXCEPT
                          !.status = IF wowza[req[r].st] THEN "active" ELSE "inactive"])
  /\ UNCHANGED <<vars, row, wowza>>

\* Mutant: a reconnection that was given up counts as one.
ReconnectingOrGivenUp(st) ==
  states[st] # None /\ status[states[st]] \in {"reconnecting", "max_retries"}

Reconnecting(st) == states[st] # None /\ status[states[st]] = "reconnecting"

\* Mutant: a stream Wowza does not have gets the status ERROR.
SyncedWithError(e, st) ==
  IF e.status = "active" THEN "active" ELSE IF Reconnecting(st) THEN "connecting" ELSE "error"

Synced(e, st) ==
  IF e.status # "active" /\ Reconnecting(st) THEN "connecting" ELSE e.status

\* ... and has arrived.
WowzaAnswered(r) ==
  /\ At(r, "sync", "asked")
  /\ LET e == req[r].entity IN
       Await(r, "save", [e EXCEPT !.status = Synced(e, req[r].st)])
  /\ UNCHANGED <<vars, row, wowza>>

\* Wowza sees a publisher come, late, or go: ffmpeg, or a push for a row that
\* ffmpeg does not serve.
WowzaNotices(st) ==
  /\ \/ wowza[st]
     \/ \E s \in Sessions : stream[s] = st /\ task[s] \in {"live", "dying"}
     \/ row[st].conf = None
  /\ wowza' = [wowza EXCEPT ![st] = ~@]
  /\ UNCHANGED <<vars, row, req>>

Handler(r) ==
  \/ FindOne(r) \/ Save(r) \/ Fail(r) \/ SoftDelete(r)
  \/ \E c \in RowConfigs \cup {None} : Update(r, c)
  \/ Remove(r)
  \/ StopFound(r)
  \/ AskWowza(r) \/ WowzaAnswered(r)

\* The ingestion controller reaches the supervisor past the service.
Direct ==
  \/ \E st \in Streams, c \in Configs, ok \in BOOLEAN : StartIngestion(st, c, ok)
  \/ \E st \in Streams : StopIngestion(st)
  \/ \E st \in Streams, ok \in BOOLEAN : RestartIngestion(st, ok)

\* The server closes when the requests in flight have been answered.
Close == Shutdown /\ \A r \in Requests : req[r] = Idle

Supervise == CheckFFmpegAvailability \/ Close \/ \E s \in Sessions : Callback(s)

ServiceNext ==
  \/ \E r \in Requests :
       \/ \E st \in Streams : Stop(r, st) \/ \E o \in Op : Arrive(r, o, st)
       \/ \E ok \in BOOLEAN : Start(r, ok)
       \/ Handler(r)
  \/ (Direct \/ Supervise) /\ UNCHANGED serviceVars
  \/ \E st \in Streams : WowzaNotices(st)

ServiceSpec == ServiceInit /\ [][ServiceNext]_allVars

-----------------------------------------------------------------------------
\* However it is used, the service drives the supervisor only through its
\* operations, so what is proved of Ingestion holds of it.
UsesIngestion == Spec

\* What ffmpeg is given changes in the table only while the stream is
\* stopped: "No se puede modificar un stream activo. Detenerlo primero."
UpdateOnlyStopped ==
  [][\A st \in Streams : row'[st].conf # row[st].conf => ~IsRunning(st)]_allVars
=============================================================================
