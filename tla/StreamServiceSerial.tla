-------------------------- MODULE StreamServiceSerial --------------------------
(***************************************************************************)
(* The stream service used serially by its operators: one request of theirs *)
(* at a time per stream, no call of the ingestion controller past the      *)
(* service, and a start is asked for when nothing of the stream can call   *)
(* back any more; what the service does with it comes awaits later.  The   *)
(* polls of the gateway, which synchronise every stream while a dashboard  *)
(* is connected, wait for nobody.                                          *)
(***************************************************************************)
EXTENDS StreamService

CONSTANT Pollers  \* the requests that are polls of the gateway

ASSUME PollersAssumption == Pollers \subseteq Requests

Operators == Requests \ Pollers

\* No request of an operator for st is in flight.
Alone(st) == \A r \in Operators : req[r].st # st

OperatorAsks(r, st) ==
  /\ Alone(st)
  /\ \/ Stop(r, st)
     \/ \E o \in Op : (o = "start" => Quiet(st)) /\ Arrive(r, o, st)

SerialServiceNext ==
  \/ \E r \in Operators, st \in Streams : OperatorAsks(r, st)
  \/ \E r \in Pollers, st \in Streams : Arrive(r, "sync", st)
  \/ \E r \in Requests : Handler(r) \/ \E ok \in BOOLEAN : Start(r, ok)
  \/ Supervise /\ UNCHANGED serviceVars
  \/ \E st \in Streams : WowzaNotices(st)

SerialServiceSpec == ServiceInit /\ [][SerialServiceNext]_allVars

(* A dashboard stays connected, so every stream is polled again and again;  *)
(* every query of a poll is answered or rejected, and not the same one is   *)
(* rejected for ever.                                                       *)
PollFairness ==
  /\ \A st \in Streams : SF_allVars(\E r \in Pollers : Arrive(r, "sync", st))
  /\ \A r \in Pollers :
       /\ WF_allVars(Handler(r))
       /\ SF_allVars(FindOne(r)) /\ SF_allVars(WowzaAnswered(r)) /\ SF_allVars(Save(r))

PolledServiceSpec == SerialServiceSpec /\ PollFairness

-----------------------------------------------------------------------------
\* Asked for serially, the service drives the supervisor serially: what was
\* true of a stream when a start came in still is when the row has been read,
\* and update, remove, stop and the polls neither start nor restart anything.
UsesIngestionSerially == SerialSpec

\* No ffmpeg publishes for a stream that has been removed.
RemovedIsQuiet ==
  \A s \in Sessions : task[s] = "live" => ~row[stream[s]].deleted

\* An ffmpeg that publishes runs with the configuration the row has, through
\* every update, sync and reconnection.
ConfigInForce ==
  \A s \in Sessions : task[s] = "live" => config[s] = row[stream[s]].conf

\* A stream that has stopped, and that nobody pushes to Wowza, can be updated
\* again in the end, though a crash of ffmpeg, a given-up reconnection, a failed
\* save or a poll with an old answer left "active" or "connecting" in its row:
\* syncStatusFromWowza settles on "inactive" whatever it was overtaken by.
StaysStopped(st) == up /\ ~IsRunning(st) /\ ~wowza[st] /\ ~row[st].deleted /\ Alone(st)

UpdatesUnlock ==
  \A st \in Streams : <>[]StaysStopped(st) => <>[]Updatable(row[st], st)

-----------------------------------------------------------------------------
(* The inductive invariant.                                                 *)

\* An operator's request is the only one for its stream; a poll only syncs.
OneRequest ==
  \A q, r \in Operators : req[q].st = req[r].st /\ req[q].st # None => q = r

PollersSync == \A r \in Pollers : req[r].op \in {"none", "sync"} /\ req[r].pc # "softDelete"

Holding == {"found", "asked", "save", "softDelete"}

\* A row that an operator's request has loaded is not removed meanwhile; and
\* where nobody polls it stays as loaded, but for what the handler changed.
LoadedIsThere ==
  \A r \in Requests :
    req[r].pc \in Holding =>
      ~req[r].entity.deleted /\ (r \in Operators => ~row[req[r].st].deleted)

LoadedIsCurrent ==
  \A r \in Requests :
    Pollers = {} /\ req[r].pc \in Holding /\ req[r].entity.conf # row[req[r].st].conf =>
      req[r].op = "update" /\ req[r].pc = "save"

\* The write of an update or a remove is due only while nothing is registered.
WriteOnlyStopped ==
  \A r \in Requests :
    At(r, "update", "save") \/ req[r].pc = "softDelete" => processes[req[r].st] = None

RegisteredHasRow ==
  \A st \in Streams :
    processes[st] # None =>
      ~row[st].deleted /\ (Pollers = {} => configs[st] = row[st].conf)

\* A stream whose start is on its way stays quiet.
StartsQuiet ==
  \A r \in Requests :
    req[r].op = "start" /\ req[r].pc \in {"find", "found"} => Quiet(req[r].st)

ServiceInv ==
  OneRequest /\ PollersSync /\ LoadedIsThere /\ LoadedIsCurrent /\ WriteOnlyStopped
  /\ RegisteredHasRow
=============================================================================
