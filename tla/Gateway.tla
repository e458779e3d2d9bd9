------------------------------- MODULE Gateway -------------------------------
(***************************************************************************)
(* The monitoring gateway, src/modules/gateway/streaming.gateway: sockets  *)
(* connect and subscribe to streams, and an interval polls every stream,   *)
(* synchronises its row with Wowza and tells the rooms what changed.       *)
(*                                                                         *)
(* The interval does not wait for the poll it started before, so polls can *)
(* overlap; within one poll the streams are processed concurrently.  The   *)
(* streams themselves (Wowza, table, ingestion) may change here at any     *)
(* moment and in any way, so nothing rests on how they do, which           *)
(* StreamService and Ingestion say.  Server status messages, alerts and    *)
(* ingestion events are left out: what is told of a status is followed.    *)
(***************************************************************************)
EXTENDS FiniteSets, Naturals

CONSTANTS Clients,   \* sockets
          Streams,   \* stream ids with a row
          Polls,     \* polls that can be in flight at once
          Status,    \* values of the status column
          PageLimit, \* rows findAll returns at most
          None       \* undefined

ASSUME GatewayAssumption ==
  /\ None \notin Status
  /\ IsFiniteSet(Streams)
  /\ PageLimit \in Nat

VARIABLES
  conn,               \* the socket: not there yet, open, closed
  validating,         \* sockets whose handleConnection awaits validateHandshake
  connectedClients,   \* this.connectedClients, keys
  subscribedStreams,  \* subscribedStreams of a connected client
  rooms,              \* the stream rooms a socket is in
  allStreams,         \* sockets in the room 'all_streams'
  answer,             \* a subscription's findOne: what it has read so far
  told,               \* the last status a socket was sent for a stream, and by whom
  polling,            \* whether the interval is set
  stage, seen,        \* where a poll is with a stream, and the status it found
  lastKnownStatus,    \* this.lastKnownStatus
  table,              \* the status column
  actual              \* the status syncStatusFromWowza would find

sockets == <<conn, validating, connectedClients>>
subscriptions == <<subscribedStreams, rooms, allStreams>>
polls == <<stage, seen>>
streams == <<table, actual>>
vars == <<sockets, subscriptions, answer, told, polling, polls, lastKnownStatus,
          streams>>

Untold == [status |-> None, by |-> "nobody"]
Told == [status : Status, by : {"subscription", "poll"}] \cup {Untold}

GatewayTypeOK ==
  /\ conn \in [Clients -> {"new", "open", "closed"}]
  /\ validating \subseteq Clients
  /\ connectedClients \subseteq Clients
  /\ subscribedStreams \in [Clients -> SUBSET Streams]
  /\ rooms \in [Clients -> SUBSET Streams]
  /\ allStreams \subseteq Clients
  /\ answer \in [Clients -> [Streams -> Status \cup {"none", "reading"}]]
  /\ told \in [Clients -> [Streams -> Told]]
  /\ polling \in BOOLEAN
  /\ stage \in [Polls -> [Streams -> {"idle", "listed", "asked", "saved"}]]
  /\ seen \in [Polls -> [Streams -> Status \cup {None}]]
  /\ lastKnownStatus \in [Streams -> Status \cup {None}]
  /\ table \in [Streams -> Status]
  /\ actual \in [Streams -> Status]

Init ==
  /\ conn = [c \in Clients |-> "new"]
  /\ validating = {}
  /\ connectedClients = {}
  /\ subscribedStreams = [c \in Clients |-> {}]
  /\ rooms = [c \in Clients |-> {}]
  /\ allStreams = {}
  /\ answer = [c \in Clients |-> [st \in Streams |-> "none"]]
  /\ told = [c \in Clients |-> [st \in Streams |-> Untold]]
  /\ polling = TRUE
  /\ stage = [p \in Polls |-> [st \in Streams |-> "idle"]]
  /\ seen = [p \in Polls |-> [st \in Streams |-> None]]
  /\ lastKnownStatus = [st \in Streams |-> None]
  /\ table \in [Streams -> Status]
  /\ actual = table

-----------------------------------------------------------------------------
(* Sockets.                                                                 *)

\* The socket is open and handleConnection waits for Redis.
Connect(c) ==
  /\ conn[c] = "new"
  /\ conn' = [conn EXCEPT ![c] = "open"]
  /\ validating' = validating \cup {c}
  /\ UNCHANGED <<connectedClients, subscriptions, answer, told, polling, polls,
                 lastKnownStatus, streams>>

\* Mutant: the client is not registered.
HandshakeForgotten(c) ==
  /\ c \in validating
  /\ validating' = validating \ {c}
  /\ UNCHANGED <<conn, connectedClients, subscriptions, answer, told, polling, polls,
                 lastKnownStatus, streams>>

\* The handshake is valid: the client is registered, open or not by now.
HandshakeValid(c) ==
  /\ c \in validating
  /\ validating' = validating \ {c}
  /\ connectedClients' = connectedClients \cup {c}
  /\ subscribedStreams' = [subscribedStreams EXCEPT ![c] = {}]
  /\ UNCHANGED <<conn, rooms, allStreams, answer, told, polling, polls, lastKnownStatus,
                 streams>>

\* What the socket loses when it closes; handleDisconnect drops its record.
Closed(c) ==
  /\ conn' = [conn EXCEPT ![c] = "closed"]
  /\ connectedClients' = connectedClients \ {c}
  /\ subscribedStreams' = [subscribedStreams EXCEPT ![c] = {}]
  /\ rooms' = [rooms EXCEPT ![c] = {}]
  /\ allStreams' = allStreams \ {c}
  /\ answer' = [answer EXCEPT ![c] = [st \in Streams |-> "none"]]
  /\ told' = [told EXCEPT ![c] = [st \in Streams |-> Untold]]
  /\ UNCHANGED <<polling, polls, lastKnownStatus, streams>>

HandshakeInvalid(c) ==
  /\ c \in validating
  /\ validating' = validating \ {c}
  /\ Closed(c)

Disconnect(c) ==
  /\ conn[c] = "open"
  /\ Closed(c)
  /\ UNCHANGED validating

-----------------------------------------------------------------------------
(* Subscriptions.                                                           *)

\* subscribe:stream, once its guard has let it through: it joins the room; the
\* record of the client is there only after the handshake.
Subscribe(c, st) ==
  /\ conn[c] = "open"
  /\ answer[c][st] = "none"
  /\ rooms' = [rooms EXCEPT ![c] = @ \cup {st}]
  /\ subscribedStreams' =
       [subscribedStreams EXCEPT ![c] = IF c \in connectedClients THEN @ \cup {st} ELSE @]
  /\ answer' = [answer EXCEPT ![c][st] = "reading"]
  /\ UNCHANGED <<sockets, allStreams, told, polling, polls, lastKnownStatus, streams>>

\* findOne reads the row, then asks Wowza for the rest of the answer.
ReadForAnswer(c, st) ==
  /\ answer[c][st] = "reading"
  /\ answer' = [answer EXCEPT ![c][st] = table[st]]
  /\ UNCHANGED <<sockets, subscriptions, told, polling, polls, lastKnownStatus, streams>>

Answer(c, st) ==
  /\ answer[c][st] \in Status
  /\ answer' = [answer EXCEPT ![c][st] = "none"]
  /\ told' = [told EXCEPT ![c][st] = [status |-> answer[c][st], by |-> "subscription"]]
  /\ UNCHANGED <<sockets, subscriptions, polling, polls, lastKnownStatus, streams>>

AnswerFails(c, st) ==
  /\ answer[c][st] = "reading"
  /\ answer' = [answer EXCEPT ![c][st] = "none"]
  /\ UNCHANGED <<sockets, subscriptions, told, polling, polls, lastKnownStatus, streams>>

\* A socket in neither room is told nothing more: what it knows is forgotten.
Unsubscribe(c, st) ==
  /\ conn[c] = "open"
  /\ st \in rooms[c]
  /\ rooms' = [rooms EXCEPT ![c] = @ \ {st}]
  /\ subscribedStreams' =
       [subscribedStreams EXCEPT ![c] = IF c \in connectedClients THEN @ \ {st} ELSE @]
  /\ told' = [told EXCEPT ![c][st] = IF c \in allStreams THEN @ ELSE Untold]
  /\ UNCHANGED <<sockets, allStreams, answer, polling, polls, lastKnownStatus, streams>>

SubscribeAll(c) ==
  /\ conn[c] = "open"
  /\ allStreams' = allStreams \cup {c}
  /\ UNCHANGED <<sockets, subscribedStreams, rooms, answer, told, polling, polls,
                 lastKnownStatus, streams>>

-----------------------------------------------------------------------------
(* Polling.                                                                 *)

Resting(p) == \A st \in Streams : stage[p][st] = "idle"

\* A tick of the interval: nothing without clients; findAll lists one page,
\* of every row if the page holds them all.
PollWowzaStatus(p) ==
  /\ polling
  /\ connectedClients # {}
  /\ Resting(p)
  /\ \E page \in SUBSET Streams :
       /\ Cardinality(page) =
            IF Cardinality(Streams) <= PageLimit THEN Cardinality(Streams) ELSE PageLimit
       /\ stage' = [stage EXCEPT ![p] =
                      [st \in Streams |-> IF st \in page THEN "listed" ELSE "idle"]]
  /\ UNCHANGED <<sockets, subscriptions, answer, told, polling, seen, lastKnownStatus,
                 streams>>

\* syncStatusFromWowza has the answer of Wowza ...
SyncAsks(p, st) ==
  /\ stage[p][st] = "listed"
  /\ stage' = [stage EXCEPT ![p][st] = "asked"]
  /\ seen' = [seen EXCEPT ![p][st] = actual[st]]
  /\ UNCHANGED <<sockets, subscriptions, answer, told, polling, lastKnownStatus, streams>>

\* ... and writes it.
SyncSaves(p, st) ==
  /\ stage[p][st] = "asked"
  /\ stage' = [stage EXCEPT ![p][st] = "saved"]
  /\ table' = [table EXCEPT ![st] = seen[p][st]]
  /\ UNCHANGED <<sockets, subscriptions, answer, told, polling, seen, lastKnownStatus,
                 actual>>

\* The failure of one stream ends its part of the poll only.
SyncFails(p, st) ==
  /\ stage[p][st] \in {"listed", "asked"}
  /\ stage' = [stage EXCEPT ![p][st] = "idle"]
  /\ seen' = [seen EXCEPT ![p][st] = None]
  /\ UNCHANGED <<sockets, subscriptions, answer, told, polling, lastKnownStatus, streams>>

\* What is emitted to the two rooms of a stream reaches these sockets.
Listening(c, st) == st \in rooms[c] \/ c \in allStreams

\* Mutant: the comparison is with the status column, not with what was told.
Compared(st) == table[st]

Previous(st) == lastKnownStatus[st]

\* The continuation after the sync of one stream.
Publish(p, st) ==
  /\ stage[p][st] = "saved"
  /\ LET v == seen[p][st]
         changed == Previous(st) # None /\ Previous(st) # v IN
       told' = [c \in Clients |-> [told[c] EXCEPT ![st] =
                  IF changed /\ Listening(c, st) THEN [status |-> v, by |-> "poll"] ELSE @]]
  /\ lastKnownStatus' = [lastKnownStatus EXCEPT ![st] = seen[p][st]]
  /\ stage' = [stage EXCEPT ![p][st] = "idle"]
  /\ seen' = [seen EXCEPT ![p][st] = None]
  /\ UNCHANGED <<sockets, subscriptions, answer, polling, streams>>

Shutdown ==
  /\ polling
  /\ polling' = FALSE
  /\ UNCHANGED <<sockets, subscriptions, answer, told, polls, lastKnownStatus, streams>>

-----------------------------------------------------------------------------
(* The streams.                                                             *)

\* A camera or an encoder comes or goes, as Wowza sees it.
StreamChanges(st) ==
  /\ \E v \in Status \ {actual[st]} : actual' = [actual EXCEPT ![st] = v]
  /\ UNCHANGED <<sockets, subscriptions, answer, told, polling, polls, lastKnownStatus,
                 table>>

\* A request of the stream service (starting, stopping) saves the row's status.
RowWritten(st) ==
  /\ \E v \in Status \ {table[st]} : table' = [table EXCEPT ![st] = v]
  /\ UNCHANGED <<sockets, subscriptions, answer, told, polling, polls, lastKnownStatus,
                 actual>>

Environment(st) == StreamChanges(st) \/ RowWritten(st)

Client(c) ==
  \/ Connect(c) \/ HandshakeValid(c) \/ HandshakeInvalid(c) \/ Disconnect(c)
  \/ SubscribeAll(c)
  \/ \E st \in Streams :
       \/ Subscribe(c, st) \/ Unsubscribe(c, st)
       \/ ReadForAnswer(c, st) \/ Answer(c, st) \/ AnswerFails(c, st)

Poll(p) ==
  \/ PollWowzaStatus(p)
  \/ \E st \in Streams :
       SyncAsks(p, st) \/ SyncSaves(p, st) \/ SyncFails(p, st) \/ Publish(p, st)

Next ==
  \/ \E c \in Clients : Client(c)
  \/ \E p \in Polls : Poll(p)
  \/ \E st \in Streams : Environment(st)
  \/ Shutdown

Spec == Init /\ [][Next]_vars

(* The interval fires again and again while it is set, awaits end, Redis    *)
(* answers, and neither findAll nor the sync of a stream fails for ever.    *)
Fairness ==
  /\ \A p \in Polls : WF_vars(PollWowzaStatus(p))
  /\ \A p \in Polls, st \in Streams :
       /\ WF_vars(SyncAsks(p, st) \/ SyncFails(p, st))
       /\ WF_vars(SyncSaves(p, st) \/ SyncFails(p, st))
       /\ SF_vars(SyncAsks(p, st))
       /\ SF_vars(SyncSaves(p, st))
       /\ WF_vars(Publish(p, st))
  /\ \A c \in Clients :
       /\ WF_vars(HandshakeValid(c) \/ HandshakeInvalid(c))
       /\ \A st \in Streams :
            /\ WF_vars(ReadForAnswer(c, st) \/ AnswerFails(c, st))
            /\ WF_vars(Answer(c, st))

FairSpec == Spec /\ Fairness

-----------------------------------------------------------------------------
\* A listener that heard of a change from a poll has heard of the last one:
\* however polls overlap, what it was told is what the gateway last knew.
PolledIsKnown ==
  \A c \in Clients, st \in Streams :
    Listening(c, st) /\ told[c][st].by = "poll" =>
      told[c][st].status = lastKnownStatus[st]

\* However closing, the handshake and subscriptions fall, the register follows
\* the sockets: an open socket whose handshake is over is registered, so that it
\* is polled for, and no record claims a stream whose room its socket is not in
\* (handleConnection, handleDisconnect, handleSubscribeStream).
RegisterFollowsSockets ==
  \A c \in Clients :
    /\ conn[c] = "open" /\ c \notin validating => c \in connectedClients
    /\ subscribedStreams[c] \subseteq rooms[c]
    /\ c \notin connectedClients => subscribedStreams[c] = {}

\* What makes the types and PolledIsKnown inductive: a poll that has asked has
\* a status, and only a listener holds what a poll has told it.
AskedIsSeen ==
  \A p \in Polls, st \in Streams :
    stage[p][st] \in {"asked", "saved"} => seen[p][st] \in Status

ToldIsListening ==
  \A c \in Clients, st \in Streams : told[c][st].by = "poll" => Listening(c, st)

GatewayInv ==
  GatewayTypeOK /\ AskedIsSeen /\ ToldIsListening /\ PolledIsKnown /\ RegisterFollowsSockets

\* While an authenticated client watches and a stream keeps its status, the
\* gateway gets to know that status, and no poll that saw an older one can
\* make it forget for good.
PolledWhileWatched ==
  \A c \in Clients, st \in Streams, v \in Status :
    <>[](polling /\ conn[c] = "open" /\ c \notin validating /\ actual[st] = v) =>
      <>[](lastKnownStatus[st] = v)
=============================================================================
