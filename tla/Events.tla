-------------------------------- MODULE Events --------------------------------
(***************************************************************************)
(* Events and the streams they are about: events.service, over the tables  *)
(* `events` and `event_streams`.                                           *)
(*                                                                         *)
(* A request starts with its first read, which its early returns depend    *)
(* on, and goes on await by await with the entity it has loaded.  Titles   *)
(* and places are data; the audit log and the author are left out.  close  *)
(* is an update.                                                           *)
(***************************************************************************)
CONSTANTS
  Events,    \* ids of events; one that nothing refers to is used again
  Streams,
  Handlers,  \* requests that can be in flight at once
  Nobody     \* no event, no entity, no alert

ASSUME EventsAssumption == Nobody \notin Events

VARIABLES
  event,    \* the table, with the links of each event
  streams,  \* the streams that are not removed
  news,     \* the alert a step sends to the dashboards
  request,  \* the requests in flight
  owed      \* the events that closed and that a request has still to tell of: no
            \* step reads it

eventVars == <<event, streams, news, request, owed>>

-----------------------------------------------------------------------------
EventStatus == {"open", "closed", "archived"}

Entity == [status : EventStatus, streams : SUBSET Streams]

EventRow == [status : EventStatus, streams : SUBSET Streams, deleted : BOOLEAN]

Announcement == [event : Events, what : {"created", "closed"}]

News == Announcement \cup {Nobody}

ASSUME NobodyIsNothing == Nobody \notin Entity \cup EventRow \cup Announcement

NoRequest == [op |-> "none", pc |-> "idle", event |-> Nobody, entity |-> Nobody,
              closes |-> FALSE, wanted |-> {}]

EventRequest ==
  [op : {"create", "update", "addStream", "removeStream", "remove"},
   pc : {"resolve", "save", "saved", "delete"}, event : Events \cup {Nobody},
   entity : Entity \cup {Nobody}, closes : BOOLEAN, wanted : SUBSET Streams] \cup {NoRequest}

EventsTypeOK ==
  /\ event \in [Events -> EventRow \cup {Nobody}]
  /\ streams \subseteq Streams
  /\ news \in News
  /\ request \in [Handlers -> EventRequest]
  /\ owed \subseteq Events

Found(e) == event[e] # Nobody /\ ~event[e].deleted

HasStatus(e, status) == Found(e) /\ event[e].status = status

\* What a request loads: the links to streams that are removed are not.
Loaded(e) == [status |-> event[e].status, streams |-> event[e].streams \cap streams]

EventsInit ==
  /\ event = [e \in Events |-> Nobody]
  /\ streams \in SUBSET Streams
  /\ news = Nobody
  /\ request = [r \in Handlers |-> NoRequest]
  /\ owed = {}

-----------------------------------------------------------------------------
StartRequest(r, o, pc, e, entity, closes, wanted) ==
  /\ request[r] = NoRequest
  /\ request' = [request EXCEPT ![r] =
       [op |-> o, pc |-> pc, event |-> e, entity |-> entity, closes |-> closes,
        wanted |-> wanted]]
  /\ news' = Nobody
  /\ UNCHANGED <<event, streams, owed>>

RequestEnds(r) == request' = [request EXCEPT ![r] = NoRequest]

\* The author of the event exists: it was the first read.
CreateEvent(r, status, wanted) ==
  StartRequest(r, "create", "resolve", Nobody, [status |-> status, streams |-> {}], FALSE, wanted)

\* Mutant: the closing of any event is announced.
UpdateEventAnnouncing(r, e, status) ==
  Found(e) /\ StartRequest(r, "update", "save", e, [Loaded(e) EXCEPT !.status = status],
                           status = "closed", {})

\* An update that leaves the streams alone, or close.
UpdateEvent(r, e, status) ==
  Found(e) /\ StartRequest(r, "update", "save", e, [Loaded(e) EXCEPT !.status = status],
                           event[e].status = "open" /\ status = "closed", {})

UpdateEventAndStreams(r, e, status, wanted) ==
  Found(e) /\ StartRequest(r, "update", "resolve", e, [Loaded(e) EXCEPT !.status = status],
                           event[e].status = "open" /\ status = "closed", wanted)

AddStream(r, e, s) ==
  Found(e) /\ StartRequest(r, "addStream", "resolve", e, Loaded(e), FALSE, {s})

RemoveStream(r, e, s) ==
  Found(e) /\ StartRequest(r, "removeStream", "save", e, [Loaded(e) EXCEPT !.streams = @ \ {s}],
                           FALSE, {})

RemoveEvent(r, e) ==
  Found(e) /\ StartRequest(r, "remove", "delete", e, Nobody, FALSE, {})

\* The streams of the request are looked for, all at once, and must all be
\* there.  addStream does not save what is linked already.
ResolveStreams(r) ==
  /\ request[r].pc = "resolve"
  /\ LET w == request[r].wanted
         linked == request[r].entity.streams
     IN IF w \subseteq streams /\ ~(request[r].op = "addStream" /\ w \subseteq linked)
        THEN request' = [request EXCEPT ![r].pc = "save", ![r].wanted = {}, ![r].entity.streams =
                           IF request[r].op = "addStream" THEN linked \cup w ELSE w]
        ELSE RequestEnds(r)
  /\ news' = Nobody
  /\ UNCHANGED <<event, streams, owed>>

IsNew(e) == event[e] = Nobody /\ \A r \in Handlers : request[r].event # e

Closing(e) == [event |-> e, what |-> "closed"]

\* save writes what differs from the row, deletedAt too, and the links: this
\* is the commit, and its answer is awaited.
SaveEvent(r, e) ==
  /\ request[r].pc = "save"
  /\ IF request[r].op = "create" THEN IsNew(e) ELSE e = request[r].event
  /\ event' = [event EXCEPT ![e] =
       [status |-> request[r].entity.status, streams |-> request[r].entity.streams,
        deleted |-> FALSE]]
  /\ request' = [request EXCEPT ![r].pc = "saved", ![r].event = e]
  /\ owed' = IF HasStatus(e, "open") /\ request[r].entity.status = "closed"
             THEN owed \cup {e} ELSE owed
  /\ news' = Nobody
  /\ UNCHANGED streams

Announced(r) ==
  IF request[r].op = "create" THEN [event |-> request[r].event, what |-> "created"]
  ELSE IF request[r].closes THEN Closing(request[r].event) ELSE Nobody

\* The save has answered.
EmitAlert(r) ==
  /\ request[r].pc = "saved"
  /\ news' = Announced(r)
  /\ owed' = {e \in owed : news' # Closing(e)}
  /\ RequestEnds(r)
  /\ UNCHANGED <<event, streams>>

SoftDeleteEvent(r) ==
  /\ request[r].pc = "delete"
  /\ event' = [event EXCEPT ![request[r].event].deleted = TRUE]
  /\ news' = Nobody
  /\ RequestEnds(r)
  /\ UNCHANGED <<streams, owed>>

\* A query fails; at "saved" the save did commit and its answer is lost, so
\* nobody is told.
RequestFails(r) ==
  /\ request[r] # NoRequest
  /\ news' = Nobody
  /\ owed' = IF request[r].pc = "saved" THEN owed \ {request[r].event} ELSE owed
  /\ RequestEnds(r)
  /\ UNCHANGED <<event, streams>>

\* Streams come and go meanwhile, and the server restarts.
StreamsChange ==
  /\ streams' \in SUBSET Streams
  /\ news' = Nobody
  /\ UNCHANGED <<event, request, owed>>

EventsCrash ==
  /\ request' = [r \in Handlers |-> NoRequest]
  /\ news' = Nobody
  /\ owed' = {}
  /\ UNCHANGED <<event, streams>>

-----------------------------------------------------------------------------
EditEvent(r, e) ==
  \/ \E status \in EventStatus, wanted \in SUBSET Streams :
       UpdateEvent(r, e, status) \/ UpdateEventAndStreams(r, e, status, wanted)
  \/ \E s \in Streams : AddStream(r, e, s) \/ RemoveStream(r, e, s)
  \/ RemoveEvent(r, e)

AnyRequest(r) ==
  \/ \E status \in EventStatus, wanted \in SUBSET Streams : CreateEvent(r, status, wanted)
  \/ ResolveStreams(r) \/ EmitAlert(r) \/ SoftDeleteEvent(r) \/ RequestFails(r)
  \/ \E e \in Events : SaveEvent(r, e)

EventsNext ==
  \/ \E r \in Handlers : AnyRequest(r) \/ \E e \in Events : EditEvent(r, e)
  \/ StreamsChange \/ EventsCrash

EventsSpec == EventsInit /\ [][EventsNext]_eventVars

\* No two requests edit the same event at a time.
EachSeriallyNext ==
  \/ \E r \in Handlers :
       \/ AnyRequest(r)
       \/ \E e \in Events : (\A q \in Handlers : request[q].event # e) /\ EditEvent(r, e)
  \/ StreamsChange \/ EventsCrash

EachSerially == EventsInit /\ [][EachSeriallyNext]_eventVars

-----------------------------------------------------------------------------
(* Properties, of events that are edited one request at a time.             *)

\* A request that has saved and will announce a closing.
Telling(e) ==
  \E r \in Handlers : request[r].pc = "saved" /\ request[r].event = e /\ request[r].closes

\* Whether to announce a closing is decided by what was loaded before two
\* awaits, and is right of the table: while an event that closed there has
\* yet to be told of, a request is about to, which a lost answer or a crash
\* ends; and what the dashboards hear of is such an event, still closed.
ClosingIsAnnounced ==
  /\ [](\A e \in Events : e \in owed <=> Telling(e))
  /\ [][\A e \in Events :
          news' = Closing(e) => e \in owed /\ HasStatus(e, "closed")]_eventVars

-----------------------------------------------------------------------------
(* The inductive invariant.                                                 *)

OneEachEvent ==
  \A r, q \in Handlers :
    request[r].event \in Events /\ request[r].event = request[q].event => r = q

SeesEvent(r) ==
  /\ \/ request[r].op \in {"update", "addStream", "removeStream", "remove"}
     \/ request[r].pc = "saved"
     => request[r].event \in Events /\ Found(request[r].event)
  /\ request[r].op \in {"create", "none"} => ~request[r].closes
  /\ request[r].op \in {"create", "none"} /\ request[r].pc # "saved" => request[r].event = Nobody
  /\ request[r].pc = "delete" <=> request[r].op = "remove"
  /\ request[r].pc \in {"resolve", "save"} =>
       /\ request[r].entity \in Entity
       /\ request[r].op # "create" =>
            (request[r].closes <=> /\ HasStatus(request[r].event, "open")
                                   /\ request[r].entity.status = "closed")
  /\ request[r].pc = "saved" /\ request[r].closes => HasStatus(request[r].event, "closed")

RequestsSee == \A r \in Handlers : SeesEvent(r)

EventsCore == EventsTypeOK /\ OneEachEvent /\ RequestsSee

OwedIsTold == \A e \in Events : e \in owed <=> Telling(e)

EventsInv == EventsCore /\ OwedIsTold
=============================================================================
