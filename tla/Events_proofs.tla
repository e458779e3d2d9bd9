---------------------------- MODULE Events_proofs ----------------------------
(***************************************************************************)
(* Theorems about events that are edited one request at a time.            *)
(***************************************************************************)
EXTENDS Events, TLAPS

-----------------------------------------------------------------------------
(* What the helpers do.                                                     *)

LEMMA NoRequestIs ==
  /\ NoRequest \in EventRequest
  /\ NoRequest.op = "none" /\ NoRequest.pc = "idle" /\ NoRequest.event = Nobody
  /\ ~NoRequest.closes
BY DEF NoRequest, EventRequest

LEMMA ActiveRequest ==
  ASSUME EventsTypeOK, NEW r \in Handlers, request[r].op # "none" \/ request[r].pc # "idle"
  PROVE  /\ request[r] # NoRequest
         /\ request[r] \in
              [op : {"create", "update", "addStream", "removeStream", "remove"},
               pc : {"resolve", "save", "saved", "delete"}, event : Events \cup {Nobody},
               entity : Entity \cup {Nobody}, closes : BOOLEAN, wanted : SUBSET Streams]
BY DEF EventsTypeOK, EventRequest, NoRequest

LEMMA StartRequestIs ==
  ASSUME EventsTypeOK, NEW r \in Handlers,
         NEW o \in {"create", "update", "addStream", "removeStream", "remove"},
         NEW pc \in {"resolve", "save", "delete"}, NEW e \in Events \cup {Nobody},
         NEW entity \in Entity \cup {Nobody}, NEW closes \in BOOLEAN,
         NEW wanted \in SUBSET Streams,
         StartRequest(r, o, pc, e, entity, closes, wanted)
  PROVE  /\ request' \in [Handlers -> EventRequest]
         /\ UNCHANGED <<event, streams, owed>> /\ news' = Nobody
         /\ request'[r].op = o /\ request'[r].pc = pc /\ request'[r].event = e
         /\ request'[r].entity = entity /\ request'[r].closes = closes
         /\ \A q \in Handlers : q # r => request'[q] = request[q]
<1> DEFINE new == [op |-> o, pc |-> pc, event |-> e, entity |-> entity, closes |-> closes,
                   wanted |-> wanted]
<1>1. /\ new \in EventRequest /\ new.op = o /\ new.pc = pc /\ new.event = e
      /\ new.entity = entity /\ new.closes = closes
  BY DEF EventRequest
<1>2. request' = [request EXCEPT ![r] = new] /\ UNCHANGED <<event, streams, owed>> /\ news' = Nobody
  BY DEF StartRequest
<1> HIDE DEF new
<1> QED
  BY <1>1, <1>2 DEF EventsTypeOK

LEMMA RequestEndsIs ==
  ASSUME EventsTypeOK, NEW r \in Handlers, RequestEnds(r)
  PROVE  /\ request' \in [Handlers -> EventRequest] /\ request'[r] = NoRequest
         /\ \A q \in Handlers : q # r => request'[q] = request[q]
BY NoRequestIs DEF RequestEnds, EventsTypeOK

LEMMA LoadedIs ==
  ASSUME EventsTypeOK, NEW e \in Events, Found(e)
  PROVE  Loaded(e) \in Entity /\ Loaded(e).status = event[e].status
BY DEF EventsTypeOK, Found, Loaded, Entity, EventRow

-----------------------------------------------------------------------------
(* The inductive invariant.                                                 *)

\* A step of `r` that tells nothing, neither before its save nor after it.
Quiet(r) ==
  /\ news' = Nobody /\ owed' = owed
  /\ request[r].pc # "saved" /\ request'[r].pc # "saved"
  /\ \A q \in Handlers : q # r => request'[q] = request[q]

\* While no event changes, what the requests have seen of them stays.
LEMMA SeesKept ==
  ASSUME EventsCore, event' \in [Events -> EventRow \cup {Nobody}],
         streams' \subseteq Streams, news' \in News, owed' \subseteq Events,
         request' \in [Handlers -> EventRequest],
         NEW e \in Events \cup {Nobody},
         \A x \in Events : x # e => event'[x] = event[x],
         NEW r, e # Nobody /\ event'[e] # event[e] =>
                  \A q \in Handlers : q # r => request[q].event # e,
         \A q \in Handlers : q # r => request'[q] = request[q] \/ request'[q] = NoRequest,
         r \in Handlers => SeesEvent(r)',
         r \in Handlers => \/ request'[r].event = Nobody
                           \/ request'[r].event = request[r].event
                           \/ \A q \in Handlers : request[q].event # request'[r].event
  PROVE  EventsCore'
<1>1. ASSUME NEW q \in Handlers, q # r PROVE SeesEvent(q)'
  <2>1. CASE request'[q] = NoRequest
    BY <2>1 DEF SeesEvent, NoRequest
  <2>2. CASE request'[q] = request[q] /\ request[q].event \in Events
    <3>1. event'[request[q].event] = event[request[q].event]
      BY <1>1, <2>2, EventsAssumption
    <3> QED
      BY <2>2, <3>1 DEF EventsCore, RequestsSee, SeesEvent, Found, HasStatus
  <2>3. CASE request'[q] = request[q] /\ request[q].event \notin Events
    <3>1. request[q].op \in {"create", "none"}
      BY <2>3 DEF EventsCore, RequestsSee, SeesEvent, EventsTypeOK, EventRequest, NoRequest
    <3>2. CASE request[q].op = "none"
      BY <2>3, <3>2 DEF EventsCore, RequestsSee, SeesEvent, EventsTypeOK, EventRequest, NoRequest
    <3>3. CASE request[q].op = "create"
      BY <2>3, <3>3 DEF EventsCore, RequestsSee, SeesEvent
    <3> QED
      BY <3>1, <3>2, <3>3
  <2> QED
    BY <1>1, <2>1, <2>2, <2>3
<1>2. OneEachEvent'
  BY NoRequestIs, EventsAssumption DEF EventsCore, OneEachEvent
<1>3. EventsTypeOK'
  BY DEF EventsTypeOK
<1> QED
  BY <1>1, <1>2, <1>3 DEF EventsCore, RequestsSee

LEMMA StartEventKeeps ==
  ASSUME EventsCore, NEW r \in Handlers,
         NEW o \in {"create", "update", "addStream", "removeStream", "remove"},
         NEW pc \in {"resolve", "save", "delete"}, NEW e \in Events \cup {Nobody},
         NEW entity \in Entity \cup {Nobody}, NEW closes \in BOOLEAN,
         NEW wanted \in SUBSET Streams,
         StartRequest(r, o, pc, e, entity, closes, wanted),
         IF o = "create" THEN e = Nobody
         ELSE e \in Events /\ Found(e) /\ \A q \in Handlers : request[q].event # e,
         pc = "delete" <=> o = "remove", pc # "delete" => entity \in Entity,
         o = "create" => ~closes,
         o \notin {"create", "remove"} =>
           (closes <=> HasStatus(e, "open") /\ entity.status = "closed")
  PROVE  EventsCore' /\ Quiet(r)
<1>1. /\ request' \in [Handlers -> EventRequest]
      /\ UNCHANGED <<event, streams, owed>> /\ news' = Nobody
      /\ request'[r].op = o /\ request'[r].pc = pc /\ request'[r].event = e
      /\ request'[r].entity = entity /\ request'[r].closes = closes
      /\ \A q \in Handlers : q # r => request'[q] = request[q]
  BY StartRequestIs DEF EventsCore
<1>2. SeesEvent(r)'
  BY <1>1 DEF SeesEvent, Found, HasStatus
<1>3. /\ event' \in [Events -> EventRow \cup {Nobody}] /\ streams' \subseteq Streams
      /\ news' \in News /\ owed' \subseteq Events
  BY <1>1 DEF EventsCore, EventsTypeOK, News
<1>4. EventsCore'
  BY <1>1, <1>2, <1>3, SeesKept
<1>5. request[r].pc # "saved"
  BY NoRequestIs DEF StartRequest
<1> QED
  BY <1>1, <1>4, <1>5 DEF Quiet

\* What a request on an event starts with.
LEMMA StartOnEventKeeps ==
  ASSUME EventsCore, NEW r \in Handlers, NEW e \in Events, Found(e),
         \A q \in Handlers : request[q].event # e,
         NEW o \in {"update", "addStream", "removeStream"}, NEW pc \in {"resolve", "save"},
         NEW entity \in Entity, NEW closes \in BOOLEAN, NEW wanted \in SUBSET Streams,
         StartRequest(r, o, pc, e, entity, closes, wanted),
         closes <=> HasStatus(e, "open") /\ entity.status = "closed"
  PROVE  EventsCore' /\ Quiet(r)
<1>1. /\ o \in {"create", "update", "addStream", "removeStream", "remove"}
      /\ o # "create" /\ o # "remove"
      /\ pc \in {"resolve", "save", "delete"} /\ pc # "delete"
      /\ e \in Events \cup {Nobody} /\ entity \in Entity \cup {Nobody}
  OBVIOUS
<1> QED
  BY <1>1, StartEventKeeps

LEMMA EditEventKeeps ==
  ASSUME EventsCore, NEW r \in Handlers, NEW e \in Events,
         \A q \in Handlers : request[q].event # e, EditEvent(r, e)
  PROVE  EventsCore' /\ Quiet(r)
<1>1. Found(e)
  BY DEF EditEvent, UpdateEvent, UpdateEventAndStreams, AddStream, RemoveStream, RemoveEvent,
         StartRequest
<1>2. Loaded(e) \in Entity /\ Loaded(e).status = event[e].status
  BY <1>1, LoadedIs DEF EventsCore
<1>3. ASSUME NEW status \in EventStatus, NEW wanted \in SUBSET Streams,
             UpdateEvent(r, e, status) \/ UpdateEventAndStreams(r, e, status, wanted)
      PROVE  EventsCore' /\ Quiet(r)
  <2> DEFINE entity == [Loaded(e) EXCEPT !.status = status]
             closes == event[e].status = "open" /\ status = "closed"
  <2>1. entity \in Entity /\ entity.status = status /\ closes \in BOOLEAN
    BY <1>2 DEF Entity
  <2>2. closes <=> HasStatus(e, "open") /\ entity.status = "closed"
    BY <1>1, <2>1 DEF HasStatus
  <2>3. \/ StartRequest(r, "update", "save", e, entity, closes, {})
        \/ StartRequest(r, "update", "resolve", e, entity, closes, wanted)
    BY <1>3 DEF UpdateEvent, UpdateEventAndStreams
  <2> HIDE DEF entity, closes
  <2>4. CASE StartRequest(r, "update", "save", e, entity, closes, {})
    BY <1>1, <2>1, <2>2, <2>4, StartOnEventKeeps
  <2>5. CASE StartRequest(r, "update", "resolve", e, entity, closes, wanted)
    BY <1>1, <2>1, <2>2, <2>5, StartOnEventKeeps
  <2> QED
    BY <2>3, <2>4, <2>5
<1>4. ASSUME NEW s \in Streams, AddStream(r, e, s) \/ RemoveStream(r, e, s)
      PROVE  EventsCore' /\ Quiet(r)
  <2> DEFINE entity == [Loaded(e) EXCEPT !.streams = @ \ {s}]
             never == FALSE
  <2>1. /\ entity \in Entity /\ entity.status = event[e].status
        /\ never \in BOOLEAN /\ {s} \in SUBSET Streams /\ {} \in SUBSET Streams
    BY <1>2 DEF Entity
  <2>2. /\ never <=> HasStatus(e, "open") /\ entity.status = "closed"
        /\ never <=> HasStatus(e, "open") /\ Loaded(e).status = "closed"
    BY <1>2, <2>1 DEF HasStatus
  <2> HIDE DEF entity
  <2>3. CASE AddStream(r, e, s)
    <3>1. StartRequest(r, "addStream", "resolve", e, Loaded(e), never, {s})
      BY <2>3 DEF AddStream
    <3> HIDE DEF never
    <3> QED
      BY <1>1, <1>2, <2>1, <2>2, <3>1, StartOnEventKeeps
  <2>4. CASE RemoveStream(r, e, s)
    <3>1. StartRequest(r, "removeStream", "save", e, entity, never, {})
      BY <2>4 DEF RemoveStream, entity
    <3> HIDE DEF never
    <3> QED
      BY <1>1, <2>1, <2>2, <3>1, StartOnEventKeeps
  <2> QED
    BY <1>4, <2>3, <2>4
<1>5. CASE RemoveEvent(r, e)
  <2> DEFINE never == FALSE
  <2>1. StartRequest(r, "remove", "delete", e, Nobody, never, {}) /\ never \in BOOLEAN
    BY <1>5 DEF RemoveEvent
  <2> HIDE DEF never
  <2> QED
    BY <1>1, <2>1, StartEventKeeps
<1> QED
  BY <1>1, <1>3, <1>4, <1>5 DEF EditEvent

LEMMA CreateEventKeeps ==
  ASSUME EventsCore, NEW r \in Handlers, NEW status \in EventStatus,
         NEW wanted \in SUBSET Streams, CreateEvent(r, status, wanted)
  PROVE  EventsCore' /\ Quiet(r)
<1> DEFINE entity == [status |-> status, streams |-> {}]
           never == FALSE
<1>1. StartRequest(r, "create", "resolve", Nobody, entity, never, wanted)
  BY DEF CreateEvent
<1>2. entity \in Entity /\ never \in BOOLEAN /\ ~never
  BY DEF Entity
<1> HIDE DEF entity, never
<1> QED
  BY <1>1, <1>2, StartEventKeeps

LEMMA ResolveKeeps ==
  ASSUME EventsCore, NEW r \in Handlers, ResolveStreams(r)
  PROVE  EventsCore' /\ Quiet(r)
<1>1. EventsTypeOK /\ SeesEvent(r) /\ request[r].pc = "resolve"
      /\ UNCHANGED <<event, streams, owed>> /\ news' = Nobody
  BY DEF EventsCore, RequestsSee, ResolveStreams
<1>2. /\ event' \in [Events -> EventRow \cup {Nobody}] /\ streams' \subseteq Streams
      /\ news' \in News /\ owed' \subseteq Events
  BY <1>1 DEF EventsTypeOK, News
<1>3. CASE RequestEnds(r)
  <2>1. request' \in [Handlers -> EventRequest] /\ request'[r] = NoRequest
        /\ \A q \in Handlers : q # r => request'[q] = request[q]
    BY <1>1, <1>3, RequestEndsIs
  <2>2. SeesEvent(r)'
    BY <2>1 DEF SeesEvent, NoRequest
  <2>3. EventsCore'
    BY <1>1, <1>2, <2>1, <2>2, NoRequestIs, SeesKept
  <2> QED
    BY <1>1, <2>1, <2>3, NoRequestIs DEF Quiet
<1>4. ASSUME NEW ss \in SUBSET Streams,
             request' = [request EXCEPT ![r].pc = "save", ![r].wanted = {},
                                        ![r].entity.streams = ss]
      PROVE  EventsCore' /\ Quiet(r)
  <2> DEFINE entity == [request[r].entity EXCEPT !.streams = ss]
             new == [request[r] EXCEPT !.pc = "save", !.wanted = {}, !.entity = entity]
  <2>1. entity \in Entity /\ entity.status = request[r].entity.status
    BY <1>1 DEF SeesEvent, Entity
  <2>2. request' = [request EXCEPT ![r] = new]
    BY <1>1, <1>4, ActiveRequest DEF EventsTypeOK
  <2> HIDE DEF entity
  <2>3. /\ new \in EventRequest /\ new.op = request[r].op /\ new.pc = "save"
        /\ new.event = request[r].event /\ new.entity = entity /\ new.closes = request[r].closes
    BY <1>1, <2>1, ActiveRequest DEF EventRequest
  <2> HIDE DEF new
  <2>4. /\ request' \in [Handlers -> EventRequest] /\ request'[r] = new
        /\ \A q \in Handlers : q # r => request'[q] = request[q]
    BY <1>1, <2>2, <2>3 DEF EventsTypeOK
  <2>5. SeesEvent(r)'
    BY <1>1, <2>1, <2>3, <2>4 DEF SeesEvent, Found, HasStatus
  <2>6. EventsCore'
    BY <1>1, <1>2, <2>3, <2>4, <2>5, SeesKept
  <2> QED
    BY <1>1, <2>3, <2>4, <2>6 DEF Quiet
<1>5. \/ RequestEnds(r)
      \/ \E ss \in SUBSET Streams :
           request' = [request EXCEPT ![r].pc = "save", ![r].wanted = {},
                                      ![r].entity.streams = ss]
  <2>1. request[r].wanted \in SUBSET Streams /\ request[r].entity.streams \in SUBSET Streams
    BY <1>1, ActiveRequest DEF SeesEvent, Entity
  <2> QED
    BY <2>1 DEF ResolveStreams
<1> QED
  BY <1>1, <1>3, <1>4, <1>5

\* A request that ends, and changes at most one event.
LEMMA EndKeeps ==
  ASSUME EventsCore, NEW r \in Handlers, RequestEnds(r), news' \in News, owed' \subseteq Events,
         event' \in [Events -> EventRow \cup {Nobody}], streams' \subseteq Streams,
         NEW e \in Events \cup {Nobody},
         \A x \in Events : x # e => event'[x] = event[x],
         e # Nobody /\ event'[e] # event[e] =>
           \A q \in Handlers : q # r => request[q].event # e
  PROVE  /\ EventsCore' /\ request'[r] = NoRequest
         /\ \A q \in Handlers : q # r => request'[q] = request[q]
<1>1. request' \in [Handlers -> EventRequest] /\ request'[r] = NoRequest
      /\ \A q \in Handlers : q # r => request'[q] = request[q]
  BY RequestEndsIs DEF EventsCore
<1>2. SeesEvent(r)'
  BY <1>1 DEF SeesEvent, NoRequest
<1>3. EventsCore'
  BY <1>1, <1>2, NoRequestIs, SeesKept
<1> QED
  BY <1>1, <1>3

\* What a commit does to the table and to its request.
LEMMA SaveEventIs ==
  ASSUME EventsCore, NEW r \in Handlers, NEW e \in Events, SaveEvent(r, e)
  PROVE  /\ EventsCore' /\ request[r].pc = "save" /\ request'[r].pc = "saved"
         /\ request'[r].event = e /\ request'[r].closes = request[r].closes
         /\ \A q \in Handlers : q # r => request'[q] = request[q] /\ request[q].event # e
         /\ request[r].closes <=> HasStatus(e, "open") /\ request[r].entity.status = "closed"
<1> DEFINE row == [status |-> request[r].entity.status, streams |-> request[r].entity.streams,
                   deleted |-> FALSE]
           new == [request[r] EXCEPT !.pc = "saved", !.event = e]
<1>1. /\ EventsTypeOK /\ SeesEvent(r) /\ request[r].pc = "save" /\ news' = Nobody
      /\ UNCHANGED streams /\ event' = [event EXCEPT ![e] = row]
      /\ owed' \in {owed, owed \cup {e}}
      /\ request' = [request EXCEPT ![r].pc = "saved", ![r].event = e]
  BY DEF EventsCore, RequestsSee, SaveEvent
<1>2. row \in EventRow /\ ~row.deleted /\ row.status = request[r].entity.status
  BY <1>1 DEF SeesEvent, Entity, EventRow
<1>3. /\ new \in EventRequest /\ new.op = request[r].op /\ new.pc = "saved"
      /\ new.event = e /\ new.closes = request[r].closes
  BY <1>1, ActiveRequest DEF EventRequest
<1>4. request' = [request EXCEPT ![r] = new]
  BY <1>1, ActiveRequest DEF EventsTypeOK
<1> HIDE DEF row, new
<1>5. /\ event' \in [Events -> EventRow \cup {Nobody}] /\ event'[e] = row
      /\ \A x \in Events : x # e => event'[x] = event[x]
  BY <1>1, <1>2 DEF EventsTypeOK
<1>6. /\ request' \in [Handlers -> EventRequest] /\ request'[r] = new
      /\ \A q \in Handlers : q # r => request'[q] = request[q]
  BY <1>1, <1>3, <1>4 DEF EventsTypeOK
<1>7. /\ \A q \in Handlers : q # r => request[q].event # e
      /\ request[r].closes <=> HasStatus(e, "open") /\ request[r].entity.status = "closed"
      /\ request[r].event = e \/ \A q \in Handlers : request[q].event # e
  <2>1. CASE request[r].op = "create"
    <3>1. event[e] = Nobody /\ \A q \in Handlers : request[q].event # e
      BY <2>1 DEF SaveEvent, IsNew
    <3> QED
      BY <1>1, <2>1, <3>1 DEF SeesEvent, HasStatus, Found
  <2>2. CASE request[r].op # "create"
    <3>1. e = request[r].event
      BY <2>2 DEF SaveEvent
    <3>2. \A q \in Handlers : q # r => request[q].event # e
      BY <3>1 DEF EventsCore, OneEachEvent
    <3> QED
      BY <1>1, <2>2, <3>1, <3>2 DEF SeesEvent
  <2> QED
    BY <2>1, <2>2
<1>8. Found(e)' /\ (request[r].closes => HasStatus(e, "closed")')
  BY <1>2, <1>5, <1>7, NobodyIsNothing DEF Found, HasStatus
<1>9. SeesEvent(r)'
  <2>1. request[r].op # "none" /\ request[r].op # "remove"
    BY <1>1, ActiveRequest DEF SeesEvent
  <2> QED
    BY <1>1, <1>3, <1>6, <1>8, <2>1 DEF SeesEvent
<1>10. /\ streams' \subseteq Streams /\ news' \in News /\ owed' \subseteq Events
       /\ e \in Events \cup {Nobody}
  BY <1>1 DEF EventsTypeOK, News
<1>11. EventsCore'
  BY <1>3, <1>5, <1>6, <1>7, <1>9, <1>10, SeesKept
<1> QED
  BY <1>1, <1>3, <1>6, <1>7, <1>11

LEMMA EmitAlertIs ==
  ASSUME EventsCore, NEW r \in Handlers, EmitAlert(r)
  PROVE  /\ EventsCore' /\ request[r].pc = "saved" /\ request'[r] = NoRequest
         /\ \A q \in Handlers : q # r => request'[q] = request[q]
         /\ request[r].event \in Events
         /\ \A x \in Events : news' = Closing(x) <=> x = request[r].event /\ request[r].closes
         /\ request[r].closes => HasStatus(request[r].event, "closed")
<1>1. /\ EventsTypeOK /\ SeesEvent(r) /\ request[r].pc = "saved" /\ RequestEnds(r)
      /\ UNCHANGED <<event, streams>> /\ news' = Announced(r) /\ owed' \subseteq owed
  BY DEF EventsCore, RequestsSee, EmitAlert
<1>2. /\ request[r].event \in Events /\ (request[r].op = "create" => ~request[r].closes)
      /\ request[r].closes => HasStatus(request[r].event, "closed")
  BY <1>1 DEF SeesEvent
<1>3. news' \in News
  BY <1>1, <1>2 DEF Announced, Closing, News, Announcement
<1>4. \A x \in Events : news' = Closing(x) <=> x = request[r].event /\ request[r].closes
  <2>1. \A x \in Events : Closing(x) # Nobody
    BY NobodyIsNothing DEF Announcement, Closing
  <2> QED
    BY <1>1, <1>2, <2>1 DEF Announced, Closing
<1>5. EventsCore' /\ request'[r] = NoRequest /\ \A q \in Handlers : q # r => request'[q] = request[q]
  BY <1>1, <1>3, EndKeeps DEF EventsTypeOK
<1> QED
  BY <1>1, <1>2, <1>4, <1>5

LEMMA SoftDeleteEventKeeps ==
  ASSUME EventsCore, NEW r \in Handlers, SoftDeleteEvent(r)
  PROVE  EventsCore' /\ Quiet(r)
<1> DEFINE e == request[r].event
           row == [event[e] EXCEPT !.deleted = TRUE]
<1>1. EventsTypeOK /\ SeesEvent(r) /\ request[r].pc = "delete" /\ news' = Nobody
      /\ UNCHANGED <<streams, owed>> /\ RequestEnds(r)
      /\ event' = [event EXCEPT ![request[r].event].deleted = TRUE]
  BY DEF EventsCore, RequestsSee, SoftDeleteEvent
<1>2. e \in Events /\ Found(e)
  BY <1>1 DEF SeesEvent
<1>3. \A q \in Handlers : q # r => request[q].event # e
  BY <1>2 DEF EventsCore, OneEachEvent
<1> HIDE DEF e
<1>4. row \in EventRow /\ row.deleted
  BY <1>1, <1>2 DEF EventsTypeOK, Found, EventRow
<1>5. event' = [event EXCEPT ![e] = row]
  BY <1>1 DEF e
<1> HIDE DEF row
<1>6. /\ event' \in [Events -> EventRow \cup {Nobody}] /\ event'[e] = row
      /\ \A x \in Events : x # e => event'[x] = event[x]
  BY <1>1, <1>2, <1>4, <1>5 DEF EventsTypeOK
<1>7. /\ news' \in News /\ streams' \subseteq Streams /\ owed' \subseteq Events
      /\ e \in Events \cup {Nobody}
  BY <1>1, <1>2 DEF EventsTypeOK, News
<1>8. /\ EventsCore' /\ request'[r] = NoRequest
      /\ \A q \in Handlers : q # r => request'[q] = request[q]
  BY <1>1, <1>3, <1>6, <1>7, EndKeeps
<1> QED
  BY <1>1, <1>8, NoRequestIs DEF Quiet

LEMMA RequestFailsIs ==
  ASSUME EventsCore, NEW r \in Handlers, RequestFails(r)
  PROVE  /\ EventsCore' /\ request'[r] = NoRequest /\ news' = Nobody
         /\ \A q \in Handlers : q # r => request'[q] = request[q]
<1>1. RequestEnds(r) /\ event' = event /\ streams' = streams /\ news' = Nobody
      /\ owed' \subseteq owed
  BY DEF RequestFails
<1>2. /\ news' \in News /\ streams' \subseteq Streams /\ owed' \subseteq Events
      /\ event' \in [Events -> EventRow \cup {Nobody}]
  BY <1>1 DEF EventsCore, EventsTypeOK, News
<1> QED
  BY <1>1, <1>2, EndKeeps

LEMMA EventsInitIs == EventsInit => EventsInv
<1> SUFFICES ASSUME EventsInit PROVE EventsInv
  OBVIOUS
<1>1. EventsTypeOK
  BY NoRequestIs DEF EventsInit, EventsTypeOK, News
<1>2. \A r \in Handlers : request[r] = NoRequest
  BY DEF EventsInit
<1>3. OneEachEvent
  BY <1>2, NoRequestIs, EventsAssumption DEF OneEachEvent
<1>4. RequestsSee
  BY <1>2 DEF RequestsSee, SeesEvent, NoRequest
<1>5. OwedIsTold
  BY <1>2, NoRequestIs DEF OwedIsTold, Telling, EventsInit
<1> QED
  BY <1>1, <1>3, <1>4, <1>5 DEF EventsInv, EventsCore

LEMMA CrashKeeps == EventsInv /\ EventsCrash => EventsInv' /\ news' = Nobody
<1> SUFFICES ASSUME EventsInv, EventsCrash PROVE EventsInv' /\ news' = Nobody
  OBVIOUS
<1>1. EventsTypeOK' /\ news' = Nobody
  BY NoRequestIs DEF EventsInv, EventsCore, EventsTypeOK, EventsCrash, News
<1>2. \A r \in Handlers : request'[r] = NoRequest
  BY DEF EventsCrash
<1>3. OneEachEvent'
  BY <1>2, NoRequestIs, EventsAssumption DEF OneEachEvent
<1>4. RequestsSee'
  BY <1>2 DEF RequestsSee, SeesEvent, NoRequest
<1>5. OwedIsTold'
  BY <1>2, NoRequestIs DEF OwedIsTold, Telling, EventsCrash
<1> QED
  BY <1>1, <1>3, <1>4, <1>5 DEF EventsInv, EventsCore

-----------------------------------------------------------------------------
(* What the dashboards are told, and are owed.                              *)

\* What a step tells of has closed, and was owed.
EventStep ==
  \A e \in Events : news' = Closing(e) => e \in owed /\ HasStatus(e, "closed")

LEMMA NothingTold == ASSUME news' = Nobody PROVE EventStep
BY NobodyIsNothing DEF EventStep, Closing, Announcement

LEMMA QuietStep ==
  ASSUME EventsInv, EventsCore', NEW r \in Handlers, Quiet(r)
  PROVE  EventsInv' /\ EventStep
<1>1. OwedIsTold'
  <2>1. \A e \in Events : Telling(e)' <=> Telling(e)
    BY DEF Quiet, Telling
  <2> QED
    BY <2>1 DEF EventsInv, OwedIsTold, Quiet
<1> QED
  BY <1>1, NothingTold DEF EventsInv, Quiet

\* A commit that closes an event owes it to the dashboards, and is about to
\* tell; no other request tells of it.
LEMMA SaveStep ==
  ASSUME EventsInv, NEW r \in Handlers, NEW e \in Events, SaveEvent(r, e)
  PROVE  EventsInv' /\ EventStep
<1>1. EventsCore
  BY DEF EventsInv
<1>2. /\ EventsCore' /\ request[r].pc = "save" /\ request'[r].pc = "saved"
      /\ request'[r].event = e /\ request'[r].closes = request[r].closes
      /\ \A q \in Handlers : q # r => request'[q] = request[q] /\ request[q].event # e
      /\ request[r].closes <=> HasStatus(e, "open") /\ request[r].entity.status = "closed"
  BY <1>1, SaveEventIs
<1>3. news' = Nobody /\ owed' = IF request[r].closes THEN owed \cup {e} ELSE owed
  BY <1>2 DEF SaveEvent
<1>4. ~Telling(e) /\ (Telling(e)' <=> request[r].closes)
  BY <1>2 DEF Telling
<1>5. \A x \in Events : x # e => (Telling(x)' <=> Telling(x))
  BY <1>2 DEF Telling
<1>6. OwedIsTold'
  BY <1>3, <1>4, <1>5 DEF EventsInv, OwedIsTold
<1> QED
  BY <1>2, <1>3, <1>6, NothingTold DEF EventsInv

LEMMA EmitStep ==
  ASSUME EventsInv, NEW r \in Handlers, EmitAlert(r)
  PROVE  EventsInv' /\ EventStep
<1>1. EventsCore /\ OwedIsTold
  BY DEF EventsInv
<1>2. /\ EventsCore' /\ request[r].pc = "saved" /\ request'[r] = NoRequest
      /\ \A q \in Handlers : q # r => request'[q] = request[q]
      /\ request[r].event \in Events
      /\ \A x \in Events : news' = Closing(x) <=> x = request[r].event /\ request[r].closes
      /\ request[r].closes => HasStatus(request[r].event, "closed")
  BY <1>1, EmitAlertIs
<1>3. \A x \in Events : x \in owed' <=> x \in owed /\ news' # Closing(x)
  BY DEF EmitAlert
<1>4. \A q \in Handlers : q # r => request[q].event # request[r].event
  BY <1>1, <1>2 DEF EventsCore, OneEachEvent
<1>5. \A x \in Events :
        IF x = request[r].event THEN (Telling(x) <=> request[r].closes) /\ ~Telling(x)'
                                ELSE Telling(x)' <=> Telling(x)
  BY <1>2, <1>4, NoRequestIs DEF Telling
<1>6. OwedIsTold'
  BY <1>1, <1>2, <1>3, <1>5 DEF OwedIsTold
<1>7. EventStep
  BY <1>1, <1>2, <1>5 DEF EventStep, OwedIsTold
<1> QED
  BY <1>2, <1>6, <1>7 DEF EventsInv

LEMMA FailStep ==
  ASSUME EventsInv, NEW r \in Handlers, RequestFails(r)
  PROVE  EventsInv' /\ EventStep
<1>1. EventsCore /\ OwedIsTold /\ SeesEvent(r)
  BY DEF EventsInv, EventsCore, RequestsSee
<1>2. /\ EventsCore' /\ request'[r] = NoRequest /\ news' = Nobody
      /\ \A q \in Handlers : q # r => request'[q] = request[q]
  BY <1>1, RequestFailsIs
<1>3. owed' = IF request[r].pc = "saved" THEN owed \ {request[r].event} ELSE owed
  BY DEF RequestFails
<1>4. OwedIsTold'
  <2>1. CASE request[r].pc = "saved"
    <3>1. /\ request[r].event \in Events
          /\ \A q \in Handlers : q # r => request[q].event # request[r].event
      BY <1>1, <2>1 DEF SeesEvent, EventsCore, OneEachEvent
    <3>2. \A x \in Events :
            IF x = request[r].event THEN ~Telling(x)' ELSE Telling(x)' <=> Telling(x)
      BY <1>2, <3>1, NoRequestIs DEF Telling
    <3> QED
      BY <1>1, <1>3, <2>1, <3>2 DEF OwedIsTold
  <2>2. CASE request[r].pc # "saved"
    <3>1. \A x \in Events : Telling(x)' <=> Telling(x)
      BY <1>2, <2>2, NoRequestIs DEF Telling
    <3> QED
      BY <1>1, <1>3, <2>2, <3>1 DEF OwedIsTold
  <2> QED
    BY <2>1, <2>2
<1> QED
  BY <1>2, <1>4, NothingTold DEF EventsInv

LEMMA StepsKeep ==
  ASSUME EventsInv, [EachSeriallyNext]_eventVars
  PROVE  EventsInv' /\ [EventStep]_eventVars
<1>1. CASE UNCHANGED eventVars
  <2>1. EventsInv'
    BY <1>1 DEF EventsInv, EventsCore, EventsTypeOK, OneEachEvent, RequestsSee, SeesEvent, Found,
                HasStatus, OwedIsTold, Telling, eventVars
  <2> QED
    BY <1>1, <2>1
<1>2. ASSUME NEW r \in Handlers, NEW e \in Events,
             \A q \in Handlers : request[q].event # e, EditEvent(r, e)
      PROVE  EventsInv' /\ EventStep
  BY <1>2, EditEventKeeps, QuietStep DEF EventsInv
<1>3. ASSUME NEW r \in Handlers, AnyRequest(r) PROVE EventsInv' /\ EventStep
  <2>1. ASSUME NEW status \in EventStatus, NEW wanted \in SUBSET Streams,
               CreateEvent(r, status, wanted)
        PROVE  EventsInv' /\ EventStep
    BY <2>1, CreateEventKeeps, QuietStep DEF EventsInv
  <2>2. CASE ResolveStreams(r)
    BY <2>2, ResolveKeeps, QuietStep DEF EventsInv
  <2>3. CASE SoftDeleteEvent(r)
    BY <2>3, SoftDeleteEventKeeps, QuietStep DEF EventsInv
  <2> QED
    BY <1>3, <2>1, <2>2, <2>3, FailStep, EmitStep, SaveStep DEF AnyRequest
<1>4. CASE StreamsChange
  <2>1. UNCHANGED <<event, request, owed>> /\ streams' \subseteq Streams /\ news' = Nobody
    BY <1>4 DEF StreamsChange
  <2>2. EventsInv'
    BY <2>1 DEF EventsInv, EventsCore, EventsTypeOK, OneEachEvent, RequestsSee, SeesEvent, Found,
                HasStatus, OwedIsTold, Telling, News
  <2> QED
    BY <2>1, <2>2, NothingTold
<1>5. CASE EventsCrash
  BY <1>5, CrashKeeps, NothingTold
<1> QED
  BY <1>1, <1>2, <1>3, <1>4, <1>5 DEF EachSeriallyNext

LEMMA EventsInvariant == EachSerially => []EventsInv
<1>1. EventsInv /\ [EachSeriallyNext]_eventVars => EventsInv'
  BY StepsKeep
<1> QED
  BY <1>1, EventsInitIs, PTL DEF EachSerially

-----------------------------------------------------------------------------
(* The theorems.                                                            *)

\* The table, the alert and the requests of events.service keep their types.
THEOREM EventsTypes == EachSerially => []EventsTypeOK
<1>1. EventsInv => EventsTypeOK
  BY DEF EventsInv, EventsCore
<1> QED
  BY <1>1, EventsInvariant, PTL

\* What update concluded from the row it loaded is right of the table two
\* awaits later: a closing that the table saw is about to be told of until it
\* is, or until its request is lost, and nothing else is told of as closed.
THEOREM ClosingsAreAnnounced == EachSerially => ClosingIsAnnounced
<1>1. EventsInv => \A e \in Events : e \in owed <=> Telling(e)
  BY DEF EventsInv, OwedIsTold
<1>2. EventsInv /\ [EachSeriallyNext]_eventVars =>
        [\A e \in Events : news' = Closing(e) => e \in owed /\ HasStatus(e, "closed")]_eventVars
  BY StepsKeep DEF EventStep
<1> QED
  BY <1>1, <1>2, EventsInvariant, PTL DEF EachSerially, ClosingIsAnnounced
=============================================================================
