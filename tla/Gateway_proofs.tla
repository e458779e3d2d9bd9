---------------------------- MODULE Gateway_proofs ----------------------------
(* Theorems about the monitoring gateway.                                    *)
EXTENDS Gateway, TLAPS

\* Every step keeps the types: one case per action.
LEMMA GatewayTypeStep == GatewayTypeOK /\ AskedIsSeen /\ [Next]_vars => GatewayTypeOK'
<1> SUFFICES ASSUME GatewayTypeOK, AskedIsSeen, [Next]_vars PROVE GatewayTypeOK'
  OBVIOUS
<1> USE GatewayAssumption
    DEF GatewayTypeOK, sockets, subscriptions, polls, streams
<1>1. ASSUME NEW c \in Clients, Connect(c) PROVE GatewayTypeOK'
  BY <1>1 DEF Connect
<1>2. ASSUME NEW c \in Clients, HandshakeValid(c) PROVE GatewayTypeOK'
  BY <1>2 DEF HandshakeValid
<1>3. ASSUME NEW c \in Clients, HandshakeInvalid(c) PROVE GatewayTypeOK'
  BY <1>3 DEF HandshakeInvalid, Closed, Told
<1>4. ASSUME NEW c \in Clients, Disconnect(c) PROVE GatewayTypeOK'
  BY <1>4 DEF Disconnect, Closed, Told
<1>5. ASSUME NEW c \in Clients, SubscribeAll(c) PROVE GatewayTypeOK'
  BY <1>5 DEF SubscribeAll
<1>6. ASSUME NEW c \in Clients, NEW st \in Streams, Subscribe(c, st) PROVE GatewayTypeOK'
  BY <1>6 DEF Subscribe
<1>7. ASSUME NEW c \in Clients, NEW st \in Streams, Unsubscribe(c, st) PROVE GatewayTypeOK'
  <2>1. Untold \in Told
    BY DEF Told
  <2> QED
    BY <1>7, <2>1 DEF Unsubscribe
<1>8. ASSUME NEW c \in Clients, NEW st \in Streams, ReadForAnswer(c, st)
      PROVE  GatewayTypeOK'
  <2>1. answer' = [answer EXCEPT ![c] = [@ EXCEPT ![st] = table[st]]]
    BY <1>8 DEF ReadForAnswer
  <2>2. [answer[c] EXCEPT ![st] = table[st]] \in [Streams -> Status \cup {"none", "reading"}]
    OBVIOUS
  <2>3. answer' \in [Clients -> [Streams -> Status \cup {"none", "reading"}]]
    BY <2>1, <2>2
  <2> QED
    BY <1>8, <2>3 DEF ReadForAnswer
<1>9. ASSUME NEW c \in Clients, NEW st \in Streams, AnswerFails(c, st)
      PROVE  GatewayTypeOK'
  BY <1>9 DEF AnswerFails
<1>10. ASSUME NEW c \in Clients, NEW st \in Streams, Answer(c, st) PROVE GatewayTypeOK'
  <2>1. [status |-> answer[c][st], by |-> "subscription"] \in Told
    BY <1>10 DEF Answer, Told
  <2> QED
    BY <1>10, <2>1 DEF Answer
<1>11. ASSUME NEW p \in Polls, PollWowzaStatus(p) PROVE GatewayTypeOK'
  BY <1>11 DEF PollWowzaStatus
<1>12. ASSUME NEW p \in Polls, NEW st \in Streams, SyncAsks(p, st)
       PROVE  GatewayTypeOK'
  <2>1. seen' = [seen EXCEPT ![p] = [@ EXCEPT ![st] = actual[st]]]
    BY <1>12 DEF SyncAsks
  <2>2. [seen[p] EXCEPT ![st] = actual[st]] \in [Streams -> Status \cup {None}]
    OBVIOUS
  <2>3. seen' \in [Polls -> [Streams -> Status \cup {None}]]
    BY <2>1, <2>2
  <2> QED
    BY <1>12, <2>3 DEF SyncAsks
<1>13. ASSUME NEW p \in Polls, NEW st \in Streams, SyncFails(p, st)
       PROVE  GatewayTypeOK'
  BY <1>13 DEF SyncFails
<1>14. ASSUME NEW st \in Streams, StreamChanges(st) PROVE GatewayTypeOK'
  BY <1>14 DEF StreamChanges
<1>15. ASSUME NEW st \in Streams, RowWritten(st) PROVE GatewayTypeOK'
  BY <1>15 DEF RowWritten
<1>16. CASE Shutdown
  BY <1>16 DEF Shutdown
<1>17. CASE UNCHANGED vars
  BY <1>17 DEF vars
<1>18. ASSUME NEW p \in Polls, NEW st \in Streams, SyncSaves(p, st)
       PROVE  GatewayTypeOK'
  BY <1>18 DEF SyncSaves, AskedIsSeen
<1>19. ASSUME NEW p \in Polls, NEW st \in Streams, Publish(p, st)
       PROVE  GatewayTypeOK'
  <2>1. seen[p][st] \in Status
    BY <1>19 DEF Publish, AskedIsSeen
  <2>2. [status |-> seen[p][st], by |-> "poll"] \in Told
    BY <2>1 DEF Told
  <2>3. told' \in [Clients -> [Streams -> Told]]
    BY <1>19, <2>2 DEF Publish
  <2>4. /\ lastKnownStatus' \in [Streams -> Status \cup {None}]
        /\ stage' \in [Polls -> [Streams -> {"idle", "listed", "asked", "saved"}]]
        /\ seen' \in [Polls -> [Streams -> Status \cup {None}]]
    BY <1>19 DEF Publish
  <2> QED
    BY <1>19, <2>3, <2>4 DEF Publish
<1> QED
  BY <1>1, <1>2, <1>3, <1>4, <1>5, <1>6, <1>7, <1>8, <1>9, <1>10, <1>11, <1>12, <1>13,
     <1>14, <1>15, <1>16, <1>17, <1>18, <1>19
  DEF Next, Client, Poll, Environment

\* A poll that has asked keeps the status it found until it publishes.
LEMMA AskedStep == GatewayTypeOK /\ AskedIsSeen /\ [Next]_vars => AskedIsSeen'
<1> SUFFICES ASSUME GatewayTypeOK, AskedIsSeen, [Next]_vars PROVE AskedIsSeen'
  OBVIOUS
<1> USE DEF GatewayTypeOK, AskedIsSeen, polls
<1>1. CASE UNCHANGED <<stage, seen>>
  BY <1>1
<1>2. ASSUME NEW p \in Polls, PollWowzaStatus(p) PROVE AskedIsSeen'
  BY <1>2 DEF PollWowzaStatus
<1>3. ASSUME NEW p \in Polls, NEW st \in Streams, SyncAsks(p, st) PROVE AskedIsSeen'
  BY <1>3 DEF SyncAsks
<1>4. ASSUME NEW p \in Polls, NEW st \in Streams, SyncSaves(p, st) PROVE AskedIsSeen'
  BY <1>4 DEF SyncSaves
<1>5. ASSUME NEW p \in Polls, NEW st \in Streams, SyncFails(p, st) PROVE AskedIsSeen'
  BY <1>5 DEF SyncFails
<1>6. ASSUME NEW p \in Polls, NEW st \in Streams, Publish(p, st) PROVE AskedIsSeen'
  BY <1>6 DEF Publish
<1>7. \/ UNCHANGED <<stage, seen>>
      \/ \E p \in Polls : Poll(p)
  <2>1. ASSUME NEW c \in Clients, Client(c) PROVE UNCHANGED <<stage, seen>>
    BY <2>1 DEF Client, Connect, HandshakeValid, HandshakeInvalid, Disconnect, Closed,
       SubscribeAll, Subscribe, Unsubscribe, ReadForAnswer, Answer, AnswerFails
  <2>2. ASSUME NEW st \in Streams, Environment(st)
        PROVE  UNCHANGED <<stage, seen>>
    BY <2>2 DEF Environment, StreamChanges, RowWritten
  <2> QED
    BY <2>1, <2>2 DEF Next, Shutdown, vars
<1> QED
  BY <1>1, <1>2, <1>3, <1>4, <1>5, <1>6, <1>7 DEF Poll

-----------------------------------------------------------------------------
\* What a poll told a listener stays what the gateway last knew.  Only
\* Publish writes either; who leaves its last room for a stream forgets it.
LEMMA ToldStep == GatewayInv /\ [Next]_vars => (ToldIsListening /\ PolledIsKnown)'
<1> SUFFICES ASSUME GatewayInv, [Next]_vars PROVE (ToldIsListening /\ PolledIsKnown)'
  OBVIOUS
<1> USE GatewayAssumption
    DEF GatewayInv, GatewayTypeOK, ToldIsListening, PolledIsKnown, Listening,
        sockets, subscriptions
<1> DEFINE Goal == (ToldIsListening /\ PolledIsKnown)'
<1>1. CASE UNCHANGED <<told, rooms, allStreams, lastKnownStatus>>
  BY <1>1
<1>2. ASSUME NEW c \in Clients, Closed(c) PROVE Goal
  BY <1>2 DEF Closed, Untold
<1>3. ASSUME NEW c \in Clients, SubscribeAll(c) PROVE Goal
  BY <1>3 DEF SubscribeAll
<1>4. ASSUME NEW c \in Clients, NEW st \in Streams, Subscribe(c, st) PROVE Goal
  BY <1>4 DEF Subscribe
<1>5. ASSUME NEW c \in Clients, NEW st \in Streams, Unsubscribe(c, st) PROVE Goal
  BY <1>5 DEF Unsubscribe, Untold
<1>6. ASSUME NEW c \in Clients, NEW st \in Streams, Answer(c, st) PROVE Goal
  BY <1>6 DEF Answer
<1>7. ASSUME NEW p \in Polls, NEW st \in Streams, Publish(p, st) PROVE Goal
  <2> DEFINE v == seen[p][st]
             changed == Previous(st) # None /\ Previous(st) # v
  <2>1. /\ UNCHANGED <<rooms, allStreams>>
        /\ lastKnownStatus' = [lastKnownStatus EXCEPT ![st] = v]
        /\ \A c \in Clients :
             told'[c] = [told[c] EXCEPT ![st] =
               IF changed /\ Listening(c, st) THEN [status |-> v, by |-> "poll"] ELSE @]
    BY <1>7 DEF Publish
  <2> SUFFICES ASSUME NEW c \in Clients, NEW s \in Streams, told'[c][s].by = "poll"
               PROVE  Listening(c, s) /\ told'[c][s].status = lastKnownStatus'[s]
    BY <2>1
  <2> HIDE DEF v, changed
  <2>5. told[c] \in [Streams -> Told]
    OBVIOUS
  <2>2. CASE s # st
    <3>1. told'[c][s] = told[c][s] /\ lastKnownStatus'[s] = lastKnownStatus[s]
      BY <2>1, <2>2, <2>5
    <3> QED
      BY <2>1, <3>1
  <2>3. CASE s = st /\ changed /\ Listening(c, st)
    <3>1. told'[c] = [told[c] EXCEPT ![st] = [status |-> v, by |-> "poll"]]
      BY <2>1, <2>3
    <3>2. told'[c][st] = [status |-> v, by |-> "poll"]
      BY <3>1, <2>5
    <3>3. told'[c][st].status = v /\ lastKnownStatus'[st] = v
      BY <2>1, <3>2
    <3> QED
      BY <2>3, <3>3
  <2>4. CASE s = st /\ ~(changed /\ Listening(c, st))
    <3>1. told'[c][st] = told[c][st] /\ lastKnownStatus'[st] = v
      BY <2>1, <2>4, <2>5
    <3>2. Listening(c, st) /\ told[c][st].status = lastKnownStatus[st]
      BY <3>1, <2>4
    <3>3. told[c][st].status # None
      BY <3>1, <2>4, <2>5 DEF Told, Untold
    <3>4. v = lastKnownStatus[st]
      BY <3>2, <3>3, <2>4 DEF Previous, changed
    <3> QED
      BY <2>1, <2>4, <3>1, <3>2, <3>4
  <2> QED
    BY <2>2, <2>3, <2>4
<1>8. ASSUME NEW c \in Clients, Client(c) PROVE Goal
  <2>1. CASE Connect(c) \/ HandshakeValid(c) \/ \E st \in Streams : ReadForAnswer(c, st) \/ AnswerFails(c, st)
    BY <2>1, <1>1 DEF Connect, HandshakeValid, ReadForAnswer, AnswerFails
  <2>2. CASE HandshakeInvalid(c) \/ Disconnect(c)
    BY <2>2, <1>2 DEF HandshakeInvalid, Disconnect
  <2> QED
    BY <1>8, <2>1, <2>2, <1>3, <1>4, <1>5, <1>6 DEF Client
<1>9. ASSUME NEW p \in Polls, Poll(p) PROVE Goal
  <2>1. CASE PollWowzaStatus(p) \/ \E st \in Streams : SyncAsks(p, st) \/ SyncSaves(p, st) \/ SyncFails(p, st)
    BY <2>1, <1>1 DEF PollWowzaStatus, SyncAsks, SyncSaves, SyncFails
  <2> QED
    BY <1>9, <2>1, <1>7 DEF Poll
<1>10. ASSUME NEW st \in Streams, Environment(st)
       PROVE  Goal
  BY <1>10, <1>1 DEF Environment, StreamChanges, RowWritten
<1>11. CASE Shutdown \/ UNCHANGED vars
  BY <1>11, <1>1 DEF Shutdown, vars
<1> QED
  BY <1>8, <1>9, <1>10, <1>11 DEF Next

-----------------------------------------------------------------------------
\* The register changes with the sockets and with subscriptions only.
LEMMA RegisterStep ==
  GatewayTypeOK /\ RegisterFollowsSockets /\ [Next]_vars => RegisterFollowsSockets'
<1> SUFFICES ASSUME GatewayTypeOK, RegisterFollowsSockets, [Next]_vars
             PROVE  RegisterFollowsSockets'
  OBVIOUS
<1> USE DEF GatewayTypeOK, RegisterFollowsSockets, sockets, subscriptions
<1>1. CASE UNCHANGED <<conn, validating, connectedClients, subscribedStreams, rooms>>
  BY <1>1
<1>2. ASSUME NEW c \in Clients, Connect(c) PROVE RegisterFollowsSockets'
  BY <1>2 DEF Connect
<1>3. ASSUME NEW c \in Clients, HandshakeValid(c) PROVE RegisterFollowsSockets'
  BY <1>3 DEF HandshakeValid
<1>4. ASSUME NEW c \in Clients, HandshakeInvalid(c) PROVE RegisterFollowsSockets'
  BY <1>4 DEF HandshakeInvalid, Closed
<1>5. ASSUME NEW c \in Clients, Disconnect(c) PROVE RegisterFollowsSockets'
  BY <1>5 DEF Disconnect, Closed
<1>6. ASSUME NEW c \in Clients, NEW st \in Streams, Subscribe(c, st)
      PROVE  RegisterFollowsSockets'
  BY <1>6 DEF Subscribe
<1>7. ASSUME NEW c \in Clients, NEW st \in Streams, Unsubscribe(c, st)
      PROVE  RegisterFollowsSockets'
  BY <1>7 DEF Unsubscribe
<1>8. ASSUME NEW c \in Clients, Client(c) PROVE RegisterFollowsSockets'
  <2>1. CASE SubscribeAll(c) \/ \E st \in Streams :
               ReadForAnswer(c, st) \/ Answer(c, st) \/ AnswerFails(c, st)
    BY <2>1, <1>1 DEF SubscribeAll, ReadForAnswer, Answer, AnswerFails
  <2> QED
    BY <1>8, <2>1, <1>2, <1>3, <1>4, <1>5, <1>6, <1>7 DEF Client
<1>9. ASSUME NEW p \in Polls, Poll(p) PROVE RegisterFollowsSockets'
  BY <1>9, <1>1 DEF Poll, PollWowzaStatus, SyncAsks, SyncSaves, SyncFails, Publish
<1>10. ASSUME NEW st \in Streams, Environment(st)
       PROVE  RegisterFollowsSockets'
  BY <1>10, <1>1 DEF Environment, StreamChanges, RowWritten
<1>11. CASE Shutdown \/ UNCHANGED vars
  BY <1>11, <1>1 DEF Shutdown, vars
<1> QED
  BY <1>8, <1>9, <1>10, <1>11 DEF Next

-----------------------------------------------------------------------------
LEMMA GatewayInvInit == Init => GatewayInv
<1> SUFFICES ASSUME Init PROVE GatewayInv
  OBVIOUS
<1> USE DEF Init
<1>1. GatewayTypeOK
  <2>1. Untold \in Told
    BY DEF Told
  <2> QED
    BY <2>1 DEF GatewayTypeOK
<1>2. AskedIsSeen
  BY DEF AskedIsSeen
<1>3. ToldIsListening /\ PolledIsKnown
  BY DEF ToldIsListening, PolledIsKnown, Untold
<1>4. RegisterFollowsSockets
  BY DEF RegisterFollowsSockets
<1> QED
  BY <1>1, <1>2, <1>3, <1>4 DEF GatewayInv

LEMMA GatewayInvStep == GatewayInv /\ [Next]_vars => GatewayInv'
BY GatewayTypeStep, AskedStep, ToldStep, RegisterStep DEF GatewayInv

LEMMA GatewayInvHolds == Spec => []GatewayInv
BY GatewayInvInit, GatewayInvStep, PTL DEF Spec

\* The gateway's maps, rooms and polls have their types in every reachable
\* state, whatever the sockets, polls and streams do.
THEOREM GatewayTypeCorrect == Spec => []GatewayTypeOK
<1>1. GatewayInv => GatewayTypeOK
  BY DEF GatewayInv
<1> QED
  BY <1>1, GatewayInvHolds, PTL

\* However polls overlap, what a listener heard last from a poll is what the
\* gateway last knew (pollWowzaStatus compares and stores without an await).
THEOREM PolledAlwaysKnown == Spec => []PolledIsKnown
<1>1. GatewayInv => PolledIsKnown
  BY DEF GatewayInv
<1> QED
  BY <1>1, GatewayInvHolds, PTL

\* An open socket whose handshake is over is registered, and no record claims a
\* room its socket is not in, however connections, handshakes, subscriptions and
\* closings interleave (handleConnection, handleDisconnect).
THEOREM RegisterAlwaysFollows == Spec => []RegisterFollowsSockets
<1>1. GatewayInv => RegisterFollowsSockets
  BY DEF GatewayInv
<1> QED
  BY <1>1, GatewayInvHolds, PTL
=============================================================================
