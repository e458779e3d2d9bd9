--------------------------------- MODULE Wowza ---------------------------------
(***************************************************************************)
(* The client of Wowza and the cache of its answers: wowza.service, over   *)
(* getOrSet and invalidate of redis.service.                               *)
(*                                                                         *)
(* The servers and the cameras are not under src/.  A call goes on await   *)
(* by await; its answer is the set of streams that come in.                *)
(***************************************************************************)
CONSTANTS
  Hosts,    \* the active servers, and the one of the environment
  Env,      \* the server that the configuration names
  Names,    \* names of streams
  Callers,  \* calls that can be in flight at once
  Ticks,    \* those made by the synchronization of devices
  Nil

ASSUME WowzaAssumption ==
  /\ Env \in Hosts
  /\ Nil \notin Hosts \cup Names
  /\ Ticks \subseteq Callers

VARIABLES
  host,       \* what the table of servers says is the active one
  live,       \* the streams that come in at each server
  cache,      \* the answers in Redis
  available,  \* RedisService uses Redis
  caller      \* the calls in flight

wowzaVars == <<host, live, cache, available, caller>>

-----------------------------------------------------------------------------
Silent == [pc |-> "idle", host |-> Nil, name |-> Nil, keep |-> FALSE, answer |-> Nil]

Call == [pc : {"get", "fetch", "store", "answered", "connect", "disconnect", "invalidate"},
         host : Hosts, name : Names \cup {Nil}, keep : BOOLEAN,
         answer : {Nil} \cup SUBSET Names] \cup {Silent}

WowzaTypeOK ==
  /\ host \in Hosts
  /\ live \in [Hosts -> SUBSET Names]
  /\ cache \in [Hosts -> {Nil} \cup SUBSET Names]
  /\ available \in BOOLEAN
  /\ caller \in [Callers -> Call]

WowzaInit ==
  /\ host \in Hosts
  /\ live \in [Hosts -> SUBSET Names]
  /\ cache = [h \in Hosts |-> Nil]
  /\ available \in BOOLEAN
  /\ caller = [c \in Callers |-> Silent]

\* getActiveServer: the environment's server when the table cannot be read.
ActiveServer(h) == h \in {host, Env}

StartCall(c, pc, name) ==
  /\ caller[c] = Silent
  /\ \E h \in Hosts :
       /\ ActiveServer(h)
       /\ caller' = [caller EXCEPT ![c] =
            [pc |-> pc, host |-> h, name |-> name, keep |-> FALSE, answer |-> Nil]]
  /\ UNCHANGED <<host, live, cache, available>>

CallGoes(c, pc) == caller' = [caller EXCEPT ![c].pc = pc]

Answered(c, answer) == caller' = [caller EXCEPT ![c].pc = "answered", ![c].answer = answer]

\* A call is over; only the synchronization looks at its answer.
CallEnds(c) == caller' = [caller EXCEPT ![c] = Silent]

-----------------------------------------------------------------------------
(* getIncomingStreams.                                                      *)

GetIncomingStreams(c) == StartCall(c, "get", Nil)

\* getOrSet falls through to Wowza when Redis does not answer.
ReadCache(c) ==
  /\ caller[c].pc = "get"
  /\ LET found == cache[caller[c].host] IN
     \/ available /\ found # Nil /\ Answered(c, found)
     \/ caller' = [caller EXCEPT ![c].pc = "fetch", ![c].keep = available]
  /\ UNCHANGED <<host, live, cache, available>>

Fetch(c) ==
  /\ caller[c].pc = "fetch"
  /\ LET now == live[caller[c].host] IN
     IF caller[c].keep
     THEN caller' = [caller EXCEPT ![c].pc = "store", ![c].answer = now]
     ELSE Answered(c, now)
  /\ UNCHANGED <<host, live, cache, available>>

\* Wowza is unavailable or answers with an error: a request ends with it, the
\* synchronization takes it for an empty list.
FetchFails(c) ==
  /\ caller[c].pc = "fetch"
  /\ IF c \in Ticks THEN Answered(c, {}) ELSE CallEnds(c)
  /\ UNCHANGED <<host, live, cache, available>>

\* The answer may be older than an invalidation by now; a failure of Redis is
\* swallowed.
Store(c) ==
  /\ caller[c].pc = "store"
  /\ \/ cache' = [cache EXCEPT ![caller[c].host] = caller[c].answer]
     \/ UNCHANGED cache
  /\ Answered(c, caller[c].answer)
  /\ UNCHANGED <<host, live, available>>

Return(c) ==
  /\ caller[c].pc = "answered" /\ c \notin Ticks
  /\ CallEnds(c)
  /\ UNCHANGED <<host, live, cache, available>>

-----------------------------------------------------------------------------
(* connectStream and disconnectStream.                                      *)

ConnectStream(c, n) == StartCall(c, "connect", n)

DisconnectStream(c, n) == StartCall(c, "disconnect", n)

\* Wowza does what it is asked to, or the request ends with its error.
Put(c) ==
  /\ caller[c].pc \in {"connect", "disconnect"}
  /\ \/ /\ live' = [live EXCEPT ![caller[c].host] =
             IF caller[c].pc = "connect" THEN @ \cup {caller[c].name} ELSE @ \ {caller[c].name}]
        /\ CallGoes(c, "invalidate")
     \/ UNCHANGED live /\ CallEnds(c)
  /\ UNCHANGED <<host, cache, available>>

\* A failure of Redis is swallowed.
Invalidate(c) ==
  /\ caller[c].pc = "invalidate"
  /\ \/ available /\ cache' = [cache EXCEPT ![caller[c].host] = Nil]
     \/ UNCHANGED cache
  /\ CallEnds(c)
  /\ UNCHANGED <<host, live, available>>

-----------------------------------------------------------------------------
(* The environment.                                                         *)

HostChanges(h) ==
  host' = h /\ UNCHANGED <<live, cache, available, caller>>

\* Cameras come and go by themselves.
StreamsChange(h, names) ==
  /\ live' = [live EXCEPT ![h] = names]
  /\ UNCHANGED <<host, cache, available, caller>>

\* Mutant: an answer is stored without a time to live.
CacheKeeps(h) == cache[h] # Nil /\ UNCHANGED wowzaVars

CacheExpires(h) ==
  /\ cache[h] # Nil
  /\ cache' = [cache EXCEPT ![h] = Nil]
  /\ UNCHANGED <<host, live, available, caller>>

\* An error of the client: Redis is not used again before a restart.
RedisFails ==
  /\ available' = FALSE
  /\ UNCHANGED <<host, live, cache, caller>>

WowzaCrash ==
  /\ caller' = [c \in Callers |-> Silent]
  /\ available' \in BOOLEAN
  /\ UNCHANGED <<host, live, cache>>

WowzaRequest(c) ==
  \/ GetIncomingStreams(c)
  \/ \E n \in Names : ConnectStream(c, n) \/ DisconnectStream(c, n)

WowzaStep(c) ==
  ReadCache(c) \/ Fetch(c) \/ FetchFails(c) \/ Store(c) \/ Return(c) \/ Put(c) \/ Invalidate(c)

WowzaEnvironment ==
  \/ \E h \in Hosts : HostChanges(h) \/ CacheExpires(h)
                      \/ \E names \in SUBSET Names : StreamsChange(h, names)
  \/ RedisFails

WowzaNext ==
  \/ \E c \in Callers : WowzaRequest(c) \/ WowzaStep(c)
  \/ WowzaEnvironment
  \/ WowzaCrash

WowzaSpec == WowzaInit /\ [][WowzaNext]_wowzaVars
=============================================================================
