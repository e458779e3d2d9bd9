# MediaVault backend: TLA+ models and proofs

MediaVault is a NestJS server in front of a Wowza Streaming Engine. It supervises ffmpeg
processes that pull RTSP cameras, keeps the streams in PostgreSQL, polls Wowza, tells
dashboards over WebSocket what changes, and keeps users, sessions, evidence files, alerts
and devices. Paths below are those of the repository (`src/modules/...`).

Contents: [inventory](#inventory) · [plan](#plan) · [modules](#modules-and-the-code) ·
[the serial discipline](#the-serial-discipline) · [runs](#runs-bounds-and-what-they-show) ·
[fairness](#fairness) · [findings](#where-the-code-departs-from-what-it-says) ·
[proofs](#proofs) · [limits](#what-is-not-modelled)

## Inventory

| component | state | operations | interacts with |
|---|---|---|---|
| ingestion | three maps keyed by stream id (`processes`, `states`, `configs`), state objects captured by handlers, ffmpeg processes, reconnect and SIGKILL timers | start, stop, restart, stopAll; `error`, `close`, reconnect timer, kill timer | streams, gateway, its own controller |
| streams | table `streams` (status, source, soft deletion) | create, update, remove, start, stop, sync, list, playback url | ingestion, Wowza, gateway, audit |
| gateway | connected clients, rooms, last known statuses, poll interval | connect, disconnect, (un)subscribe, poll tick, emit | streams (sync, findOne), ingestion, Redis |
| wowza, redis | cached answers with a TTL | proxied reads, connect/disconnect + invalidate, getOrSet | everything that shows streams |
| wowza-servers | table with one default | create, update, setDefault, remove | wowza |
| auth, security | sessions table, blacklist in Redis | login, refresh, logout, revoke one / all | users, gateway guard |
| users, roles | users, roles, permissions | create, update, deactivate, remove | security (revocation) |
| evidences | files on disk, rows with SHA-256, download tokens in Redis | create, clip, verify, export, download, remove | Wowza, Redis, gateway, audit |
| alerts | rules with cooldown, events | rule CRUD, trigger, acknowledge, worker tick | streams, devices, gateway |
| devices | device status and assignment | update, remove, assign, unassign, sync cron | Wowza, streams |
| events | incidents and their streams | create, update, add / remove stream | streams, evidences |
| org, audit, health, database | static hierarchy; append-only log; nothing; migrations | CRUD; append; read; run once | |

**What is hard.** Node runs a handler to its first `await` without interruption; everything
else interleaves. The hard behaviours are (1) callbacks of an ffmpeg that is no longer the
current one of its stream, (2) entities that are loaded, kept across an `await` and saved
whole, (3) checks made before an `await` and relied on after it, (4) polls and cron ticks
that do not wait for each other, (5) a failure between two of several writes. `PROJECT.json`
lists these hazards at their lines, with the properties that cover them, or why none does.

**What makes each component correct.**
ingestion: at most one ffmpeg per stream, which can be seen and stopped; retries within the
limit; nothing comes back on its own after a stop. streams: the row and the running ffmpeg
agree; a removed stream is silent; a stopped one can be updated again in the end. gateway: it
gets to know the status a stream has, and what it told a dashboard of a change is the last it
knew. wowza-servers: at most one default, names apart. sessions: an administrator's revocation
misses none it should know. users: there is always an active administrator. evidences: a row has
its file, and what is said of it (verdict, export, download, announcement) is true. alerts: one alert per cooldown. devices: they end up as
Wowza has them, and the synchronization assigns nobody. events: who closes an event tells of it.
redis: no value older than the last invalidation outlives its TTL. Where the code keeps one of
these only of users who wait for each other, that is said below and excluded by name.

## Plan

In the order of importance; all of it is here but the last point.

1. **Core.** `Ingestion` (the supervisor), `StreamSupervisor` (its promise), `IngestionSerial`
   (the discipline under which it keeps it), `StreamService` and `StreamServiceSerial` (the
   service over the supervisor and the table), `Gateway`.
2. **Three stores without a transaction, crashes:** `Evidences`, which implements
   `EvidenceArchive`.
3. **Tables with a rule over several rows:** `WowzaServers`, which implements `DefaultServer`;
   `Accounts`, where users and their sessions meet (last administrator, revocations).
4. **Load, change, save:** `Events`, and the alert it sends.
5. **Time:** `Alerts`, the cooldown and the worker.
6. **A cache in front of another system, and a cron over it:** `Wowza` with `getOrSet` and
   `invalidate`, and `Devices`, which extends it.
7. Left: the gateway with more streams than one page, and the promise that the gateway and
   `Accounts` make, as abstract specifications of their own.

## Modules and the code

**`Ingestion`** models `ingestion.service.ts`. A *session* is the state object that a
`startIngestion` creates and that the `close` handler and the timer of its ffmpeg capture
together with the config. `processes`, `states` and `configs` are the three maps; `stream`,
`config`, `status`, `attempts` are what a session's handlers capture and the fields of its
state object. `task[s]` is the one thing that can still call back on behalf of `s`: a running
ffmpeg, one that could not be spawned (`failed`), one that was sent SIGTERM (`dying`) or
SIGKILL (`killed`), or an armed reconnect timer. One thing is enough because `close` is
emitted once per process, only `close` arms the timer, and the timer spawns one process.

| action | code |
|---|---|
| `CheckFFmpegAvailability` | `onModuleInit`, the check of `ffmpeg -version` |
| `StartIngestion`, `SpawnFFmpeg` | `startIngestion`, `spawnFFmpeg` incl. the `error` handler of a failed spawn |
| `StopIngestion`, `RestartIngestion`, `Shutdown` | the operations of the same names; `stopAll` in the shutdown hook |
| `ProcessClose`, `ScheduleReconnect` | `close` handler, `scheduleReconnect` |
| `ReconnectTimer`, `KillTimer` | the two `setTimeout` callbacks |

`RestartIngestion` is one step because the promise of `stopIngestion` is resolved when it is
awaited. STARTING is not a value of `status`: it is set and replaced within one handler.
Delays are abstracted: a timer may fire at any time after it is armed.

**`StreamSupervisor`** is the abstract specification: per stream a view (off, publishing,
waiting, ended), the set of publishing sources, the limit in force and the retries made.
**`IngestionSerial`** restricts when the supervisor may be called and maps it onto
`StreamSupervisor` (`Supervisor`, `ImplementsSupervisor`).

**`StreamService`** extends it with the row of a stream, what Wowza reports, and requests. A
request is an async handler of `streams.service.ts`; its `pc` is the await it is at and its
`entity` the row it has loaded. `FindOne`, `Save`, `SoftDelete`, `Fail` are the awaits;
`Update`, `Remove`, `Start`, `Stop`/`StopFound`, `AskWowza`/`WowzaAnswered` are the code in
between, with the supervisor's own actions inside (`Start` conjoins `StartIngestion`). `Save`
writes the entity whole, `deletedAt` included, as TypeORM's `save` does; it is one step, a
finer one than its SELECT and UPDATE would only add more of the same stale writes. `Direct`
is the ingestion controller, which reaches the supervisor past the service.
**`StreamServiceSerial`** restricts operators, not the gateway's polls.

**`Gateway`** models `streaming.gateway.ts`. `conn` is the socket, `validating` the sockets
whose `handleConnection` awaits Redis, `connectedClients`, `rooms`, `allStreams` the maps and
rooms, `answer` a subscription's `findOne` in flight, `stage`/`seen` each poll's progress with
each stream, `told` the last status a socket was sent. `SyncAsks`/`SyncSaves` are
`syncStatusFromWowza` seen from the poll; `Publish` is what the poll does after it,
without an `await`. What a closed or unsubscribed socket was told is forgotten.
`Environment` is what the gateway reads and does not control: the streams themselves
(`StreamChanges`) and the rows (`RowWritten`). Each may change at any moment and in any way, so
what is proved of the gateway rests on nothing about the service or the supervisor. `Publish`
leaves out the ingestion events, which are emitted in the same breath and from a map of their
own: no property is about them.

**`Evidences`** models `evidences.service.ts` with its storage, integrity and export services
and the part of `redis.service.ts` they use. `disk`, `row` and `token` are the file system,
the table and Redis; `available` is the flag of `RedisService`, which an `error` event clears
and nothing but a restart sets. A request is an async handler with the await it is at (`pc`),
the id of its evidence and the hash it carries: of the buffer that is being written, or of the
row that was loaded. SHA-256 is injective, so a hash is what was hashed, and for a DVR clip
that is a url, `ClipUrl`. `touched` is not a state of the program: it records whose file
somebody changed or deleted from outside (`Touch`).

| action | code |
|---|---|
| `Create`, `FileWritten` | `create`, `createSnapshot`; `saveFile`. The file exists, `Partial`, from the start of `writeFile` |
| `CreateDvrClip` | `createDvrClip`, which writes no file |
| `RowSaved`, `EmitEvidenceCreated`, `GenerateDownloadToken` | the common end of the two |
| `FindOne`, `VerifyIntegrity`, `ExportEvidence`, `Remove` (all `Load`) | those handlers, up to the await after `findOne` |
| `ComputeHash`, `Verdict` | `computeHash`, and what `verifyIntegrity` does with the result |
| `Pack`, `SendPackage` | the archive, with or without media; the answer |
| `SoftDelete` | `remove`: the row is marked, file and tokens stay |
| `ResolveDownloadToken`, `FindForDownload`, `InvalidateDownloadToken`, `DownloadEvidence` | `prepareDownload`, await by await, and the controller's answer |
| `Fail`, `Crash`, `RedisError`, `TokenExpires` | an await that rejects; a restart; Redis |

**`EvidenceArchive`** is what the three stores amount to: a piece that is kept has a seal and
its media, is withdrawn or not, and the archive tells of it. `Archive` in `Evidences` maps it:
the hash of the row is the seal, media is whole where a reader of the file finds what was
hashed (a clip has none here), `touched` is what was harmed from outside.

A read of a file is one step: `writeFile` of an id is over before its row exists, so a reader
can only meet a writer from outside.

**`Accounts`** models `users.service.ts`, the operations of `auth.service.ts` that change the
sessions, and the revocations of `security.service.ts`. `user` and `session` are the tables,
`blacklist` the sessions whose token was sent to Redis. A request has the await it is at (`pc`),
the entity it loaded (`row`), the sessions it found and the one it keeps.

| action | code |
|---|---|
| `CreateUser`, `UpdateUser`, `Deactivate`, `Activate`, `ChangePasswordByAdmin`, `ChangeOwnPassword`, `UpdateProfile`, `RemoveUser` | the operations of the same names, up to the await after `findOne` |
| `CountAdmins` | the last-administrator test of `deactivate` and `remove` |
| `Save`, `SaveSelected` | `save` of an entity, of one loaded with `select`; what was not loaded is not written (`Written`) |
| `SearchSessions`, `Blacklist`, `DeleteAll` | `revokeAllUserSessions`, alone (`RevokeAllUserSessions`) or inside `deactivate`, `changePasswordByAdmin` and `remove` (`AfterRevocation`) |
| `OtherSessions`, `DeleteSessions` | the other sessions of the owner; a delete by id |
| `Login`, `OpenSession`, `Logout`, `LogoutAll`, `AuthRevokeSession`, `SecurityRevokeSession` | `login` up to and with its save; the others |
| `Fail`, `Crash`, `Expire`, `TokenExpires` | an await that rejects; a restart; `expiresAt`; Redis |

`late` is not a state of the program: it marks a session that was opened after a revocation of
its user had looked, or after the removal of its user. No lock of the code prevents those.

**`WowzaServers`** models `wowza-servers.service.ts`: `CreateServer`, `UpdateServer` (with
`CheckName`, `ResetDefaults`, `SaveServer`), `SetDefault` (`Snapshot`, `CommitDefault`: one
transaction whose first statement has found its rows before the second is visible),
`RemoveServer`, `TestConnection`/`RecordTest`. **`DefaultServer`** is what the table promises;
`Register` in `WowzaServers` is the refinement mapping.

**`Events`** models `events.service.ts`. `request[r].entity` is the event as loaded, with the
links to streams that are not removed; `ResolveStreams` looks for the streams of the request,
`SaveEvent` is the commit of the entity with its links, `EmitAlert` what follows its answer, and
`news` the alert a step sends. A crash or a lost answer (`RequestFails`) can fall between the
two. `owed` is not a state of the program: it holds the events whose closing was committed and
is still to be told, which `ClosingIsAnnounced` compares with the requests.

**`Alerts`** models `alerts.service.ts` and `alerts.worker.ts`. A task is a request or the
evaluation of one rule in one tick. `rule[r].last` is the age of `lastTriggeredAt`, `told[r]`
that of the last alert which reached the dashboards: it is not a state of the program, it is
what `CooldownKept` compares with. `SaveAlert`, `SaveRule` and `EmitAlert` are the two commits of
`triggerAlert` and the alert, with a failure or a crash possible between any two.

**`Wowza`** models the client of `wowza.service.ts` over `getOrSet` and `invalidate`: `ReadCache`,
`Fetch`, `Store` are the awaits of a read, `Put` and `Invalidate` those of connect and
disconnect, each of which can fail; `live` is what the servers really have. **`Devices`** extends
it with `devices.service.ts` and the cron of `device-sync.service.ts`: `StartSync` begins a call
of Wowza and `FindDevices` the query next to it, `Compare` waits for both, `SaveSync` saves all
that changed in one transaction.

An audit entry never fails its caller and is not a step in any of these.

The modules `MC*` give TLC its instances, the modules `*_proofs` hold the theorems.

## The serial discipline

The handlers of `ingestion.service.ts` look a stream up by id, not by identity. A handler of a
replaced session therefore acts on the entry of the current one, and the promises of
`StreamSupervisor` are broken. The code does not prevent this. So each property is stated at
the level where it holds:

* under *any* use (`Spec`): the maps agree, the retry limit, armed reconnections, only a start
  puts a stream on air;
* under *serial* use (`SerialSpec`): a start while nothing but the current RUNNING session can
  call back (`Settled`; the code then refuses it), a restart while nothing can (`Quiet`).
  Then one owner, tracked ffmpegs, no wedge, no reconnection of a killed process, and the
  refinement.

Two runs show that the discipline is needed, at both levels (`ingestion_stop_race`,
`streams_poll_race`). `StreamServiceSerial` asks of operators one request
at a time per stream, and that they ask for a start when nothing of the stream can call back
(`OperatorAsks`). `Start` itself is not restricted: it comes after the row was read, with polls,
callbacks and requests for other streams in between, and does what the code does.
`UsesIngestionSerially` says that it meets a settled stream all the same, and that nothing else
the service does starts one, so that everything proved of `IngestionSerial` holds in the
composed system. Without the discipline at arrival the code gives no such promise.

The tables need the like, for no handler holds a lock between what it reads and what it writes:

| specification | who waits for whom | who does not |
|---|---|---|
| `Accounts!SerialSpec` | requests that write `users`, one at a time; `update` spares the last administrator, whom it does not count | logins, logouts and all revocations. The session properties hold under `Spec`, without any of this |
| `WowzaServers!EditedSerially` | edits, one at a time | connection tests |
| `Events!EachSerially` | requests about one event | requests about other events, creations, changes of streams |
| `Alerts!Undisturbed` | the evaluations of a tick, edits of rules | acknowledgements, streams, time |
| `Devices!DevicesSpec` | nobody | |

Failures, restarts and expiry come at any moment under all of them. A request that has begun
and fails half-way, having written one of two things, is what makes them interesting.

## Runs, bounds and what they show

| run | specification and instance | shows |
|---|---|---|
| `ingestion_safety` | `FairSpec`; 1 stream, 3 sessions, a config without limit and one with limit 1 | `TypeOK`, `MapsAgree`, `RetryBudget`, `ReconnectingIsArmed`, `OnlyStartRegisters`, `RetriesEnd` under any use |
| `ingestion_serial` | `FairSerialSpec`; 2 streams, 2 sessions | `OneOwner`, `LiveIsTracked`, `NoWedge`, `KilledNeverReconnects`, `ImplementsSupervisor`, `StoppedGetsQuiet` |
| `streams_serial` | `SerialServiceSpec`; 1 stream, 2 configs, 1 operator | `ConfigInForce` |
| `streams_polled` | the same with 1 config, 1 operator and 1 poll | `ServiceTypeOK`, `RemovedIsQuiet`, `UsesIngestionSerially` |
| `streams_unlock` | `PolledServiceSpec`; 1 stream, 1 session, 1 config, 1 operator and 1 poll | `UpdatesUnlock` |
| `gateway` | `FairSpec`; 1 client, 1 stream, 2 polls | `PolledIsKnown`, `RegisterFollowsSockets`, `PolledWhileWatched` |
| `evidences` | `Spec`; 2 evidences, 1 content, 2 requests, 1 token | `RowHasItsFile`, `TellsTheTruth`, `PackageHasItsMedia`, `VerdictIsTrue`, `DownloadIsWhole`, `ImplementsArchive` |
| `tables` | one of `Accounts!SerialSpec` (2 users, 2 sessions, 2 requests, one of which writes users), `EditedSerially` (3 servers, 2 names, an editor and a test), `EachSerially` (2 events, 1 stream, 2 requests); `focus` names which | `AdminRemains`, `RemovedHasNoSession`, `RevokedIsBlacklisted`; `NamesUnique`, `TestsOnlyRecord`, `OneDefault`; `ClosingIsAnnounced` |
| `alerts` | `Undisturbed`; 1 rule, 2 events, cooldowns 1 and 2, a worker and an acknowledger | `AlertsTypeOK`, `CooldownKept`, `StillReported` |
| `devices` | `MCSpec`; 1 server, 1 name, 1 device, 1 user, 1 tick, 1 call, 1 request | `DevicesTypeOK`, `SyncKeepsAssignments`, `FollowsWowza` |
| `ingestion_stop_race`, `streams_poll_race` | one stream, one operator and one poll | counterexamples, see below |

Bounds.
*Sessions*: a pool of state objects; one that no map, handler or timer refers to is reused, so
runs of any length fit. Three allow a current session, a replaced one and a dying one at once;
a start needs a discarded one, and with fewer the model would only start less.
*AttemptBound*: attempts of a session without limit stop being counted there; the assumption
`LimitAssumption` keeps every limit below it, so a limited session is counted exactly.
*Limits* 0, 1, 2: no limit, the boundary, and a limit with a retry in between.
*Streams*: streams meet only in `Shutdown` and in the session pool; `ingestion_serial` has two
and `ingestion_safety` one, whose three sessions are where handlers of one stream meet.
*Requests*: one operator and one poll give every pair of handlers that can meet under the
serial discipline; two operators on one stream are excluded by it and on different streams
share nothing but the supervisor, of which `ingestion_serial` has two streams.
`streams_unlock` has one
session: while one can call back no start gets another, and it ends in every way there is.
*Polls*: two give every overlap of an older and a newer status (`gateway`); `streams_unlock` has
one, which an operator's request can overtake or be overtaken by. *PageLimit* is at least the
number of streams in all runs.
*Evidences, requests, tokens*: handlers of different evidences meet only in the pool of
requests and at the token; two requests give every pair of handlers of one evidence, the
second evidence a creation next to it. One content is enough, as a file that is not what was
uploaded is `Partial` or `Damaged`.
*Users, sessions*: a rule about the last of something needs two of them, and two sessions
tell those a revocation found from those it did not. One writer is all `SerialSpec` allows;
the second request is a login, a logout or a revocation at every await of it.
*Servers*: three, so that a default is appointed, replaced and cleared with one to spare; two
names give every conflict. *Events*: one is edited while another is created under a second id;
ids that nothing refers to are used again, so behaviours of any length fit.
`tables` checks three components that share nothing in one run: a behaviour is one of
`focus`, and the other two variables' modules stay as they are at first.
*Ages* count up to `Long`, the longest cooldown, above which the code no longer tells them
apart. *Devices* meet only in the transaction of a tick, which writes each as if alone.
`MCSpec` bounds what is in flight besides the tick to one request, about a device or Wowza.
The type invariants of `Accounts`, `WowzaServers`, `Events`, `Evidences` and `Gateway` are proved
(below) and take no run.
The runs of the supervisor, the service and the gateway disable TLC's deadlock check: after a shutdown, with everything idle, the system
stops.

Each property of a passing run has a mutant in its module (named and commented there): a
plausible mistake in the code, such as a killed process that stays registered, a limit off by
one, or a gate that trusts the status column, which violates it.

## Fairness

`Ingestion`: weak fairness of the two timers, and of the `close` of a process that was
SIGKILLed or never spawned, as long as the server is up. Node runs due timers and SIGKILL
cannot be ignored. Nothing is assumed of a healthy ffmpeg or of one that was sent SIGTERM, nor
after shutdown, when the process exits with its timers pending.
`Gateway`: the interval fires while it is set and awaits end; strong fairness of the two halves
of a sync says that no stream fails to synchronise forever. Clients, cameras and operators are
not fair.
`StreamServiceSerial` (`PollFairness`, for `UpdatesUnlock`): a dashboard stays connected, so that
the interval polls every stream again and again; a query of a poll is answered or rejected, and
not the same one rejected for ever. Nothing is assumed of operators, ffmpeg or its timers.
`Alerts`: the clock goes on; a query is answered or rejected; the worker ticks every 30 s
whatever happened in the last tick; and strong fairness of the evaluation's steps says that the
same query is not rejected, nor the server stopped in the middle of it, for ever. No edit is fair.
`Devices`: ticks come, calls end one way or another and a key expires (every `set` has a TTL).
That a later tick is not disturbed for ever is a premise of `FollowsWowza` and not fairness.

## Where the code departs from what it says

* **A stop followed by a start** (`ingestion_stop_race`). A comment and a test say that a
  stopped process does not reconnect. The `close` handler tests only that *some* process is
  registered for the stream. ffmpeg exits with 255 on SIGTERM, so `stop`, `start` (or
  `restart`) within its last moments schedules a reconnection of the old session, and two
  ffmpegs publish to one place.
* **A poll undoes an update** (`streams_poll_race`). `syncStatusFromWowza` keeps the entity
  across the call to Wowza and saves it whole: with a single operator and the periodic poll,
  an update and a start in between are followed by a write of the old source.

Observed while modelling, and left without a run because no line of the repository says
otherwise, or because a run would only restate the code:

* The failure of an old session deletes the process entry of the new one: outside the serial
  discipline a stream can end up neither startable nor stoppable (`NoWedge` fails under `Spec`).
* The first poll of a stream emits nothing and a subscription may have been answered before it:
  a subscriber can keep an old status. `ingestion:maxRetriesReached` is declared and never sent,
  as the poll looks at the supervisor only while `isRunning`.
* Two `deactivate` or `remove` at once, or one `update`, leave no administrator; two `setDefault`
  leave two defaults; two `create` one name twice. These are what the serial specifications
  exclude.
* A poll that has loaded a row before its removal brings it back, and one with an old answer
  writes an old status, which later polls set right (`UpdatesUnlock`); an interval tick can
  publish an older status after a newer one, likewise.
* A `refresh` signs a token that no table keeps: a revocation blacklists the first one.
  `revokeSession` and `logoutAll` of auth, and a change of one's own password, delete sessions
  without sending their tokens to the blacklist at all.
* The closing of an event is not announced when the server stops, or the answer of the save is
  lost, between the commit and `emitAlert`: a retry finds the event closed and says nothing.
* `updateRule` overtaken by a trigger, or overlapping ticks, break the cooldown; a rule deleted
  while it triggers is inserted again; a crash between the event and the rule leaves an event
  that no dashboard got.
* Loading an event leaves out the links to removed streams and the next save erases them; an
  archived event that is closed is not announced as closed.
* A tick of the synchronization saves whole devices: it brings back one removed meanwhile and
  undoes a new `assignedAt` or quadrant, though never the assignment. When Wowza does not
  answer, it takes every ACTIVE device for INACTIVE until the next tick.
* `getOrSet` may store an answer older than an invalidation; only the TTL heals that, which is
  what the mutant of `FollowsWowza` takes away.

## Proofs

The theorems hold for every number of streams, sessions, requests, polls and clients, and
every limit, from the assumptions in the modules: `None` is not a value of anything,
limits are naturals below `AttemptBound`, cooldowns at most `Long`, a file's states and a
clip's url are told apart (`EvidenceAssumption`), row configurations are configurations,
polls are requests, `Nil` is no device (`NilIsNoDevice`), and for the gateway
`GatewayAssumption`.

* `Streams_proofs`, the supervisor: `MapsAgree`, with the types, is inductive: every handler deletes from
  the maps in an order that keeps a registered process with its state object. `RetryBudget`
  and `ReconnectingIsArmed` are strengthened by the maps' agreement; `OnlyStartRegisters` is
  an action property from the same invariant.
* The supervisor used serially: none of `OneOwner`, `LiveIsTracked`, `NoWedge` is inductive. The
  invariant is `SerialInv`: one owner per stream; whoever can call back finds its own entry or
  none (`OwnEntry`); a registered process belongs to the current state object, which reports
  RECONNECTING exactly while the timer is armed (`CurrentEntry`); and `NoWedge`. Lemma
  `SettledStart` shows that a start under the discipline is refused or meets a quiet stream.
  The same invariant gives `ImplementsSupervisor`, one case per action: each maps to an
  action of `StreamSupervisor` or to a stutter.
* The service: every step of the service is a step of the supervisor or leaves it
  alone (`ServiceUsesIngestion`, under any use). For operators who keep to the discipline it is
  a step of `IngestionSerial` (`ServiceUsesSerially`): the invariant `StartsQuiet` carries the
  quiet of a stream from the arrival of a start to its call of the supervisor, through whatever
  the polls, the callbacks of other sessions and requests for other streams do (`QuietStays`). With that, all of the above holds of the composed system
  (`ServiceKeepsMaps`, `ServiceOwnsOnce`, `ServiceImplementsSupervisor`), and
  `ServiceInv` closes the argument for `RemovedIsQuiet` and `ConfigInForce`: an operator's request is alone on its stream, the row it has loaded
  is still there (and, where nobody polls, unchanged), and the write of an update or a remove
  is due only while nothing is registered. `ConfigAlwaysInForce` assumes `Pollers = {}`: with a
  poll it is false.
* `Gateway_proofs`: the types with `AskedIsSeen`, and `PolledIsKnown` with `ToldIsListening`
  (only a listener holds what a poll has told it); `RegisterFollowsSockets`, which is what a
  client owes its polls to, is inductive next to the types.
* `Evidences_proofs`: `RowHasItsFile` is not inductive, since it says nothing of a handler that
  is about to save. `EvidenceInv` adds that a creator is alone with its id and that its file
  is as far as it is (`CreatorOwnsIt`, `FileFollowsCreator`), that every other handler works
  on a row and carries its hash (`HandlerHasRow`), that a token stands for a row, that a clip
  has no file and that a touched file is not whole. One lemma per action keeps it, one step
  per conjunct. `VerdictIsTrue` and `PackageHasItsMedia` follow from it at the one action that
  decides, `ComputeHash` and `Pack`; `touched` only grows. `DownloadIsWhole` needs that
  a download still holds the hash of a row that is there, removed or not, until it has sent the
  file (`HandlerHasRow`). `ImplementsArchive`: only `RowSaved`, the announcement, the
  verdict, `SoftDelete` and `Touch` are seen in the archive, each as one of its actions; every
  other step changes no file of a row (`Unseen`). `EvidenceInv` says for this that nobody has
  touched a clip, which has no file. `CustodyIsForGood` is then read off the archive.
* `Devices_proofs`: neither the types nor `SyncKeepsAssignments` is inductive. `DevicesInv` adds
  that a call to Wowza carries what its next step needs (`CallsKnow`), that a tick has its call
  exactly while it waits for the answer, and nobody else ends that call (`TicksWait`), and that
  what a tick or a request is about to save is a device of the table (`TicksKnow`,
  `OperatorsKnow`): else a late save would write the user of a device that is not there. Only
  two steps change the table, and each gets a lemma about what it leaves of a device
  (`SavedDevice`, `SavedBySync`). `DevicesRemain` follows from the same.
* `Accounts_proofs`: neither session property is inductive. `RevocationInv` adds what a
  revocation that has looked knows (`RevocationSees`): every session of its user but the late
  ones is found, what it is about to delete is in the blacklist, and before `softDelete` only
  late sessions are left. It holds under `Spec`. `AnAdminRemains` needs `AdminInv`: one
  writer, and what it is about to write leaves an administrator (`SafeWriter`), which a count
  of at least two implies by the cardinality of a finite set: hence `IsFiniteSet(Users)`.
* `WowzaServers_proofs`: `ServersInv` says what an editor has read and only editors can change
  (`Knows`): the name it will write is nobody else's, the rows it will clear are the defaults,
  the one it will delete is not. `TableHasOneDefault` maps each action to one of
  `DefaultServer` or a stutter; `TestsRecordOnly` looks at the two steps of a test.
* `Events_proofs`: `EventsInv` says that two requests never hold one event (`OneEachEvent`)
  and that what a request loaded is still true of the table as far as it decides on it
  (`SeesEvent`): that the event is there, that it closes an open one, and, once saved, that it
  is still closed. `OwedIsTold` says that an event is owed exactly while such a request is about
  to tell of it; `ClosingsAreAnnounced` follows at `EmitAlert`.
* `Alerts_proofs`: `CooldownKept` is proved from `AlertsInv`: only one keeper of rules is in
  flight (`OneKeeper`), a task knows what its next step needs (`TasksKnow`), and nothing that is
  remembered of a rule, in the table or in a task, is older than the last event the dashboards
  got (`Remembered`). One lemma per kind of step; `TimePasses` keeps it because `Older` is
  monotone up to `Long` (`OlderIs`). A `Nothing` that were a rule is excluded (`NothingIsNoRow`).

Only model-checked are the liveness properties (`RetriesEnd`, `StoppedGetsQuiet`, `UpdatesUnlock`,
`PolledWhileWatched`, `StillReported`, `FollowsWowza`): the prover has no rules for fairness. Every
invariant, action property and refinement that a passing run checks is a theorem.

What the model of evidences also shows, and no run is spent on: a download
token is read and deleted in two steps and a failed delete is swallowed, so a token can serve
twice; an interrupted upload leaves a file without a row for good; an export of a DVR clip
still names a `media/` file and its SHA-256, which is the hash of a url, and a verification of
it fails for want of a file.

## What is not modelled

ffmpeg's arguments, log lines and pids; jitter and delays; audit entries, playback urls,
response bodies; the token check of the gateway (a handshake is valid or not); who may see an
evidence, its metadata, its links to streams and events, the list of evidences and the entries
of its audit trail; server status messages, alerts and ingestion events of the gateway. A process id that is reused within
three seconds is not considered. 

Also left out: `create` of a stream, an insert behind a look-up that nothing guards against
another one; the listings, reports, anomalies and summaries, which read; passwords, profiles,
titles, places, serials, addresses and credentials, which are data; `refresh` and the JWT
strategies, which decide on one request and keep no state; the reads of `wowza.service` other
than `getIncomingStreams`, cached in the same way under keys nobody invalidates, its urls and
secure tokens. PostgreSQL's row locks are left out where they only take orders away, and a
`save` is one step. `roles`, `org`, `audit`, `health`, the wiring and the migrations stay out:
no other part decides on a state of theirs that several actors change.
