-------------------------------- MODULE Devices --------------------------------
(***************************************************************************)
(* Devices and their synchronization with Wowza: devices.service and       *)
(* device-sync.service, over the table `devices` and the client of Wowza.  *)
(*                                                                         *)
(* A request loads the device, awaits what it checks and logs, and saves   *)
(* it.  Serials are data: a unique constraint backs their check.           *)
(***************************************************************************)
EXTENDS Wowza

CONSTANTS
  Devices,
  Users,
  Operators  \* requests about devices that can be in flight at once

ASSUME DevicesAssumption == Nil \notin Users

VARIABLES
  device,    \* the table
  operator,  \* the requests in flight
  sync       \* the ticks in flight: the devices they have loaded

deviceVars == <<host, live, cache, available, caller, device, operator, sync>>

-----------------------------------------------------------------------------
DeviceStatus == {"REGISTERED", "ACTIVE", "INACTIVE"}

\* A device is removed by making it inactive.
Device == [stream : Names, status : DeviceStatus, isActive : BOOLEAN, user : Users \cup {Nil}]

ASSUME NilIsNoDevice == Nil \notin Device

NoOperation == [op |-> "none", device |-> Nil, row |-> Nil]

Operation ==
  [op : {"create", "update", "remove", "assign"}, device : Devices, row : Device]
    \cup {NoOperation}

\* A tick loads the devices while it asks Wowza, and then saves some of them.
NoSync == [pc |-> "idle", rows |-> Nil]

Sync == [pc : {"find", "found", "save"}, rows : [Devices -> Device \cup {Nil}] \cup {Nil}]
          \cup {NoSync}

DevicesTypeOK ==
  /\ WowzaTypeOK
  /\ device \in [Devices -> Device \cup {Nil}]
  /\ operator \in [Operators -> Operation]
  /\ sync \in [Ticks -> Sync]

DevicesInit ==
  /\ WowzaInit
  /\ device = [d \in Devices |-> Nil]
  /\ operator = [o \in Operators |-> NoOperation]
  /\ sync = [t \in Ticks |-> NoSync]

-----------------------------------------------------------------------------
(* Requests about devices.                                                  *)

Operate(o, op, d, row) ==
  /\ operator[o] = NoOperation
  /\ operator' = [operator EXCEPT ![o] = [op |-> op, device |-> d, row |-> row]]
  /\ UNCHANGED <<wowzaVars, device, sync>>

OperationEnds(o) == operator' = [operator EXCEPT ![o] = NoOperation]

CreateDevice(o, d, row) ==
  device[d] = Nil /\ row.isActive /\ Operate(o, "create", d, row)

\* Any of the columns, and the user if the request mentions one.
UpdateDevice(o, d, row) == device[d] # Nil /\ Operate(o, "update", d, row)

UpdateStatus(o, d, status) ==
  device[d] # Nil /\ Operate(o, "update", d, [device[d] EXCEPT !.status = status])

RemoveDevice(o, d) ==
  device[d] # Nil /\ Operate(o, "remove", d, [device[d] EXCEPT !.isActive = FALSE])

AssignToUser(o, d, u) ==
  device[d] # Nil /\ Operate(o, "assign", d, [device[d] EXCEPT !.user = u])

UnassignFromUser(o, d) == AssignToUser(o, d, Nil)

\* save writes every column that differs; remove has not loaded the user.
SaveDevice(o) ==
  LET op == operator[o].op  d == operator[o].device  row == operator[o].row IN
  /\ operator[o] # NoOperation
  /\ device' = [device EXCEPT ![d] =
       IF op = "create" THEN IF @ = Nil THEN row ELSE @
       ELSE IF op = "remove" THEN [row EXCEPT !.user = device[d].user]
       ELSE row]
  /\ OperationEnds(o)
  /\ UNCHANGED <<wowzaVars, sync>>

OperationFails(o) ==
  /\ operator[o] # NoOperation
  /\ OperationEnds(o)
  /\ UNCHANGED <<wowzaVars, device, sync>>

-----------------------------------------------------------------------------
(* syncWithWowza, every 30 seconds.                                         *)

SyncGoes(t, s) == sync' = [sync EXCEPT ![t] = s]

StartSync(t) ==
  /\ sync[t] = NoSync
  /\ GetIncomingStreams(t)
  /\ SyncGoes(t, [pc |-> "find", rows |-> Nil])
  /\ UNCHANGED <<device, operator>>

FindDevices(t) ==
  /\ sync[t].pc = "find"
  /\ SyncGoes(t, [pc |-> "found", rows |-> device])
  /\ UNCHANGED <<wowzaVars, device, operator>>

\* Mutant: a device that is not live goes OFFLINE.
SyncedOffline(row, names) ==
  IF row = Nil \/ ~row.isActive THEN Nil
  ELSE IF row.stream \in names THEN [row EXCEPT !.status = "ACTIVE"]
  ELSE IF row.status = "ACTIVE" THEN [row EXCEPT !.status = "OFFLINE"]
  ELSE Nil

\* What the tick will save of a device, if anything.
Synced(row, names) ==
  IF row = Nil \/ ~row.isActive THEN Nil
  ELSE IF row.stream \in names THEN [row EXCEPT !.status = "ACTIVE"]
  ELSE IF row.status = "ACTIVE" THEN [row EXCEPT !.status = "INACTIVE"]
  ELSE Nil

\* Both the devices and the answer are there.
Compare(t) ==
  /\ sync[t].pc = "found" /\ caller[t].pc = "answered"
  /\ LET rows == [d \in Devices |-> Synced(sync[t].rows[d], caller[t].answer)] IN
     SyncGoes(t, IF \A d \in Devices : rows[d] = Nil THEN NoSync ELSE [pc |-> "save", rows |-> rows])
  /\ CallEnds(t)
  /\ UNCHANGED <<host, live, cache, available, device, operator>>

\* Mutant: the user was loaded with the device.
SaveSyncWithUser(t) ==
  /\ sync[t].pc = "save"
  /\ device' = [d \in Devices |-> IF sync[t].rows[d] = Nil THEN device[d] ELSE sync[t].rows[d]]
  /\ SyncGoes(t, NoSync)
  /\ UNCHANGED <<wowzaVars, operator>>

\* All in one transaction, and every column but the user, which is a relation
\* that was not loaded.
SaveSync(t) ==
  /\ sync[t].pc = "save"
  /\ device' = [d \in Devices |->
       IF sync[t].rows[d] = Nil THEN device[d]
       ELSE [sync[t].rows[d] EXCEPT !.user = device[d].user]]
  /\ SyncGoes(t, NoSync)
  /\ UNCHANGED <<wowzaVars, operator>>

\* A query rejects; the answer of Wowza is then for nobody.
SyncFails(t) ==
  /\ sync[t].pc \in {"find", "save"} /\ caller[t].pc \in {"idle", "answered"}
  /\ SyncGoes(t, NoSync)
  /\ CallEnds(t)
  /\ UNCHANGED <<host, live, cache, available, device, operator>>

-----------------------------------------------------------------------------
Crash ==
  /\ WowzaCrash
  /\ operator' = [o \in Operators |-> NoOperation]
  /\ sync' = [t \in Ticks |-> NoSync]
  /\ UNCHANGED device

StartOperation(o) ==
  \E d \in Devices :
    \/ \E row \in Device : CreateDevice(o, d, row) \/ UpdateDevice(o, d, row)
    \/ \E status \in DeviceStatus : UpdateStatus(o, d, status)
    \/ RemoveDevice(o, d)
    \/ \E u \in Users : AssignToUser(o, d, u)
    \/ UnassignFromUser(o, d)

SyncStep(t) == StartSync(t) \/ FindDevices(t) \/ Compare(t) \/ SaveSync(t) \/ SyncFails(t)

WowzaActs ==
  /\ \/ \E c \in Callers : WowzaStep(c) \/ (c \notin Ticks /\ WowzaRequest(c))
     \/ WowzaEnvironment
  /\ UNCHANGED <<device, operator, sync>>

DevicesNext ==
  \/ \E o \in Operators : StartOperation(o) \/ SaveDevice(o) \/ OperationFails(o)
  \/ \E t \in Ticks : SyncStep(t)
  \/ WowzaActs
  \/ Crash

\* Ticks come again and again, calls are answered and answers expire.
DevicesFairness ==
  /\ \A h \in Hosts : WF_deviceVars(CacheExpires(h) /\ UNCHANGED <<device, operator, sync>>)
  /\ \A c \in Callers : WF_deviceVars(WowzaStep(c) /\ UNCHANGED <<device, operator, sync>>)
  /\ \A t \in Ticks :
       /\ WF_deviceVars(StartSync(t)) /\ WF_deviceVars(FindDevices(t))
       /\ WF_deviceVars(Compare(t)) /\ WF_deviceVars(SaveSync(t))

DevicesSpec == DevicesInit /\ [][DevicesNext]_deviceVars /\ DevicesFairness

-----------------------------------------------------------------------------
(* Properties.                                                              *)

\* A tick never changes to whom a device is assigned, though it saves rows
\* that it loaded before an assignment: only the request that assigns does.
SyncKeepsAssignments ==
  [][\A d \in Devices :
       device[d] # Nil /\ device'[d] # device[d] /\ device'[d].user # device[d].user =>
         \E o \in Operators :
           operator[o].op \in {"update", "assign"} /\ operator[o].device = d
             /\ operator'[o] # operator[o]]_deviceVars

\* No save, early or late, makes a device vanish from the table (remove only
\* makes it inactive).
DevicesRemain == [][\A d \in Devices : device[d] # Nil => device'[d] # Nil]_deviceVars

\* A device that operators leave alone, with what comes in as it is and all
\* ticks asking the same server.
Settled(d, h, n, b) ==
  /\ device[d] # Nil /\ device[d].isActive /\ device[d].stream = n
  /\ \A o \in Operators : operator[o] = NoOperation
  /\ \A t \in Ticks : caller[t] # Silent => caller[t].host = h
  /\ (n \in live[h]) = b

\* The server stops, or what a tick asks fails.
Disturbed == Crash \/ \E t \in Ticks : FetchFails(t) \/ SyncFails(t)

ShownAs(d, b) == device[d] # Nil /\ (device[d].status = "ACTIVE") = b

\* When a device is settled and neither the server nor what a tick asks fails
\* any more, it ends up ACTIVE if its stream is live and not ACTIVE if it is
\* not, whatever was cached, lost or overtaken before.
FollowsWowza ==
  \A d \in Devices, h \in Hosts, n \in Names, b \in BOOLEAN :
    /\ <>[]Settled(d, h, n, b)
    /\ <>[][~Disturbed]_deviceVars
    => <>[]ShownAs(d, b)

-----------------------------------------------------------------------------
(* The inductive invariant of the types and of SyncKeepsAssignments.        *)

\* A call carries what its next step needs.
CallKnows(k) ==
  /\ k.pc \in {"connect", "disconnect"} => k.name \in Names
  /\ k.pc \in {"store", "answered"} => k.answer \in SUBSET Names

CallsKnow == \A c \in Callers : CallKnows(caller[c])

\* A tick has its call exactly while it waits for an answer: nobody else takes
\* that answer, and no failure leaves the tick waiting for none.
TicksWait ==
  \A t \in Ticks :
    /\ caller[t].pc \in {"idle", "get", "fetch", "store", "answered"}
    /\ sync[t].pc \in {"find", "found"} <=> caller[t] # Silent

\* What a tick or a request is about to save is in the table: no device ever
\* vanishes, so no late save brings one back from nothing.
TicksKnow ==
  \A t \in Ticks :
    sync[t].pc \in {"found", "save"} =>
      /\ sync[t].rows \in [Devices -> Device \cup {Nil}]
      /\ \A d \in Devices : sync[t].rows[d] # Nil => device[d] # Nil

OperatorsKnow ==
  \A o \in Operators :
    operator[o].op \in {"update", "remove", "assign"} => device[operator[o].device] # Nil

DevicesInv == DevicesTypeOK /\ CallsKnow /\ TicksWait /\ TicksKnow /\ OperatorsKnow
=============================================================================
