---------------------------- MODULE Devices_proofs ----------------------------
(***************************************************************************)
(* Theorems about devices and the synchronization that follows Wowza, for  *)
(* every number of devices, servers, ticks, calls and requests.            *)
(***************************************************************************)
EXTENDS Devices, TLAPS

-----------------------------------------------------------------------------
(* The client of Wowza.                                                     *)

LEMMA SilentIs ==
  /\ Silent \in Call /\ Silent.pc = "idle" /\ CallKnows(Silent)
BY DEF Silent, Call, CallKnows

LEMMA ActiveCall ==
  ASSUME WowzaTypeOK, NEW c \in Callers, caller[c] # Silent
  PROVE  caller[c] \in
           [pc : {"get", "fetch", "store", "answered", "connect", "disconnect", "invalidate"},
            host : Hosts, name : Names \cup {Nil}, keep : BOOLEAN,
            answer : {Nil} \cup SUBSET Names]
BY DEF WowzaTypeOK, Call

\* A step of one call that goes on with what its next step needs.
LEMMA StepOfCall ==
  ASSUME WowzaTypeOK, CallsKnow, NEW c \in Callers, NEW k \in Call, CallKnows(k),
         caller' = [caller EXCEPT ![c] = k],
         host' = host, available' = available,
         live' \in [Hosts -> SUBSET Names], cache' \in [Hosts -> {Nil} \cup SUBSET Names]
  PROVE  WowzaTypeOK' /\ CallsKnow'
<1>1. WowzaTypeOK'
  BY DEF WowzaTypeOK
<1>2. \A x \in Callers : caller'[x] = IF x = c THEN k ELSE caller[x]
  BY DEF WowzaTypeOK
<1> QED
  BY <1>1, <1>2 DEF CallsKnow, CallKnows

LEMMA StartCallKeeps ==
  ASSUME WowzaTypeOK, CallsKnow, NEW c \in Callers, NEW n \in Names \cup {Nil},
         NEW pc \in {"get", "connect", "disconnect"}, pc # "get" => n \in Names,
         StartCall(c, pc, n)
  PROVE  /\ WowzaTypeOK' /\ CallsKnow'
         /\ \E k : caller' = [caller EXCEPT ![c] = k] /\ k.pc = pc
<1>1. PICK h \in Hosts :
        caller' = [caller EXCEPT ![c] =
                     [pc |-> pc, host |-> h, name |-> n, keep |-> FALSE, answer |-> Nil]]
  BY DEF StartCall
<1> DEFINE k == [pc |-> pc, host |-> h, name |-> n, keep |-> FALSE, answer |-> Nil]
<1>2. k \in Call /\ k.pc = pc /\ k.name = n
  BY DEF Call
<1>3. caller' = [caller EXCEPT ![c] = k]
  BY <1>1
<1> HIDE DEF k
<1>4. CallKnows(k)
  BY <1>2 DEF CallKnows
<1>5. UNCHANGED <<host, live, cache, available>>
  BY DEF StartCall
<1>6. WowzaTypeOK' /\ CallsKnow'
  BY <1>2, <1>3, <1>4, <1>5, StepOfCall DEF WowzaTypeOK
<1> QED
  BY <1>2, <1>3, <1>6

\* A call goes on; a tick's call ends only in an answer.
LEMMA CallStepKeeps ==
  ASSUME WowzaTypeOK, CallsKnow, NEW c \in Callers, WowzaStep(c)
  PROVE  /\ WowzaTypeOK' /\ CallsKnow' /\ caller[c] # Silent
         /\ \E k : /\ caller' = [caller EXCEPT ![c] = k]
                   /\ c \in Ticks /\ caller[c].pc \in {"get", "fetch", "store", "answered"} =>
                        k.pc \in {"fetch", "store", "answered"}
<1>1. caller[c] # Silent
  BY SilentIs DEF WowzaStep, ReadCache, Fetch, FetchFails, Store, Return, Put, Invalidate
<1>2. caller[c] \in
           [pc : {"get", "fetch", "store", "answered", "connect", "disconnect", "invalidate"},
            host : Hosts, name : Names \cup {Nil}, keep : BOOLEAN,
            answer : {Nil} \cup SUBSET Names]
  BY <1>1, ActiveCall
<1>3. CallKnows(caller[c])
  BY DEF CallsKnow
<1> DEFINE Good(k) ==
      /\ caller' = [caller EXCEPT ![c] = k] /\ k \in Call /\ CallKnows(k)
      /\ c \in Ticks /\ caller[c].pc \in {"get", "fetch", "store", "answered"} =>
           k.pc \in {"fetch", "store", "answered"}
<1>4. ASSUME CallEnds(c), c \in Ticks => caller[c].pc \notin {"get", "fetch", "store", "answered"}
      PROVE  Good(Silent)
  BY <1>4, SilentIs DEF CallEnds
<1>5. ASSUME NEW answer \in SUBSET Names, Answered(c, answer)
      PROVE  Good([caller[c] EXCEPT !.pc = "answered", !.answer = answer])
  BY <1>2, <1>5 DEF Answered, Call, CallKnows, WowzaTypeOK
<1>6. CASE ReadCache(c)
  <2>1. CASE caller' = [caller EXCEPT ![c].pc = "fetch", ![c].keep = available]
    <3>1. Good([caller[c] EXCEPT !.pc = "fetch", !.keep = available])
      BY <1>2, <2>1 DEF Call, CallKnows, WowzaTypeOK
    <3> QED
      BY <1>6, <1>1, <3>1, StepOfCall DEF ReadCache, WowzaTypeOK
  <2>2. CASE cache[caller[c].host] # Nil /\ Answered(c, cache[caller[c].host])
    <3>1. cache[caller[c].host] \in SUBSET Names
      BY <1>2, <2>2 DEF WowzaTypeOK
    <3>2. \E k : Good(k)
      BY <1>5, <2>2, <3>1
    <3> QED
      BY <1>6, <1>1, <3>2, StepOfCall DEF ReadCache, WowzaTypeOK
  <2> QED
    BY <1>6, <2>1, <2>2 DEF ReadCache
<1>7. CASE Fetch(c)
  <2>1. live[caller[c].host] \in SUBSET Names
    BY <1>2 DEF WowzaTypeOK
  <2>2. \E k : Good(k)
    <3>1. CASE caller' = [caller EXCEPT ![c].pc = "store", ![c].answer = live[caller[c].host]]
      <4>1. Good([caller[c] EXCEPT !.pc = "store", !.answer = live[caller[c].host]])
        BY <1>2, <2>1, <3>1 DEF Call, CallKnows, WowzaTypeOK
      <4> QED
        BY <4>1
    <3>2. CASE Answered(c, live[caller[c].host])
      BY <1>5, <2>1, <3>2
    <3> QED
      BY <1>7, <3>1, <3>2 DEF Fetch
  <2> QED
    BY <1>7, <1>1, <2>2, StepOfCall DEF Fetch, WowzaTypeOK
<1>8. CASE FetchFails(c)
  <2>1. \E k : Good(k)
    <3>1. CASE c \in Ticks
      BY <1>5, <1>8, <3>1 DEF FetchFails
    <3>2. CASE c \notin Ticks
      BY <1>4, <1>8, <3>2 DEF FetchFails
    <3> QED
      BY <3>1, <3>2
  <2> QED
    BY <1>8, <1>1, <2>1, StepOfCall DEF FetchFails, WowzaTypeOK
<1>9. CASE Store(c)
  <2>1. caller[c].answer \in SUBSET Names /\ caller[c].host \in Hosts
    BY <1>2, <1>3, <1>9 DEF Store, CallKnows
  <2>2. \E k : Good(k)
    BY <1>5, <1>9, <2>1 DEF Store
  <2>3. cache' \in [Hosts -> {Nil} \cup SUBSET Names]
    BY <1>9, <2>1 DEF Store, WowzaTypeOK
  <2> QED
    BY <1>9, <1>1, <2>2, <2>3, StepOfCall DEF Store, WowzaTypeOK
<1>10. CASE Return(c)
  <2>1. Good(Silent)
    BY <1>4, <1>10 DEF Return
  <2> QED
    BY <1>10, <1>1, <2>1, StepOfCall DEF Return, WowzaTypeOK
<1>11. CASE Put(c)
  <2>1. caller[c].name \in Names /\ caller[c].host \in Hosts
        /\ caller[c].pc \notin {"get", "fetch", "store", "answered"}
    BY <1>2, <1>3, <1>11 DEF Put, CallKnows
  <2>2. live' \in [Hosts -> SUBSET Names]
    BY <1>11, <2>1 DEF Put, WowzaTypeOK
  <2>3. \E k : Good(k)
    <3>1. CASE CallGoes(c, "invalidate")
      <4>1. Good([caller[c] EXCEPT !.pc = "invalidate"])
        BY <1>2, <2>1, <3>1 DEF CallGoes, Call, CallKnows, WowzaTypeOK
      <4> QED
        BY <4>1
    <3>2. CASE CallEnds(c)
      BY <1>4, <2>1, <3>2
    <3> QED
      BY <1>11, <3>1, <3>2 DEF Put
  <2> QED
    BY <1>11, <1>1, <2>2, <2>3, StepOfCall DEF Put, WowzaTypeOK
<1>12. CASE Invalidate(c)
  <2>1. Good(Silent)
    BY <1>4, <1>12 DEF Invalidate
  <2>2. cache' \in [Hosts -> {Nil} \cup SUBSET Names]
    BY <1>2, <1>12 DEF Invalidate, WowzaTypeOK
  <2> QED
    BY <1>12, <1>1, <2>1, <2>2, StepOfCall DEF Invalidate, WowzaTypeOK
<1> QED
  BY <1>6, <1>7, <1>8, <1>9, <1>10, <1>11, <1>12 DEF WowzaStep

LEMMA EnvironmentKeeps ==
  ASSUME WowzaTypeOK, CallsKnow, WowzaEnvironment
  PROVE  WowzaTypeOK' /\ CallsKnow' /\ caller' = caller
BY DEF WowzaEnvironment, HostChanges, CacheExpires, StreamsChange, RedisFails,
       WowzaTypeOK, CallsKnow, CallKnows

-----------------------------------------------------------------------------
(* Requests about devices.                                                  *)

LEMMA Idlers ==
  /\ NoOperation \in Operation /\ NoOperation.op = "none"
  /\ NoSync \in Sync /\ NoSync.pc = "idle"
BY DEF NoOperation, Operation, NoSync, Sync

\* The client of Wowza and the ticks are left alone.
LEMMA OthersStay ==
  ASSUME DevicesInv, UNCHANGED <<wowzaVars, sync>>,
         device' \in [Devices -> Device \cup {Nil}], operator' \in [Operators -> Operation],
         \A d \in Devices : device[d] # Nil => device'[d] # Nil, OperatorsKnow'
  PROVE  DevicesInv'
<1>1. DevicesTypeOK'
  BY DEF DevicesInv, DevicesTypeOK, WowzaTypeOK, wowzaVars
<1>2. CallsKnow' /\ TicksWait'
  BY DEF DevicesInv, CallsKnow, TicksWait, CallKnows, wowzaVars
<1>3. TicksKnow'
  BY DEF DevicesInv, TicksKnow
<1> QED
  BY <1>1, <1>2, <1>3 DEF DevicesInv

LEMMA OperateKeeps ==
  ASSUME DevicesInv, NEW o \in Operators, NEW op \in {"create", "update", "remove", "assign"},
         NEW d \in Devices, NEW row \in Device, op # "create" => device[d] # Nil,
         Operate(o, op, d, row)
  PROVE  DevicesInv'
<1>1. [op |-> op, device |-> d, row |-> row] \in Operation
  BY DEF Operation
<1>2. /\ operator' = [operator EXCEPT ![o] = [op |-> op, device |-> d, row |-> row]]
      /\ UNCHANGED <<wowzaVars, device, sync>>
  BY DEF Operate
<1>3. operator' \in [Operators -> Operation]
  BY <1>1, <1>2 DEF DevicesInv, DevicesTypeOK
<1>4. OperatorsKnow'
  BY <1>2 DEF DevicesInv, DevicesTypeOK, OperatorsKnow
<1>5. device' \in [Devices -> Device \cup {Nil}]
  BY <1>2 DEF DevicesInv, DevicesTypeOK
<1> QED
  BY <1>2, <1>3, <1>4, <1>5, OthersStay

LEMMA StartOperationKeeps ==
  ASSUME DevicesInv, NEW o \in Operators, StartOperation(o)
  PROVE  DevicesInv'
<1>1. PICK d \in Devices :
        \/ \E row \in Device : CreateDevice(o, d, row) \/ UpdateDevice(o, d, row)
        \/ \E status \in DeviceStatus : UpdateStatus(o, d, status)
        \/ RemoveDevice(o, d)
        \/ \E u \in Users \cup {Nil} : AssignToUser(o, d, u)
  BY DEF StartOperation, UnassignFromUser
<1>2. device[d] # Nil => device[d] \in Device
  BY DEF DevicesInv, DevicesTypeOK
<1>3. CASE \E row \in Device : CreateDevice(o, d, row) \/ UpdateDevice(o, d, row)
  BY <1>3, OperateKeeps DEF CreateDevice, UpdateDevice
<1>4. CASE \E status \in DeviceStatus : UpdateStatus(o, d, status)
  <2>1. PICK status \in DeviceStatus : UpdateStatus(o, d, status)
    BY <1>4
  <2>2. [device[d] EXCEPT !.status = status] \in Device
    BY <1>2, <2>1 DEF UpdateStatus, Device
  <2> QED
    BY <2>1, <2>2, OperateKeeps DEF UpdateStatus
<1>5. CASE RemoveDevice(o, d)
  <2>1. [device[d] EXCEPT !.isActive = FALSE] \in Device
    BY <1>2, <1>5 DEF RemoveDevice, Device
  <2> QED
    BY <1>5, <2>1, OperateKeeps DEF RemoveDevice
<1>6. CASE \E u \in Users \cup {Nil} : AssignToUser(o, d, u)
  <2>1. PICK u \in Users \cup {Nil} : AssignToUser(o, d, u)
    BY <1>6
  <2>2. [device[d] EXCEPT !.user = u] \in Device
    BY <1>2, <2>1 DEF AssignToUser, Device
  <2> QED
    BY <2>1, <2>2, OperateKeeps DEF AssignToUser
<1> QED
  BY <1>1, <1>3, <1>4, <1>5, <1>6

LEMMA OperationEndsKeeps ==
  ASSUME DevicesInv, NEW o \in Operators, OperationEnds(o), UNCHANGED <<wowzaVars, sync>>,
         device' \in [Devices -> Device \cup {Nil}],
         \A d \in Devices : device[d] # Nil => device'[d] # Nil
  PROVE  DevicesInv'
<1>1. operator' \in [Operators -> Operation]
  BY Idlers DEF OperationEnds, DevicesInv, DevicesTypeOK
<1>2. \A x \in Operators : operator'[x] = operator[x] \/ operator'[x] = NoOperation
  BY DEF OperationEnds, DevicesInv, DevicesTypeOK
<1>3. ASSUME NEW x \in Operators, operator'[x].op \in {"update", "remove", "assign"}
      PROVE  device'[operator'[x].device] # Nil
  <2>1. operator'[x] = operator[x] /\ operator[x] # NoOperation
    BY <1>2, <1>3, Idlers
  <2>2. operator[x].device \in Devices
    BY <2>1 DEF DevicesInv, DevicesTypeOK, Operation
  <2> QED
    BY <1>3, <2>1, <2>2 DEF DevicesInv, OperatorsKnow
<1>4. OperatorsKnow'
  BY <1>3 DEF OperatorsKnow
<1> QED
  BY <1>1, <1>4, OthersStay

\* What a request writes: never nothing, and only an update or an assignment
\* writes whom the device is assigned to.
LEMMA SavedDevice ==
  ASSUME DevicesInv, NEW o \in Operators, SaveDevice(o)
  PROVE  /\ device' \in [Devices -> Device \cup {Nil}]
         /\ operator'[o] # operator[o]
         /\ \A d \in Devices : device[d] # Nil =>
              /\ device'[d] # Nil
              /\ \/ device'[d].user = device[d].user
                 \/ operator[o].op \in {"update", "assign"} /\ operator[o].device = d
<1>1. operator[o] # NoOperation /\ OperationEnds(o)
  BY DEF SaveDevice
<1>2. operator[o] \in [op : {"create", "update", "remove", "assign"}, device : Devices, row : Device]
  BY <1>1 DEF DevicesInv, DevicesTypeOK, Operation
<1> DEFINE d == operator[o].device  row == operator[o].row
<1>3. operator'[o] = NoOperation
  BY <1>1 DEF OperationEnds, DevicesInv, DevicesTypeOK
<1>4. d \in Devices /\ row \in Device /\ row # Nil /\ device[d] \in Device \cup {Nil}
  BY <1>2, NilIsNoDevice DEF DevicesInv, DevicesTypeOK
<1>5. CASE operator[o].op = "create"
  <2>1. device' = [device EXCEPT ![d] = IF device[d] = Nil THEN row ELSE device[d]]
    BY <1>5 DEF SaveDevice
  <2> QED
    BY <1>1, <1>3, <1>4, <2>1 DEF DevicesInv, DevicesTypeOK
<1>6. CASE operator[o].op = "remove"
  <2>1. device[d] \in Device
    BY <1>4, <1>6 DEF DevicesInv, OperatorsKnow
  <2>2. device[d].user \in Users \cup {Nil}
    BY <2>1 DEF Device
  <2>3. /\ [row EXCEPT !.user = device[d].user] \in Device
        /\ [row EXCEPT !.user = device[d].user].user = device[d].user
    BY <1>4, <2>2 DEF Device
  <2>4. device' = [device EXCEPT ![d] = [row EXCEPT !.user = device[d].user]]
    BY <1>6 DEF SaveDevice
  <2> QED
    BY <1>1, <1>3, <1>4, <2>3, <2>4, NilIsNoDevice DEF DevicesInv, DevicesTypeOK
<1>7. CASE operator[o].op \in {"update", "assign"}
  <2>1. device' = [device EXCEPT ![d] = row]
    BY <1>7 DEF SaveDevice
  <2> QED
    BY <1>1, <1>3, <1>4, <1>7, <2>1 DEF DevicesInv, DevicesTypeOK
<1> QED
  BY <1>2, <1>5, <1>6, <1>7

LEMMA RequestsKeep ==
  ASSUME DevicesInv, NEW o \in Operators, SaveDevice(o) \/ OperationFails(o)
  PROVE  DevicesInv'
<1>1. CASE SaveDevice(o)
  BY <1>1, SavedDevice, OperationEndsKeeps DEF SaveDevice
<1>2. CASE OperationFails(o)
  BY <1>2, OperationEndsKeeps DEF OperationFails, DevicesInv, DevicesTypeOK
<1> QED
  BY <1>1, <1>2

-----------------------------------------------------------------------------
(* The ticks.                                                               *)

LEMMA TickIs ==
  ASSUME DevicesInv, NEW t \in Ticks
  PROVE  /\ t \in Callers /\ sync[t] \in Sync
         /\ sync[t] # NoSync => sync[t].pc \in {"find", "found", "save"}
BY WowzaAssumption DEF DevicesInv, DevicesTypeOK, Sync, NoSync

\* What a tick saves of a device is a device, and nothing of one that is not
\* there.
LEMMA SyncedIs ==
  ASSUME NEW row \in Device \cup {Nil}, NEW names
  PROVE  Synced(row, names) \in Device \cup {Nil} /\ (Synced(row, names) # Nil => row # Nil)
BY DEF Synced, Device, DeviceStatus

\* A step of a tick that leaves the requests alone and makes no device vanish.
LEMMA StepOfTick ==
  ASSUME DevicesInv, NEW t \in Ticks, NEW s \in Sync, sync' = [sync EXCEPT ![t] = s],
         WowzaTypeOK', CallsKnow', \A u \in Ticks : u # t => caller'[u] = caller[u],
         operator' = operator, device' \in [Devices -> Device \cup {Nil}],
         \A d \in Devices : device[d] # Nil => device'[d] # Nil,
         caller'[t].pc \in {"idle", "get", "fetch", "store", "answered"},
         s.pc \in {"find", "found"} <=> caller'[t] # Silent,
         s.pc \in {"found", "save"} =>
           /\ s.rows \in [Devices -> Device \cup {Nil}]
           /\ \A d \in Devices : s.rows[d] # Nil => device[d] # Nil
  PROVE  DevicesInv'
<1>1. \A u \in Ticks : sync'[u] = IF u = t THEN s ELSE sync[u]
  BY DEF DevicesInv, DevicesTypeOK
<1>2. DevicesTypeOK'
  BY DEF DevicesInv, DevicesTypeOK
<1>3. TicksWait'
  BY <1>1 DEF DevicesInv, TicksWait
<1>4. TicksKnow'
  BY <1>1 DEF DevicesInv, TicksKnow
<1>5. ASSUME NEW o \in Operators, operator[o].op \in {"update", "remove", "assign"}
      PROVE  device'[operator[o].device] # Nil
  <2>1. operator[o].device \in Devices
    BY <1>5, Idlers DEF DevicesInv, DevicesTypeOK, Operation
  <2> QED
    BY <1>5, <2>1 DEF DevicesInv, OperatorsKnow
<1>6. OperatorsKnow'
  BY <1>5 DEF OperatorsKnow
<1> QED
  BY <1>2, <1>3, <1>4, <1>6 DEF DevicesInv

LEMMA CallOverKeeps ==
  ASSUME WowzaTypeOK, CallsKnow, NEW t \in Ticks, CallEnds(t), UNCHANGED <<host, live, cache, available>>
  PROVE  /\ WowzaTypeOK' /\ CallsKnow' /\ caller'[t] = Silent
         /\ \A u \in Ticks : u # t => caller'[u] = caller[u]
<1>1. t \in Callers /\ caller' = [caller EXCEPT ![t] = Silent]
  BY WowzaAssumption DEF CallEnds
<1>2. WowzaTypeOK' /\ CallsKnow'
  BY <1>1, SilentIs, StepOfCall DEF WowzaTypeOK
<1>3. caller'[t] = Silent /\ \A u \in Ticks : u # t => caller'[u] = caller[u]
  BY <1>1, WowzaAssumption DEF WowzaTypeOK
<1> QED
  BY <1>2, <1>3

LEMMA StartSyncKeeps ==
  ASSUME DevicesInv, NEW t \in Ticks, StartSync(t)
  PROVE  DevicesInv'
<1>1. t \in Callers /\ StartCall(t, "get", Nil)
  BY TickIs DEF StartSync, GetIncomingStreams
<1>2. WowzaTypeOK /\ CallsKnow
  BY DEF DevicesInv, DevicesTypeOK
<1>3. /\ WowzaTypeOK' /\ CallsKnow'
      /\ \E k : caller' = [caller EXCEPT ![t] = k] /\ k.pc = "get"
  BY <1>1, <1>2, StartCallKeeps
<1>4. caller'[t].pc = "get" /\ \A u \in Ticks : u # t => caller'[u] = caller[u]
  BY <1>1, <1>2, <1>3, WowzaAssumption DEF WowzaTypeOK
<1>5. caller'[t] # Silent
  BY <1>4, SilentIs
<1>6. PICK s \in Sync : s = [pc |-> "find", rows |-> Nil]
  BY DEF Sync
<1>7. /\ sync' = [sync EXCEPT ![t] = s] /\ s.pc = "find"
      /\ operator' = operator /\ device' = device
  BY <1>6 DEF StartSync, SyncGoes
<1>8. device' \in [Devices -> Device \cup {Nil}]
  BY <1>7 DEF DevicesInv, DevicesTypeOK
<1> QED
  BY <1>3, <1>4, <1>5, <1>7, <1>8, StepOfTick

LEMMA FindDevicesKeeps ==
  ASSUME DevicesInv, NEW t \in Ticks, FindDevices(t)
  PROVE  DevicesInv'
<1>1. device \in [Devices -> Device \cup {Nil}]
  BY DEF DevicesInv, DevicesTypeOK
<1>2. PICK s \in Sync : s = [pc |-> "found", rows |-> device]
  BY <1>1 DEF Sync
<1>3. /\ sync' = [sync EXCEPT ![t] = s] /\ s.pc = "found" /\ s.rows = device
      /\ operator' = operator /\ device' = device /\ UNCHANGED wowzaVars
  BY <1>2 DEF FindDevices, SyncGoes
<1>4. /\ WowzaTypeOK' /\ CallsKnow' /\ caller' = caller
  BY <1>3 DEF DevicesInv, DevicesTypeOK, WowzaTypeOK, CallsKnow, CallKnows, wowzaVars
<1>5. /\ caller[t].pc \in {"idle", "get", "fetch", "store", "answered"}
      /\ caller[t] # Silent
  BY DEF FindDevices, DevicesInv, TicksWait
<1> QED
  BY <1>1, <1>3, <1>4, <1>5, StepOfTick

LEMMA CompareKeeps ==
  ASSUME DevicesInv, NEW t \in Ticks, Compare(t)
  PROVE  DevicesInv'
<1> DEFINE rows == [d \in Devices |-> Synced(sync[t].rows[d], caller[t].answer)]
<1>1. /\ sync[t].rows \in [Devices -> Device \cup {Nil}]
      /\ \A d \in Devices : sync[t].rows[d] # Nil => device[d] # Nil
  BY DEF Compare, DevicesInv, TicksKnow
<1>2. rows \in [Devices -> Device \cup {Nil}] /\ \A d \in Devices : rows[d] # Nil => device[d] # Nil
  BY <1>1, SyncedIs
<1> HIDE DEF rows
<1>3. PICK s \in {NoSync, [pc |-> "save", rows |-> rows]} : sync' = [sync EXCEPT ![t] = s]
  BY DEF Compare, SyncGoes, rows
<1>4. NoSync \in Sync /\ [pc |-> "save", rows |-> rows] \in Sync
  BY <1>2 DEF Sync
<1>5. s \in Sync /\ s.pc \notin {"find", "found"} /\ (s.pc = "save" => s.rows = rows)
  BY <1>3, <1>4, Idlers
<1>6. WowzaTypeOK /\ CallsKnow
  BY DEF DevicesInv, DevicesTypeOK
<1>7. CallEnds(t) /\ UNCHANGED <<host, live, cache, available, device, operator>>
  BY DEF Compare
<1>8. /\ WowzaTypeOK' /\ CallsKnow' /\ caller'[t] = Silent
      /\ \A u \in Ticks : u # t => caller'[u] = caller[u]
  BY <1>6, <1>7, CallOverKeeps
<1>9. device' \in [Devices -> Device \cup {Nil}]
  BY <1>7 DEF DevicesInv, DevicesTypeOK
<1> QED
  BY <1>2, <1>3, <1>5, <1>7, <1>8, <1>9, SilentIs, StepOfTick

\* The transaction of a tick: every device it saves is there, and keeps whom it
\* is assigned to.
LEMMA SavedBySync ==
  ASSUME DevicesInv, NEW t \in Ticks, SaveSync(t)
  PROVE  /\ device' \in [Devices -> Device \cup {Nil}]
         /\ \A d \in Devices :
              device[d] # Nil => device'[d] # Nil /\ device'[d].user = device[d].user
<1>1. /\ sync[t].rows \in [Devices -> Device \cup {Nil}]
      /\ \A d \in Devices : sync[t].rows[d] # Nil => device[d] # Nil
  BY DEF SaveSync, DevicesInv, TicksKnow
<1>2. device \in [Devices -> Device \cup {Nil}]
  BY DEF DevicesInv, DevicesTypeOK
<1>3. device' = [d \in Devices |-> IF sync[t].rows[d] = Nil THEN device[d]
                                  ELSE [sync[t].rows[d] EXCEPT !.user = device[d].user]]
  BY DEF SaveSync
<1>4. ASSUME NEW d \in Devices
      PROVE  /\ device'[d] \in Device \cup {Nil}
             /\ device[d] # Nil => device'[d] # Nil /\ device'[d].user = device[d].user
  <2>1. CASE sync[t].rows[d] = Nil
    BY <1>2, <1>3, <2>1
  <2>2. CASE sync[t].rows[d] # Nil
    <3>1. device[d] \in Device /\ sync[t].rows[d] \in Device
      BY <1>1, <1>2, <2>2
    <3>2. /\ [sync[t].rows[d] EXCEPT !.user = device[d].user] \in Device
          /\ [sync[t].rows[d] EXCEPT !.user = device[d].user].user = device[d].user
      BY <3>1 DEF Device
    <3> QED
      BY <1>3, <2>2, <3>2, NilIsNoDevice
  <2> QED
    BY <2>1, <2>2
<1> QED
  BY <1>3, <1>4

LEMMA SaveSyncKeeps ==
  ASSUME DevicesInv, NEW t \in Ticks, SaveSync(t)
  PROVE  DevicesInv'
<1>1. /\ sync' = [sync EXCEPT ![t] = NoSync] /\ operator' = operator /\ UNCHANGED wowzaVars
  BY DEF SaveSync, SyncGoes
<1>2. WowzaTypeOK' /\ CallsKnow' /\ caller' = caller
  BY <1>1 DEF DevicesInv, DevicesTypeOK, WowzaTypeOK, CallsKnow, CallKnows, wowzaVars
<1>3. caller[t] = Silent
  BY DEF SaveSync, DevicesInv, TicksWait
<1>4. caller'[t].pc = "idle" /\ caller'[t] = Silent
  BY <1>2, <1>3, SilentIs
<1> QED
  BY <1>1, <1>2, <1>4, Idlers, SavedBySync, StepOfTick

LEMMA SyncFailsKeeps ==
  ASSUME DevicesInv, NEW t \in Ticks, SyncFails(t)
  PROVE  DevicesInv'
<1>1. /\ sync' = [sync EXCEPT ![t] = NoSync] /\ CallEnds(t)
      /\ UNCHANGED <<host, live, cache, available, device, operator>>
  BY DEF SyncFails, SyncGoes
<1>2. WowzaTypeOK /\ CallsKnow
  BY DEF DevicesInv, DevicesTypeOK
<1>3. /\ WowzaTypeOK' /\ CallsKnow' /\ caller'[t] = Silent
      /\ \A u \in Ticks : u # t => caller'[u] = caller[u]
  BY <1>1, <1>2, CallOverKeeps
<1>4. device' \in [Devices -> Device \cup {Nil}]
  BY <1>1 DEF DevicesInv, DevicesTypeOK
<1> QED
  BY <1>1, <1>3, <1>4, Idlers, SilentIs, StepOfTick

-----------------------------------------------------------------------------
(* Everybody else.                                                          *)

\* The client of Wowza moves, and no tick loses the answer it waits for.
LEMMA WowzaActsKeeps ==
  ASSUME DevicesInv, WowzaActs
  PROVE  DevicesInv'
<1>1. UNCHANGED <<device, operator, sync>>
  BY DEF WowzaActs
<1>2. WowzaTypeOK /\ CallsKnow
  BY DEF DevicesInv, DevicesTypeOK
<1>3. SUFFICES ASSUME TRUE
               PROVE  /\ WowzaTypeOK' /\ CallsKnow'
                      /\ \A t \in Ticks : \/ caller'[t] = caller[t]
                                          \/ /\ caller[t] # Silent
                                             /\ caller'[t].pc \in {"get", "fetch", "store", "answered"}
  <2>1. DevicesTypeOK'
    BY <1>1, <1>3 DEF DevicesInv, DevicesTypeOK
  <2>2. TicksWait'
    BY <1>1, <1>3, SilentIs DEF DevicesInv, TicksWait
  <2>3. TicksKnow' /\ OperatorsKnow'
    BY <1>1 DEF DevicesInv, TicksKnow, OperatorsKnow
  <2> QED
    BY <1>3, <2>1, <2>2, <2>3 DEF DevicesInv
<1>4. ASSUME NEW c \in Callers, WowzaStep(c)
      PROVE  /\ WowzaTypeOK' /\ CallsKnow'
             /\ \A t \in Ticks : \/ caller'[t] = caller[t]
                                 \/ /\ caller[t] # Silent
                                    /\ caller'[t].pc \in {"get", "fetch", "store", "answered"}
  <2>1. /\ WowzaTypeOK' /\ CallsKnow' /\ caller[c] # Silent
        /\ \E k : /\ caller' = [caller EXCEPT ![c] = k]
                  /\ c \in Ticks /\ caller[c].pc \in {"get", "fetch", "store", "answered"} =>
                       k.pc \in {"fetch", "store", "answered"}
    BY <1>2, <1>4, CallStepKeeps
  <2>2. \A t \in Ticks : caller[t] # Silent => caller[t].pc \in {"get", "fetch", "store", "answered"}
    <3>1. ASSUME NEW t \in Ticks, caller[t] # Silent PROVE caller[t].pc # "idle"
      BY <1>2, <3>1, WowzaAssumption, ActiveCall
    <3> QED
      BY <3>1 DEF DevicesInv, TicksWait
  <2> QED
    BY <2>1, <2>2, WowzaAssumption DEF DevicesInv, DevicesTypeOK, WowzaTypeOK
<1>5. ASSUME NEW c \in Callers, c \notin Ticks, WowzaRequest(c)
      PROVE  WowzaTypeOK' /\ CallsKnow' /\ \A t \in Ticks : caller'[t] = caller[t]
  <2>1. PICK n \in Names \cup {Nil}, pc \in {"get", "connect", "disconnect"} :
          StartCall(c, pc, n) /\ (pc # "get" => n \in Names)
    BY <1>5 DEF WowzaRequest, GetIncomingStreams, ConnectStream, DisconnectStream
  <2>2. /\ WowzaTypeOK' /\ CallsKnow'
        /\ \E k : caller' = [caller EXCEPT ![c] = k] /\ k.pc = pc
    BY <1>2, <2>1, StartCallKeeps
  <2> QED
    BY <1>5, <2>2, WowzaAssumption DEF DevicesInv, DevicesTypeOK, WowzaTypeOK
<1>6. CASE WowzaEnvironment
  BY <1>2, <1>6, EnvironmentKeeps
<1> QED
  BY <1>4, <1>5, <1>6 DEF WowzaActs

LEMMA CrashKeeps ==
  ASSUME DevicesInv, Crash
  PROVE  DevicesInv'
<1>1. /\ \A c \in Callers : caller'[c] = Silent
      /\ \A t \in Ticks : sync'[t] = NoSync
      /\ \A o \in Operators : operator'[o] = NoOperation
  BY DEF Crash, WowzaCrash
<1>2. DevicesTypeOK'
  BY SilentIs, Idlers DEF Crash, WowzaCrash, DevicesInv, DevicesTypeOK, WowzaTypeOK
<1>3. CallsKnow' /\ TicksWait'
  BY <1>1, SilentIs, Idlers, WowzaAssumption DEF CallsKnow, CallKnows, TicksWait
<1>4. TicksKnow' /\ OperatorsKnow'
  BY <1>1, Idlers DEF TicksKnow, OperatorsKnow
<1> QED
  BY <1>2, <1>3, <1>4 DEF DevicesInv

LEMMA StutterKeeps ==
  ASSUME DevicesInv, UNCHANGED deviceVars
  PROVE  DevicesInv'
BY DEF deviceVars, DevicesInv, DevicesTypeOK, WowzaTypeOK, CallsKnow, CallKnows, TicksWait,
       TicksKnow, OperatorsKnow

-----------------------------------------------------------------------------
(* The theorems.                                                            *)

LEMMA InitDevices == DevicesInit => DevicesInv
<1> SUFFICES ASSUME DevicesInit PROVE DevicesInv
  OBVIOUS
<1>1. DevicesTypeOK
  BY SilentIs, Idlers DEF DevicesInit, WowzaInit, DevicesTypeOK, WowzaTypeOK
<1>2. CallsKnow /\ TicksWait
  BY SilentIs, Idlers, WowzaAssumption DEF DevicesInit, WowzaInit, CallsKnow, TicksWait
<1>3. TicksKnow /\ OperatorsKnow
  BY Idlers DEF DevicesInit, TicksKnow, OperatorsKnow
<1> QED
  BY <1>1, <1>2, <1>3 DEF DevicesInv

LEMMA NextDevices == DevicesInv /\ [DevicesNext]_deviceVars => DevicesInv'
<1> SUFFICES ASSUME DevicesInv, [DevicesNext]_deviceVars PROVE DevicesInv'
  OBVIOUS
<1>1. ASSUME NEW o \in Operators, StartOperation(o) \/ SaveDevice(o) \/ OperationFails(o)
      PROVE  DevicesInv'
  BY <1>1, StartOperationKeeps, RequestsKeep
<1>2. ASSUME NEW t \in Ticks, SyncStep(t) PROVE DevicesInv'
  BY <1>2, StartSyncKeeps, FindDevicesKeeps, CompareKeeps, SaveSyncKeeps, SyncFailsKeeps
     DEF SyncStep
<1> QED
  BY <1>1, <1>2, WowzaActsKeeps, CrashKeeps, StutterKeeps DEF DevicesNext

LEMMA AlwaysDevicesInv == DevicesSpec => []DevicesInv
BY InitDevices, NextDevices, PTL DEF DevicesSpec

\* The table of devices, the client of Wowza with its cache, the ticks and the
\* requests keep their types: in particular no save of device-sync.service or
\* devices.service ever writes a device that was not there.
THEOREM DevicesTypes == DevicesSpec => []DevicesTypeOK
<1>1. DevicesInv => DevicesTypeOK
  BY DEF DevicesInv
<1> QED
  BY <1>1, AlwaysDevicesInv, PTL

\* What a step does to a device that is there.
LEMMA DeviceStep ==
  ASSUME DevicesInv, [DevicesNext]_deviceVars, NEW d \in Devices, device[d] # Nil
  PROVE  /\ device'[d] # Nil
         /\ \/ device'[d].user = device[d].user
            \/ \E o \in Operators :
                 /\ operator[o].op \in {"update", "assign"} /\ operator[o].device = d
                 /\ operator'[o] # operator[o]
<1>1. CASE device' = device
  BY <1>1
<1>2. ASSUME NEW o \in Operators, SaveDevice(o)
      PROVE  /\ device'[d] # Nil
             /\ \/ device'[d].user = device[d].user
                \/ /\ operator[o].op \in {"update", "assign"} /\ operator[o].device = d
                   /\ operator'[o] # operator[o]
  BY <1>2, SavedDevice
<1>3. ASSUME NEW t \in Ticks, SaveSync(t)
      PROVE  device'[d] # Nil /\ device'[d].user = device[d].user
  BY <1>3, SavedBySync
<1>4. \/ device' = device
      \/ \E o \in Operators : SaveDevice(o)
      \/ \E t \in Ticks : SaveSync(t)
  BY DEF DevicesNext, StartOperation, CreateDevice, UpdateDevice, UpdateStatus, RemoveDevice,
         AssignToUser, UnassignFromUser, Operate, OperationFails, SyncStep, StartSync, FindDevices,
         Compare, SyncFails, WowzaActs, Crash, deviceVars
<1> QED
  BY <1>1, <1>2, <1>3, <1>4

\* However ticks, assignments, failures and crashes interleave, a tick of
\* device-sync.service changes no assignment: only the save of a request of
\* devices.service that updates or assigns that device does.
THEOREM SyncNeverReassigns == DevicesSpec => SyncKeepsAssignments
<1>1. DevicesInv /\ [DevicesNext]_deviceVars =>
        [\A d \in Devices :
           device[d] # Nil /\ device'[d] # device[d] /\ device'[d].user # device[d].user =>
             \E o \in Operators :
               operator[o].op \in {"update", "assign"} /\ operator[o].device = d
                 /\ operator'[o] # operator[o]]_deviceVars
  BY DeviceStep
<1> QED
  BY <1>1, AlwaysDevicesInv, PTL DEF DevicesSpec, SyncKeepsAssignments

\* A device that is in the table stays there, however requests and ticks save
\* what they loaded before, fail and are cut off.
THEOREM DevicesAlwaysRemain == DevicesSpec => DevicesRemain
<1>1. DevicesInv /\ [DevicesNext]_deviceVars =>
        [\A d \in Devices : device[d] # Nil => device'[d] # Nil]_deviceVars
  BY DeviceStep
<1> QED
  BY <1>1, AlwaysDevicesInv, PTL DEF DevicesSpec, DevicesRemain
=============================================================================
