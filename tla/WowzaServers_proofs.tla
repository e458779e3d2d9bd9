-------------------------- MODULE WowzaServers_proofs --------------------------
(***************************************************************************)
(* Theorems about the table of Wowza servers when administrators edit it   *)
(* one at a time.                                                          *)
(***************************************************************************)
EXTENDS WowzaServers, TLAPS

-----------------------------------------------------------------------------
(* What the helpers do.                                                     *)

LEMMA IdleCall ==
  /\ NoCall \in ServerCall
  /\ NoCall.op = "none" /\ NoCall.pc = "idle"
BY DEF NoCall, ServerCall

LEMMA ActiveCall ==
  ASSUME ServersTypeOK, NEW c \in Calls, call[c].op # "none" \/ call[c].pc # "idle"
  PROVE  /\ call[c] # NoCall
         /\ call[c] \in
              [op : {"create", "update", "setDefault", "remove", "test"},
               pc : {"check", "reset", "save", "snapshot", "commit", "delete", "fetch"},
               id : Servers \cup {Gone}, row : ServerRow \cup {Gone}, reset : BOOLEAN,
               seen : SUBSET Servers]
BY DEF ServersTypeOK, ServerCall, NoCall

LEMMA StartCallIs ==
  ASSUME ServersTypeOK, NEW c \in Calls,
         NEW o \in {"create", "update", "setDefault", "remove", "test"},
         NEW pc \in {"check", "reset", "save", "snapshot", "delete", "fetch"},
         NEW s \in Servers \cup {Gone}, NEW row \in ServerRow \cup {Gone}, NEW reset \in BOOLEAN,
         StartCall(c, o, pc, s, row, reset)
  PROVE  /\ call' \in [Calls -> ServerCall] /\ UNCHANGED server
         /\ call[c] = NoCall /\ call'[c] # NoCall
         /\ call'[c].op = o /\ call'[c].pc = pc /\ call'[c].id = s /\ call'[c].row = row
         /\ call'[c].reset = reset /\ call'[c].seen = {}
         /\ \A e \in Calls : e # c => call'[e] = call[e]
<1> DEFINE new == [op |-> o, pc |-> pc, id |-> s, row |-> row, reset |-> reset, seen |-> {}]
<1>1. new \in ServerCall /\ new # NoCall
  BY DEF ServerCall, NoCall
<1>2. call' = [call EXCEPT ![c] = new] /\ call[c] = NoCall /\ UNCHANGED server
  BY DEF StartCall
<1>3. /\ new.op = o /\ new.pc = pc /\ new.id = s /\ new.row = row
      /\ new.reset = reset /\ new.seen = {}
  OBVIOUS
<1> HIDE DEF new
<1> QED
  BY <1>1, <1>2, <1>3 DEF ServersTypeOK

LEMMA CallGoesIs ==
  ASSUME ServersTypeOK, NEW c \in Calls, call[c].pc # "idle", NEW pc \in {"reset", "save"},
         CallGoes(c, pc)
  PROVE  /\ call' \in [Calls -> ServerCall]
         /\ call'[c].pc = pc /\ call'[c].pc # "idle"
         /\ call'[c].op = call[c].op /\ call'[c].id = call[c].id /\ call'[c].row = call[c].row
         /\ call'[c].reset = call[c].reset /\ call'[c].seen = call[c].seen
         /\ \A e \in Calls : e # c => call'[e] = call[e]
<1>1. call' = [call EXCEPT ![c] = [call[c] EXCEPT !.pc = pc]]
  BY DEF CallGoes, ServersTypeOK
<1>2. [call[c] EXCEPT !.pc = pc] \in ServerCall
  BY ActiveCall DEF ServerCall
<1> QED
  BY <1>1, <1>2, ActiveCall DEF ServersTypeOK

LEMMA CallEndsIs ==
  ASSUME ServersTypeOK, NEW c \in Calls, CallEnds(c)
  PROVE  /\ call' \in [Calls -> ServerCall] /\ call'[c] = NoCall
         /\ \A e \in Calls : e # c => call'[e] = call[e]
BY IdleCall DEF CallEnds, ServersTypeOK

LEMMA ClearDefaultsIs ==
  ASSUME ServersTypeOK, NEW ss \in SUBSET Servers
  PROVE  /\ ClearDefaults(ss) \in [Servers -> ServerRow \cup {Gone}]
         /\ \A s \in Servers :
              /\ ClearDefaults(ss)[s] = Gone <=> server[s] = Gone
              /\ server[s] # Gone => ClearDefaults(ss)[s].name = server[s].name
              /\ server[s] # Gone /\ s \notin ss => ClearDefaults(ss)[s] = server[s]
              /\ server[s] # Gone /\ s \in ss => ~ClearDefaults(ss)[s].isDefault
<1>1. \A s \in Registered : /\ [server[s] EXCEPT !.isDefault = FALSE] \in ServerRow
                            /\ [server[s] EXCEPT !.isDefault = FALSE].name = server[s].name
                            /\ ~[server[s] EXCEPT !.isDefault = FALSE].isDefault
  BY DEF ServersTypeOK, Registered, ServerRow
<1>2. \A s \in Registered : [server[s] EXCEPT !.isDefault = FALSE] # Gone
  BY <1>1, GoneIsNoRow
<1> QED
  BY <1>1, <1>2 DEF ClearDefaults, Registered, ServersTypeOK

\* With its type, a row or nothing.
LEMMA RowOrGone ==
  ASSUME ServersTypeOK, NEW s \in Servers
  PROVE  (s \in Registered => server[s] \in ServerRow) /\ (s \notin Registered => server[s] = Gone)
BY GoneIsNoRow DEF ServersTypeOK, Registered

\* A test writes two columns that nobody reads before writing.
LEMMA RecordKeeps ==
  ASSUME ServersTypeOK, NEW c \in Calls, NEW verdict \in {"ok", "failed"},
         RecordTest(c, verdict), call[c].op = "test" => call[c].id \in Servers
  PROVE  /\ server' \in [Servers -> ServerRow \cup {Gone}]
         /\ Registered' = Registered /\ Defaults' = Defaults
         /\ \A n : Named(n)' = Named(n)
         /\ Settings' = Settings
<1> DEFINE s == call[c].id
           new == [server[s] EXCEPT !.tested = verdict]
<1>1. server' = [server EXCEPT ![s] = IF @ = Gone THEN @ ELSE [@ EXCEPT !.tested = verdict]]
  BY DEF RecordTest
<1>2. CASE s \notin Registered
  <2>1. server' = server
    BY <1>1, <1>2 DEF ServersTypeOK, Registered
  <2> QED
    BY <2>1 DEF Registered, Defaults, Named, Settings, ServersTypeOK
<1>3. CASE s \in Registered
  <2>1. server' = [server EXCEPT ![s] = new] /\ s \in Servers /\ server[s] \in ServerRow
    BY <1>1, <1>3, RowOrGone DEF Registered, ServersTypeOK
  <2>2. /\ new \in ServerRow /\ new # Gone
        /\ new.name = server[s].name /\ new.isDefault = server[s].isDefault
        /\ [new EXCEPT !.tested = "never"] = [server[s] EXCEPT !.tested = "never"]
    BY <2>1, GoneIsNoRow DEF ServerRow
  <2> HIDE DEF new, s
  <2>3. server' \in [Servers -> ServerRow \cup {Gone}]
    BY <2>1, <2>2 DEF ServersTypeOK
  <2>4. /\ server'[s] = new /\ \A t \in Servers : t # s => server'[t] = server[t]
    BY <2>1 DEF ServersTypeOK
  <2>5. Registered' = Registered
    BY <1>3, <2>2, <2>4 DEF Registered
  <2>8. \A t \in Registered : /\ server'[t].name = server[t].name
                              /\ server'[t].isDefault = server[t].isDefault
    BY <2>2, <2>4 DEF Registered
  <2>6. Defaults' = Defaults /\ \A n : Named(n)' = Named(n)
    BY <2>5, <2>8 DEF Defaults, Named
  <2>7. Settings' = Settings
    BY <2>2, <2>4, <2>5 DEF Settings, Registered
  <2> QED
    BY <2>3, <2>5, <2>6, <2>7
<1> QED
  BY <1>2, <1>3

-----------------------------------------------------------------------------
(* The inductive invariant.                                                 *)

\* A call that is idle or a test knows nothing that an editor could change.
LEMMA QuietKnows ==
  ASSUME ServersTypeOK, NEW c \in Calls, Knows(c), call[c] = NoCall \/ call[c].op = "test",
         call'[c] = call[c]
  PROVE  Knows(c)'
<1>1. CASE call[c] = NoCall
  BY <1>1 DEF Knows, NoCall
<1>2. CASE call[c].op = "test"
  BY <1>2 DEF Knows
<1> QED
  BY <1>1, <1>2

LEMMA EndedKnows ==
  ASSUME NEW c \in Calls, call'[c] = NoCall PROVE Knows(c)'
BY DEF Knows, NoCall

\* While one editor is at work, the other calls are quiet.
LEMMA OthersAreQuiet ==
  ASSUME ServersInv, NEW c \in Calls, call[c].op \notin {"none", "test"},
         NEW e \in Calls, e # c
  PROVE  call[e] = NoCall \/ call[e].op = "test"
<1>1. call[c] # NoCall
  BY IdleCall
<1>2. c \in Editors
  BY <1>1 DEF ServersInv, OneEditor
<1> QED
  BY <1>1, <1>2 DEF ServersInv, OneEditor

\* So a step of one editor that keeps what it knows itself keeps the rest.
LEMMA EditorStep ==
  ASSUME ServersInv, NEW c \in Calls, call[c].op \notin {"none", "test"},
         call' \in [Calls -> ServerCall], call'[c] = NoCall \/ call'[c].op = call[c].op,
         \A e \in Calls : e # c => call'[e] = call[e],
         server' \in [Servers -> ServerRow \cup {Gone}],
         Knows(c)', NamesUnique', AtMostOneDefault'
  PROVE  ServersInv'
<1>1. ServersTypeOK'
  BY DEF ServersTypeOK
<1>2. EditorKnows'
  BY OthersAreQuiet, QuietKnows DEF EditorKnows, ServersInv
<1>3. OneEditor'
  BY IdleCall, ServersAssumption DEF ServersInv, OneEditor
<1> QED
  BY <1>1, <1>2, <1>3 DEF ServersInv

LEMMA StartStep ==
  ASSUME ServersInv, NEW c \in Calls,
         c \in Editors => \A e \in Editors : call[e] = NoCall,
         call[c] = NoCall, call' \in [Calls -> ServerCall], UNCHANGED server,
         c \notin Editors => call'[c].op = "test",
         \A e \in Calls : e # c => call'[e] = call[e],
         Knows(c)'
  PROVE  ServersInv'
<1>1. ServersTypeOK' /\ NamesUnique' /\ AtMostOneDefault'
  BY DEF ServersInv, ServersTypeOK, NamesUnique, AtMostOneDefault, Defaults, Registered
<1>2. EditorKnows'
  <2> SUFFICES ASSUME NEW e \in Calls, e # c PROVE Knows(e)'
    BY DEF EditorKnows
  <2> QED
    BY DEF ServersInv, EditorKnows, Knows, Registered, Defaults, Named
<1>3. OneEditor'
  BY ServersAssumption DEF ServersInv, OneEditor
<1> QED
  BY <1>1, <1>2, <1>3 DEF ServersInv

LEMMA EditKeeps ==
  ASSUME ServersInv, NEW c \in Editors, \A e \in Editors : call[e] = NoCall, Edit(c)
  PROVE  ServersInv'
<1> c \in Calls
  BY ServersAssumption
<1> ServersTypeOK
  BY DEF ServersInv
<1>1. ASSUME NEW o \in {"create", "update", "setDefault", "remove"},
             NEW pc \in {"check", "reset", "save", "snapshot", "delete"},
             NEW s \in Servers \cup {Gone}, NEW row \in ServerRow \cup {Gone},
             NEW reset \in BOOLEAN, StartCall(c, o, pc, s, row, reset),
             o = "create" => /\ pc \in {"reset", "save"} /\ s = Gone,
             o = "update" => /\ pc \in {"check", "reset", "save"} /\ s \in Registered,
             o = "setDefault" <=> pc = "snapshot", o = "remove" <=> pc = "delete",
             o \in {"setDefault", "remove"} => s \in Servers,
             o \in {"create", "update"} => row \in ServerRow,
             pc = "delete" => s \notin Defaults,
             pc \in {"reset", "save"} => Named(row.name) \subseteq {s},
             pc = "save" /\ row.isDefault => Defaults \subseteq {s},
             pc \in {"check", "save"} /\ ~reset /\ row.isDefault => s \in Defaults,
             pc = "reset" => reset
      PROVE  ServersInv'
  <2>1. /\ call' \in [Calls -> ServerCall] /\ UNCHANGED server
        /\ call[c] = NoCall
        /\ call'[c].op = o /\ call'[c].pc = pc /\ call'[c].id = s /\ call'[c].row = row
        /\ call'[c].reset = reset
        /\ \A e \in Calls : e # c => call'[e] = call[e]
    BY <1>1, StartCallIs
  <2>2. Knows(c)'
    BY <1>1, <2>1 DEF Knows, Registered, Defaults, Named
  <2> QED
    BY <2>1, <2>2, StartStep
<1>2. ASSUME NEW row \in ServerRow, CreateServer(c, row) PROVE ServersInv'
  <2>1. /\ Named(row.name) = {} /\ row.isDefault \in BOOLEAN
        /\ StartCall(c, "create", IF row.isDefault THEN "reset" ELSE "save",
                     Gone, row, row.isDefault)
    BY <1>2 DEF CreateServer, AfterCheck, ServerRow
  <2>2. CASE row.isDefault
    <3>1. StartCall(c, "create", "reset", Gone, row, row.isDefault)
      BY <2>1, <2>2
    <3> QED
      BY <1>1, <2>1, <2>2, <3>1
  <2>3. CASE ~row.isDefault
    <3>1. StartCall(c, "create", "save", Gone, row, row.isDefault)
      BY <2>1, <2>3
    <3> QED
      BY <1>1, <2>1, <2>3, <3>1
  <2> QED
    BY <2>2, <2>3
<1>3. ASSUME NEW s \in Servers, NEW name \in Names, NEW default \in {"keep", "yes", "no"},
             NEW active \in BOOLEAN, UpdateServer(c, s, name, default, active)
      PROVE  ServersInv'
  <2> DEFINE row == [server[s] EXCEPT !.name = name, !.isActive = active, !.isDefault =
                       IF default = "keep" THEN @ ELSE default = "yes"]
  <2>1. /\ s \in Registered /\ server[s] \in ServerRow
        /\ StartCall(c, "update",
             IF name # server[s].name THEN "check" ELSE AfterCheck(default = "yes"),
             s, row, default = "yes")
    BY <1>3, RowOrGone DEF UpdateServer
  <2>2. /\ row \in ServerRow /\ row.name = name
        /\ default # "yes" /\ row.isDefault => server[s].isDefault
    BY <2>1 DEF ServerRow
  <2> HIDE DEF row
  <2>3. Named(server[s].name) \subseteq {s}
    BY <2>1 DEF ServersInv, NamesUnique, Named
  <2>4. s \in Defaults => Defaults \subseteq {s}
    BY DEF ServersInv, AtMostOneDefault
  <2>5. default # "yes" /\ row.isDefault => s \in Defaults
    BY <2>1, <2>2 DEF Defaults
  <2>6. CASE name # server[s].name
    <3>1. StartCall(c, "update", "check", s, row, default = "yes")
      BY <2>1, <2>6
    <3> QED
      BY <1>1, <2>1, <2>2, <2>5, <3>1
  <2>7. CASE name = server[s].name /\ default = "yes"
    <3>1. StartCall(c, "update", "reset", s, row, TRUE)
      BY <2>1, <2>7 DEF AfterCheck
    <3> QED
      BY <1>1, <2>1, <2>2, <2>3, <2>7, <3>1
  <2>8. CASE name = server[s].name /\ default # "yes"
    <3>1. StartCall(c, "update", "save", s, row, FALSE)
      BY <2>1, <2>8 DEF AfterCheck
    <3> QED
      BY <1>1, <2>1, <2>2, <2>3, <2>4, <2>5, <2>8, <3>1
  <2> QED
    BY <2>6, <2>7, <2>8
<1>4. ASSUME NEW s \in Servers, SetDefault(c, s) PROVE ServersInv'
  BY <1>1, <1>4 DEF SetDefault
<1>5. ASSUME NEW s \in Servers, RemoveServer(c, s) PROVE ServersInv'
  BY <1>1, <1>5 DEF RemoveServer, Defaults
<1> QED
  BY <1>2, <1>3, <1>4, <1>5 DEF Edit

\* What a call that goes on finds in the table, action by action.
LEMMA CheckKeeps ==
  ASSUME ServersInv, NEW c \in Calls, CheckName(c) PROVE ServersInv'
<1> DEFINE pc == AfterCheck(call[c].reset)
<1>1. ServersTypeOK /\ Knows(c)
  BY DEF ServersInv, EditorKnows
<1>2. call[c].op = "update" /\ call[c].id \in Registered
  BY <1>1, ActiveCall DEF CheckName, Knows
<1>4. NamesUnique' /\ AtMostOneDefault' /\ server' \in [Servers -> ServerRow \cup {Gone}]
      /\ UNCHANGED server
  BY <1>1 DEF ServersInv, CheckName, ServersTypeOK, NamesUnique, AtMostOneDefault, Defaults,
              Registered
<1>5. CASE CallEnds(c)
  BY <1>1, <1>2, <1>4, <1>5, CallEndsIs, EndedKnows, EditorStep
<1>6. CASE Named(call[c].row.name) = {} /\ CallGoes(c, pc)
  <2>1. pc \in {"reset", "save"} /\ call[c].pc # "idle"
    BY DEF CheckName, AfterCheck
  <2>2. /\ call' \in [Calls -> ServerCall]
        /\ call'[c].pc = pc
        /\ call'[c].op = call[c].op /\ call'[c].id = call[c].id /\ call'[c].row = call[c].row
        /\ call'[c].reset = call[c].reset
        /\ \A e \in Calls : e # c => call'[e] = call[e]
    BY <1>1, <1>6, <2>1, CallGoesIs
  <2>3. pc = "reset" => call[c].reset
    BY DEF AfterCheck
  <2>4. pc = "save" => ~call[c].reset
    BY DEF AfterCheck
  <2>5. call[c].id \in Defaults => Defaults \subseteq {call[c].id}
    BY DEF ServersInv, AtMostOneDefault
  <2> HIDE DEF pc
  <2>6. Knows(c)'
    BY <1>1, <1>2, <1>4, <1>6, <2>1, <2>2, <2>3, <2>4, <2>5
       DEF Knows, CheckName, Registered, Defaults, Named
  <2> QED
    BY <1>2, <1>4, <2>2, <2>6, EditorStep
<1> QED
  BY <1>5, <1>6 DEF CheckName

LEMMA ResetKeeps ==
  ASSUME ServersInv, NEW c \in Calls, ResetDefaults(c)
  PROVE  ServersInv' /\ Registered' = Registered /\ Defaults' = {}
<1>1. ServersTypeOK /\ Knows(c)
  BY DEF ServersInv, EditorKnows
<1>2. call[c].op \in {"create", "update"} /\ call[c].reset /\ call[c].pc = "reset"
  BY <1>1, ActiveCall DEF ResetDefaults, Knows
<1>3. server' = ClearDefaults(Defaults) /\ Defaults \in SUBSET Servers
  BY DEF ResetDefaults, Defaults, Registered
<1>4. /\ server' \in [Servers -> ServerRow \cup {Gone}]
      /\ Registered' = Registered
      /\ \A s \in Registered : server'[s].name = server[s].name /\ ~server'[s].isDefault
  BY <1>1, <1>3, ClearDefaultsIs DEF Registered, Defaults
<1>5. Defaults' = {} /\ \A n : Named(n)' = Named(n)
  BY <1>4 DEF Defaults, Named
<1>6. NamesUnique' /\ AtMostOneDefault'
  BY <1>4, <1>5 DEF ServersInv, NamesUnique, AtMostOneDefault
<1>7. /\ call' \in [Calls -> ServerCall]
      /\ call'[c].pc = "save"
      /\ call'[c].op = call[c].op /\ call'[c].id = call[c].id /\ call'[c].row = call[c].row
      /\ call'[c].reset = call[c].reset
      /\ \A e \in Calls : e # c => call'[e] = call[e]
  BY <1>1, <1>2, CallGoesIs DEF ResetDefaults
<1>8. Knows(c)'
  <2>1. Named(call[c].row.name)' = Named(call[c].row.name)
    BY <1>4, <1>7 DEF Named
  <2> QED
    BY <1>1, <1>2, <1>4, <1>5, <1>7, <2>1 DEF Knows
<1> QED
  BY <1>2, <1>4, <1>5, <1>6, <1>7, <1>8, EditorStep

\* The row that is saved fits the others.
LEMMA SaveKeeps ==
  ASSUME ServersInv, NEW c \in Calls, NEW s \in Servers, SaveServer(c, s)
  PROVE  /\ ServersInv' /\ Registered' = Registered \cup {s}
         /\ call[c].op = "create" => s \notin Registered
         /\ call[c].op = "update" => s \in Registered
         /\ Defaults' = IF call[c].row.isDefault THEN {s} ELSE Defaults \ {s}
         /\ call[c].row.isDefault => Defaults \subseteq {s}
         /\ call[c].op = "create" /\ call[c].row.isDefault => Defaults = {}
<1> DEFINE row == call[c].row
<1>1. ServersTypeOK /\ Knows(c) /\ call[c].pc = "save"
  BY DEF ServersInv, EditorKnows, SaveServer
<1>2. call[c].op \in {"create", "update"} /\ row \in ServerRow /\ row # Gone
  BY <1>1, ActiveCall, GoneIsNoRow DEF Knows
<1>3. /\ call[c].op = "create" => call[c].id = Gone /\ s \notin Registered
      /\ call[c].op = "update" => call[c].id = s /\ s \in Registered
  BY <1>1, <1>2 DEF SaveServer, FreshServer, Knows, Registered
<1>4. /\ Named(row.name) \subseteq {call[c].id}
      /\ row.isDefault => Defaults \subseteq {call[c].id}
  BY <1>1 DEF Knows
<1> HIDE DEF row
<1>5. Named(row.name) \subseteq {s} /\ (row.isDefault => Defaults \subseteq {s})
      /\ (call[c].op = "create" /\ row.isDefault => Defaults = {})
  BY <1>2, <1>3, <1>4, ServersAssumption DEF Named, Defaults, Registered
<1>6. /\ server' \in [Servers -> ServerRow \cup {Gone}]
      /\ server'[s] = row /\ \A t \in Servers : t # s => server'[t] = server[t]
  BY <1>1, <1>2 DEF SaveServer, ServersTypeOK, row
<1>7. Registered' = Registered \cup {s}
  BY <1>2, <1>6 DEF Registered
<1>8. Defaults' = IF row.isDefault THEN {s} ELSE Defaults \ {s}
  BY <1>5, <1>6, <1>7 DEF Defaults, Registered
<1>9. AtMostOneDefault'
  BY <1>8 DEF ServersInv, AtMostOneDefault
<1>10. NamesUnique'
  <2> SUFFICES ASSUME NEW t \in Registered', NEW u \in Registered',
                      server'[t].name = server'[u].name
               PROVE  t = u
    BY DEF NamesUnique
  <2>1. CASE t # s /\ u # s
    BY <1>6, <1>7, <2>1 DEF ServersInv, NamesUnique, Registered
  <2>2. ASSUME NEW v \in Registered, v # s, server'[v].name = row.name PROVE FALSE
    BY <1>5, <1>6, <2>2 DEF Named, Registered
  <2>3. t \in Registered \cup {s} /\ u \in Registered \cup {s}
    BY <1>7
  <2> QED
    BY <1>6, <2>1, <2>2, <2>3
<1>11. CallEnds(c)
  BY DEF SaveServer
<1>12. ServersInv'
  BY <1>1, <1>2, <1>6, <1>9, <1>10, <1>11, CallEndsIs, EndedKnows, EditorStep
<1> QED
  BY <1>2, <1>3, <1>5, <1>7, <1>8, <1>12 DEF row

LEMMA SnapshotKeeps ==
  ASSUME ServersInv, NEW c \in Calls, Snapshot(c) PROVE ServersInv' /\ UNCHANGED server
<1>1. ServersTypeOK /\ Knows(c) /\ call[c].pc = "snapshot" /\ UNCHANGED server
  BY DEF ServersInv, EditorKnows, Snapshot
<1>2. call[c].op = "setDefault" /\ call[c].id \in Servers
  BY <1>1 DEF Knows
<1> DEFINE new == [call[c] EXCEPT !.pc = "commit", !.seen = Defaults]
<1>3. /\ new \in ServerCall /\ new.op = call[c].op /\ new.pc = "commit" /\ new.seen = Defaults
      /\ new.id = call[c].id
  BY <1>1, ActiveCall DEF ServerCall, Defaults, Registered
<1>4. call' = [call EXCEPT ![c] = new]
  BY <1>1 DEF Snapshot, ServersTypeOK
<1> HIDE DEF new
<1>5. call' \in [Calls -> ServerCall] /\ call'[c] = new
      /\ \A e \in Calls : e # c => call'[e] = call[e]
  BY <1>1, <1>3, <1>4 DEF ServersTypeOK
<1>6. Knows(c)'
  BY <1>1, <1>2, <1>3, <1>5 DEF Knows, Defaults, Registered
<1>7. NamesUnique' /\ AtMostOneDefault' /\ server' \in [Servers -> ServerRow \cup {Gone}]
  BY <1>1 DEF ServersInv, ServersTypeOK, NamesUnique, AtMostOneDefault, Defaults, Registered
<1> QED
  BY <1>1, <1>2, <1>3, <1>5, <1>6, <1>7, EditorStep

\* The transaction leaves the server of the call as the default one.
LEMMA CommitKeeps ==
  ASSUME ServersInv, NEW c \in Calls, CommitDefault(c)
  PROVE  /\ ServersInv' /\ Registered' = Registered
         /\ Defaults' = {} \/ \E s \in Registered : Defaults' = {s}
<1> DEFINE s == call[c].id
           cleared == ClearDefaults(Defaults)
           new == [cleared[s] EXCEPT !.isDefault = TRUE]
<1>1. ServersTypeOK /\ Knows(c) /\ call[c].pc = "commit"
  BY DEF ServersInv, EditorKnows, CommitDefault
<1>2. call[c].op = "setDefault" /\ s \in Servers /\ call[c].seen = Defaults
  BY <1>1 DEF Knows
<1>3. server' = [cleared EXCEPT ![s] = IF @ = Gone THEN @ ELSE [@ EXCEPT !.isDefault = TRUE]]
  BY <1>2 DEF CommitDefault
<1>4. /\ cleared \in [Servers -> ServerRow \cup {Gone}]
      /\ \A t \in Servers : /\ cleared[t] = Gone <=> server[t] = Gone
                            /\ server[t] # Gone => cleared[t].name = server[t].name
                            /\ server[t] # Gone => ~cleared[t].isDefault
  <2>1. Defaults \in SUBSET Servers
    BY DEF Defaults, Registered
  <2>2. /\ cleared \in [Servers -> ServerRow \cup {Gone}]
        /\ \A t \in Servers : /\ cleared[t] = Gone <=> server[t] = Gone
                              /\ server[t] # Gone => cleared[t].name = server[t].name
                              /\ server[t] # Gone /\ t \notin Defaults => cleared[t] = server[t]
                              /\ server[t] # Gone /\ t \in Defaults => ~cleared[t].isDefault
    BY <1>1, <2>1, ClearDefaultsIs
  <2> QED
    BY <2>2 DEF Defaults, Registered
<1> HIDE DEF cleared
<1>5. s \in Registered => new \in ServerRow /\ new # Gone /\ new.isDefault
                          /\ new.name = server[s].name
  BY <1>2, <1>4, GoneIsNoRow DEF ServerRow, Registered
<1>6. /\ server'[s] = IF s \in Registered THEN new ELSE Gone
      /\ \A t \in Servers : t # s => server'[t] = cleared[t]
  BY <1>2, <1>3, <1>4 DEF Registered
<1>7. server' \in [Servers -> ServerRow \cup {Gone}]
  BY <1>3, <1>4, <1>5, <1>6
<1> HIDE DEF new, s
<1>8. Registered' = Registered
  BY <1>2, <1>4, <1>5, <1>6 DEF Registered
<1>9. Defaults' = IF s \in Registered THEN {s} ELSE {}
  BY <1>2, <1>4, <1>5, <1>6, <1>8 DEF Defaults, Registered
<1>10. \A t \in Registered : server'[t].name = server[t].name
  BY <1>4, <1>5, <1>6 DEF Registered
<1>11. NamesUnique' /\ AtMostOneDefault'
  BY <1>8, <1>9, <1>10 DEF ServersInv, NamesUnique, AtMostOneDefault
<1>12. CallEnds(c)
  BY DEF CommitDefault
<1>13. ServersInv'
  BY <1>1, <1>2, <1>7, <1>11, <1>12, CallEndsIs, EndedKnows, EditorStep
<1> QED
  BY <1>8, <1>9, <1>13

\* Only what is not the default server is deleted.
LEMMA DeleteKeeps ==
  ASSUME ServersInv, NEW c \in Calls, DeleteServer(c)
  PROVE  /\ ServersInv' /\ Defaults' = Defaults
         /\ \E s \in Servers \ Defaults : Registered' = Registered \ {s}
<1> DEFINE s == call[c].id
<1>1. ServersTypeOK /\ Knows(c) /\ call[c].pc = "delete"
  BY DEF ServersInv, EditorKnows, DeleteServer
<1>2. call[c].op = "remove" /\ s \in Servers \ Defaults
  BY <1>1 DEF Knows
<1>3. /\ server' \in [Servers -> ServerRow \cup {Gone}] /\ server'[s] = Gone
      /\ \A t \in Servers : t # s => server'[t] = server[t]
  BY <1>1, <1>2 DEF DeleteServer, ServersTypeOK
<1> HIDE DEF s
<1>4. Registered' = Registered \ {s}
  BY <1>2, <1>3 DEF Registered
<1>5. Defaults' = Defaults
  BY <1>2, <1>3, <1>4 DEF Defaults, Registered
<1>6. NamesUnique' /\ AtMostOneDefault'
  BY <1>3, <1>4, <1>5 DEF ServersInv, NamesUnique, AtMostOneDefault, Registered
<1>7. CallEnds(c)
  BY DEF DeleteServer
<1>8. ServersInv'
  BY <1>1, <1>2, <1>3, <1>6, <1>7, CallEndsIs, EndedKnows, EditorStep
<1> QED
  BY <1>2, <1>4, <1>5, <1>8

\* Steps that leave names and defaults alone: tests, failures, a crash.
LEMMA QuietStep ==
  ASSUME ServersInv, server' \in [Servers -> ServerRow \cup {Gone}],
         Registered' = Registered, Defaults' = Defaults, \A n : Named(n)' = Named(n),
         call' \in [Calls -> ServerCall],
         \A c \in Calls : call'[c] = call[c] \/ call'[c] = NoCall
  PROVE  ServersInv'
<1>1. ServersTypeOK'
  BY DEF ServersTypeOK
<1>2. EditorKnows'
  <2> SUFFICES ASSUME NEW c \in Calls PROVE Knows(c)'
    BY DEF EditorKnows
  <2>1. CASE call'[c] = call[c]
    <3>1. Named(call[c].row.name)' = Named(call[c].row.name)
      <4>1. \A t \in Registered : \A n : server'[t].name = n <=> server[t].name = n
        BY DEF Named
      <4> QED
        BY <2>1, <4>1 DEF Named
    <3> QED
      BY <2>1, <3>1 DEF ServersInv, EditorKnows, Knows
  <2> QED
    BY <2>1, EndedKnows
<1>3. OneEditor'
  BY ServersAssumption DEF ServersInv, OneEditor
<1>4. AtMostOneDefault'
  BY DEF ServersInv, AtMostOneDefault
<1>5. NamesUnique'
  <2>1. \A t \in Registered : server'[t].name = server[t].name
    BY DEF Named
  <2> QED
    BY <2>1 DEF ServersInv, NamesUnique
<1> QED
  BY <1>1, <1>2, <1>3, <1>4, <1>5 DEF ServersInv

\* Every other step is one of those.
LEMMA QuietNext ==
  ASSUME ServersInv, NEW c \in Calls, CallFails(c) \/ \E v \in {"ok", "failed"} : RecordTest(c, v)
  PROVE  /\ ServersInv' /\ Registered' = Registered /\ Defaults' = Defaults
         /\ Settings' = Settings
<1>1. ServersTypeOK /\ Knows(c)
  BY DEF ServersInv, EditorKnows
<1>2. call' \in [Calls -> ServerCall] /\ \A e \in Calls : call'[e] = call[e] \/ call'[e] = NoCall
  BY <1>1, CallEndsIs DEF CallFails, RecordTest
<1>3. CASE CallFails(c)
  <2>1. /\ server' \in [Servers -> ServerRow \cup {Gone}]
        /\ Registered' = Registered /\ Defaults' = Defaults /\ Settings' = Settings
        /\ \A n : Named(n)' = Named(n)
    BY <1>1, <1>3 DEF CallFails, ServersTypeOK, Registered, Defaults, Settings, Named
  <2> QED
    BY <1>2, <2>1, QuietStep
<1>4. ASSUME NEW v \in {"ok", "failed"}, RecordTest(c, v)
      PROVE  /\ ServersInv' /\ Registered' = Registered /\ Defaults' = Defaults
             /\ Settings' = Settings
  <2>1. call[c].op = "test" => call[c].id \in Servers
    BY <1>1 DEF Knows
  <2>2. /\ server' \in [Servers -> ServerRow \cup {Gone}]
        /\ Registered' = Registered /\ Defaults' = Defaults /\ Settings' = Settings
        /\ \A n : Named(n)' = Named(n)
    BY <1>1, <1>4, <2>1, RecordKeeps
  <2> QED
    BY <1>2, <2>2, QuietStep
<1> QED
  BY <1>3, <1>4

LEMMA CrashKeeps ==
  ASSUME ServersInv, ServersCrash PROVE ServersInv'
<1>1. /\ server' \in [Servers -> ServerRow \cup {Gone}]
      /\ Registered' = Registered /\ Defaults' = Defaults /\ \A n : Named(n)' = Named(n)
  BY DEF ServersInv, ServersCrash, ServersTypeOK, Registered, Defaults, Named
<1>2. call' \in [Calls -> ServerCall] /\ \A e \in Calls : call'[e] = call[e] \/ call'[e] = NoCall
  BY IdleCall DEF ServersCrash
<1> QED
  BY <1>1, <1>2, QuietStep

LEMMA TestKeeps ==
  ASSUME ServersInv, NEW c \in Calls \ Editors, NEW s \in Servers, TestConnection(c, s)
  PROVE  ServersInv'
<1>1. ServersTypeOK /\ server[s] \in ServerRow
  BY RowOrGone DEF ServersInv, TestConnection
<1>2. /\ call' \in [Calls -> ServerCall] /\ UNCHANGED server /\ call[c] = NoCall
      /\ call'[c].op = "test" /\ call'[c].pc = "fetch" /\ call'[c].id = s
      /\ \A e \in Calls : e # c => call'[e] = call[e]
  BY <1>1, StartCallIs DEF TestConnection
<1>3. Knows(c)'
  BY <1>2 DEF Knows
<1> QED
  BY <1>2, <1>3, StartStep

LEMMA ServersNextKeeps == ServersInv /\ [EditedSeriallyNext]_serverVars => ServersInv'
<1> SUFFICES ASSUME ServersInv, [EditedSeriallyNext]_serverVars PROVE ServersInv'
  OBVIOUS
<1>1. CASE UNCHANGED serverVars
  <2>1. /\ server' \in [Servers -> ServerRow \cup {Gone}]
        /\ Registered' = Registered /\ Defaults' = Defaults /\ \A n : Named(n)' = Named(n)
        /\ call' \in [Calls -> ServerCall] /\ \A e \in Calls : call'[e] = call[e]
    BY <1>1 DEF serverVars, ServersInv, ServersTypeOK, Registered, Defaults, Named
  <2> QED
    BY <2>1, QuietStep
<1>2. ASSUME NEW c \in Calls, CallContinues(c) PROVE ServersInv'
  BY <1>2, CheckKeeps, ResetKeeps, SaveKeeps, SnapshotKeeps, CommitKeeps, DeleteKeeps, QuietNext
     DEF CallContinues
<1> QED
  BY <1>1, <1>2, EditKeeps, TestKeeps, CrashKeeps DEF EditedSeriallyNext

LEMMA ServersInitInv == ServersInit => ServersInv
<1> SUFFICES ASSUME ServersInit PROVE ServersInv
  OBVIOUS
<1>1. ServersTypeOK /\ Registered = {} /\ \A c \in Calls : call[c] = NoCall
  BY IdleCall DEF ServersInit, ServersTypeOK, Registered
<1>2. EditorKnows
  BY <1>1 DEF EditorKnows, Knows, NoCall
<1>3. OneEditor
  BY <1>1, ServersAssumption DEF OneEditor
<1>4. NamesUnique /\ AtMostOneDefault
  BY <1>1 DEF NamesUnique, AtMostOneDefault, Defaults
<1> QED
  BY <1>1, <1>2, <1>3, <1>4 DEF ServersInv

LEMMA ServersInvariant == EditedSerially => []ServersInv
<1> QED
  BY ServersInitInv, ServersNextKeeps, PTL DEF EditedSerially

-----------------------------------------------------------------------------
(* Theorems.                                                                *)

\* The table and the requests in flight keep their types.
THEOREM ServersTypes == EditedSerially => []ServersTypeOK
<1>1. ServersInv => ServersTypeOK
  BY DEF ServersInv
<1> QED
  BY <1>1, ServersInvariant, PTL

\* Edited by one administrator at a time, no two servers come to have the
\* same name, though the name is looked for and written an await apart.
THEOREM NamesAreUnique == EditedSerially => []NamesUnique
<1>1. ServersInv => NamesUnique
  BY DEF ServersInv
<1> QED
  BY <1>1, ServersInvariant, PTL

\* A test that takes its time overwrites nothing an administrator has set.
THEOREM TestsRecordOnly == EditedSerially => TestsOnlyRecord
<1> DEFINE P == (\A c \in Editors : call'[c] = call[c]) => Settings' = Settings
<1>1. ServersInv /\ [EditedSeriallyNext]_serverVars => [P]_serverVars
  <2> SUFFICES ASSUME ServersInv, EditedSeriallyNext, \A c \in Editors : call'[c] = call[c]
               PROVE  Settings' = Settings
    BY DEF P
  <2>1. ServersTypeOK
    BY DEF ServersInv
  <2>2. CASE UNCHANGED server
    BY <2>2 DEF Settings, Registered
  <2>3. ASSUME NEW c \in Calls, CallContinues(c) PROVE Settings' = Settings
    <3>1. CASE CallFails(c) \/ \E v \in {"ok", "failed"} : RecordTest(c, v)
      BY <3>1, QuietNext
    <3>2. CASE CheckName(c) \/ Snapshot(c)
      BY <2>2, <3>2 DEF CheckName, Snapshot
    <3>3. CASE ResetDefaults(c) \/ CommitDefault(c) \/ DeleteServer(c)
               \/ \E s \in Servers : SaveServer(c, s)
      <4>1. call[c].pc \notin {"idle", "fetch"}
        BY <3>3 DEF ResetDefaults, CommitDefault, DeleteServer, SaveServer
      <4>2. call[c] # NoCall /\ call[c].op # "test"
        BY <2>1, <4>1, ActiveCall DEF ServersInv, EditorKnows, Knows
      <4>3. c \in Editors
        BY <4>2 DEF ServersInv, OneEditor
      <4>4. call'[c] # call[c]
        BY <2>1, <3>3, <4>2, CallEndsIs, CallGoesIs
           DEF ResetDefaults, CommitDefault, DeleteServer, SaveServer
      <4> QED
        BY <4>3, <4>4
    <3> QED
      BY <2>3, <3>1, <3>2, <3>3 DEF CallContinues
  <2>4. ASSUME NEW c \in Calls, Edit(c) \/ \E s \in Servers : TestConnection(c, s)
        PROVE  UNCHANGED server
    BY <2>4 DEF Edit, CreateServer, UpdateServer, SetDefault, RemoveServer, TestConnection, StartCall
  <2> QED
    BY <2>2, <2>3, <2>4, ServersAssumption DEF EditedSeriallyNext, ServersCrash
<1> QED
  BY <1>1, ServersInvariant, PTL DEF EditedSerially, TestsOnlyRecord

\* The default server is cleared and set in separate writes, any of which may
\* fail: the table implements DefaultServer all the same.
THEOREM TableHasOneDefault == EditedSerially => OneDefault
<1>1. ServersInit => Register!Init
  BY DEF ServersInit, Register!Init, Registered, Defaults
<1>2. ServersInv /\ [EditedSeriallyNext]_serverVars => [Register!Next]_<<Registered, Defaults>>
  <2> SUFFICES ASSUME ServersInv, [EditedSeriallyNext]_serverVars,
                      <<Registered, Defaults>>' # <<Registered, Defaults>>
               PROVE  Register!Next
    OBVIOUS
  <2>1. ~UNCHANGED server
    BY DEF Registered, Defaults
  <2>2. PICK c \in Calls : CallContinues(c)
    BY <2>1, ServersAssumption
       DEF EditedSeriallyNext, serverVars, ServersCrash, Edit, CreateServer, UpdateServer, SetDefault,
           RemoveServer, TestConnection, StartCall
  <2>3. CASE ResetDefaults(c)
    BY <2>3, ResetKeeps DEF Register!Next, Register!StepBack
  <2>4. ASSUME NEW s \in Servers, SaveServer(c, s) PROVE Register!Next
    <3>1. call[c].op \in {"create", "update"}
      BY <2>4, ActiveCall DEF ServersInv, EditorKnows, Knows, SaveServer
    <3>2. CASE call[c].op = "create"
      <4>1. s \notin Registered /\ Registered' = Registered \cup {s}
        BY <2>4, <3>2, SaveKeeps
      <4>2. Defaults' = Defaults \/ (Defaults = {} /\ Defaults' = {s})
        <5>1. s \notin Defaults
          BY <4>1 DEF Defaults
        <5>2. /\ Defaults' = IF call[c].row.isDefault THEN {s} ELSE Defaults \ {s}
              /\ call[c].row.isDefault => Defaults = {}
          BY <2>4, <3>2, SaveKeeps
        <5>3. Defaults \ {s} = Defaults
          BY <5>1
        <5> QED
          BY <5>2, <5>3
      <4> QED
        BY <4>1, <4>2 DEF Register!Next, Register!Register
    <3>3. CASE call[c].op = "update"
      <4>1. s \in Registered /\ Registered' = Registered
        BY <2>4, <3>3, SaveKeeps
      <4>2. Defaults' = {s} \/ Defaults' = {}
        BY <2>4, <3>3, <4>1, SaveKeeps DEF ServersInv, AtMostOneDefault
      <4> QED
        BY <4>1, <4>2 DEF Register!Next, Register!Appoint, Register!StepBack
    <3> QED
      BY <3>1, <3>2, <3>3
  <2>5. CASE CommitDefault(c)
    BY <2>5, CommitKeeps DEF Register!Next, Register!Appoint, Register!StepBack, Registered
  <2>6. CASE DeleteServer(c)
    BY <2>6, DeleteKeeps DEF Register!Next, Register!Unregister
  <2>7. ~(CallFails(c) \/ \E v \in {"ok", "failed"} : RecordTest(c, v))
    BY QuietNext
  <2> QED
    BY <2>1, <2>2, <2>3, <2>4, <2>5, <2>6, <2>7 DEF CallContinues, CheckName, Snapshot
<1> QED
  BY <1>1, <1>2, ServersInvariant, PTL DEF EditedSerially, OneDefault, Register!Spec
=============================================================================
