----------------------------- MODULE WowzaServers -----------------------------
(***************************************************************************)
(* The table of Wowza servers: wowza-servers.service.                      *)
(*                                                                         *)
(* A request starts with its first read, which its early returns depend    *)
(* on, and goes on await by await with the entity it has loaded.  Address, *)
(* ports and credentials are data.  The row locks of PostgreSQL are left   *)
(* out: they only take orders away.                                        *)
(***************************************************************************)
CONSTANTS
  Servers,  \* ids of servers; one that nothing refers to is used again
  Names,
  Calls,    \* requests that can be in flight at once
  Editors,  \* those that change servers: all but the tests
  Gone      \* no server

ASSUME ServersAssumption ==
  /\ Gone \notin Servers
  /\ Editors \subseteq Calls

VARIABLES
  server,  \* the table
  call     \* the requests in flight

serverVars == <<server, call>>

-----------------------------------------------------------------------------
ServerRow == [name : Names, isDefault : BOOLEAN, isActive : BOOLEAN,
              tested : {"never", "ok", "failed"}]

ASSUME GoneIsNoRow == Gone \notin ServerRow

NoCall == [op |-> "none", pc |-> "idle", id |-> Gone, row |-> Gone,
           reset |-> FALSE, seen |-> {}]

ServerCall ==
  [op : {"create", "update", "setDefault", "remove", "test"},
   pc : {"check", "reset", "save", "snapshot", "commit", "delete", "fetch"},
   id : Servers \cup {Gone}, row : ServerRow \cup {Gone}, reset : BOOLEAN,
   seen : SUBSET Servers] \cup {NoCall}

ServersTypeOK ==
  /\ server \in [Servers -> ServerRow \cup {Gone}]
  /\ call \in [Calls -> ServerCall]

Registered == {s \in Servers : server[s] # Gone}

Defaults == {s \in Registered : server[s].isDefault}

Named(n) == {s \in Registered : server[s].name = n}

\* A new server gets a new id.
FreshServer(s) == server[s] = Gone /\ \A c \in Calls : call[c].id # s /\ s \notin call[c].seen

ServersInit ==
  /\ server = [s \in Servers |-> Gone]
  /\ call = [c \in Calls |-> NoCall]

-----------------------------------------------------------------------------
StartCall(c, o, pc, s, row, reset) ==
  /\ call[c] = NoCall
  /\ call' = [call EXCEPT ![c] =
       [op |-> o, pc |-> pc, id |-> s, row |-> row, reset |-> reset, seen |-> {}]]
  /\ UNCHANGED server

CallGoes(c, pc) == call' = [call EXCEPT ![c].pc = pc]

CallEnds(c) == call' = [call EXCEPT ![c] = NoCall]

AfterCheck(reset) == IF reset THEN "reset" ELSE "save"

\* create refuses a name that is taken.
CreateServer(c, row) ==
  /\ Named(row.name) = {}
  /\ row.tested = "never"
  /\ StartCall(c, "create", AfterCheck(row.isDefault), Gone, row, row.isDefault)

\* Mutant: update does not look for the new name.
UpdateServerUnchecked(c, s, name, default, active) ==
  LET row == [server[s] EXCEPT !.name = name, !.isActive = active, !.isDefault =
                IF default = "keep" THEN @ ELSE default = "yes"]
  IN /\ s \in Registered
     /\ StartCall(c, "update", AfterCheck(default = "yes"), s, row, default = "yes")

\* update looks for a name only when it changes, and clears the other defaults
\* only when it is asked to make this server one.
UpdateServer(c, s, name, default, active) ==
  LET row == [server[s] EXCEPT !.name = name, !.isActive = active, !.isDefault =
                IF default = "keep" THEN @ ELSE default = "yes"]
  IN /\ s \in Registered
     /\ StartCall(c, "update",
          IF name # server[s].name THEN "check" ELSE AfterCheck(default = "yes"),
          s, row, default = "yes")

CheckName(c) ==
  /\ call[c].pc = "check"
  /\ IF Named(call[c].row.name) = {} THEN CallGoes(c, AfterCheck(call[c].reset)) ELSE CallEnds(c)
  /\ UNCHANGED server

ClearDefaults(ss) ==
  [s \in Servers |-> IF s \in ss \cap Registered THEN [server[s] EXCEPT !.isDefault = FALSE]
                     ELSE server[s]]

ResetDefaults(c) ==
  /\ call[c].pc = "reset"
  /\ server' = ClearDefaults(Defaults)
  /\ CallGoes(c, "save")

\* save writes every column of the entity that differs from the row, and
\* inserts the row when it is no longer there.
SaveServer(c, s) ==
  /\ call[c].pc = "save"
  /\ IF call[c].op = "create" THEN FreshServer(s) ELSE s = call[c].id
  /\ server' = [server EXCEPT ![s] = call[c].row]
  /\ CallEnds(c)

SetDefault(c, s) ==
  s \in Registered /\ StartCall(c, "setDefault", "snapshot", s, Gone, FALSE)

\* The first statement of the transaction finds the rows it will clear.
Snapshot(c) ==
  /\ call[c].pc = "snapshot"
  /\ call' = [call EXCEPT ![c].pc = "commit", ![c].seen = Defaults]
  /\ UNCHANGED server

\* Mutant: the transaction forgets the first of its two statements.
CommitDefaultOnly(c) ==
  /\ call[c].pc = "commit"
  /\ LET s == call[c].id IN
     server' = [server EXCEPT ![s] = IF @ = Gone THEN @ ELSE [@ EXCEPT !.isDefault = TRUE]]
  /\ CallEnds(c)

\* Both updates become visible at once; the second changes no row if the
\* server is gone.
CommitDefault(c) ==
  /\ call[c].pc = "commit"
  /\ LET s == call[c].id IN
     server' = [ClearDefaults(call[c].seen) EXCEPT ![s] =
                  IF @ = Gone THEN @ ELSE [@ EXCEPT !.isDefault = TRUE]]
  /\ CallEnds(c)

RemoveServer(c, s) ==
  /\ s \in Registered /\ ~server[s].isDefault
  /\ StartCall(c, "remove", "delete", s, Gone, FALSE)

DeleteServer(c) ==
  /\ call[c].pc = "delete"
  /\ server' = [server EXCEPT ![call[c].id] = Gone]
  /\ CallEnds(c)

TestConnection(c, s) == s \in Registered /\ StartCall(c, "test", "fetch", s, server[s], FALSE)

\* Mutant: the loaded entity is saved with the verdict.
RecordBySave(c, verdict) ==
  /\ call[c].pc = "fetch"
  /\ server' = [server EXCEPT ![call[c].id] = [call[c].row EXCEPT !.tested = verdict]]
  /\ CallEnds(c)

\* The server has answered or not within 5 s: two columns are updated, of a
\* row that may be gone.
RecordTest(c, verdict) ==
  /\ call[c].pc = "fetch"
  /\ LET s == call[c].id IN
     server' = [server EXCEPT ![s] = IF @ = Gone THEN @ ELSE [@ EXCEPT !.tested = verdict]]
  /\ CallEnds(c)

\* An awaited query rejects; a transaction is rolled back.
CallFails(c) ==
  /\ call[c] # NoCall
  /\ CallEnds(c)
  /\ UNCHANGED server

ServersCrash ==
  /\ call' = [c \in Calls |-> NoCall]
  /\ UNCHANGED server

-----------------------------------------------------------------------------
Edit(c) ==
  \/ \E row \in ServerRow : CreateServer(c, row)
  \/ \E s \in Servers, name \in Names, default \in {"keep", "yes", "no"}, active \in BOOLEAN :
       UpdateServer(c, s, name, default, active)
  \/ \E s \in Servers : SetDefault(c, s) \/ RemoveServer(c, s)

CallContinues(c) ==
  \/ CheckName(c) \/ ResetDefaults(c) \/ Snapshot(c) \/ CommitDefault(c) \/ DeleteServer(c)
  \/ \E s \in Servers : SaveServer(c, s)
  \/ \E verdict \in {"ok", "failed"} : RecordTest(c, verdict)
  \/ CallFails(c)

ServersNext ==
  \/ \E c \in Calls : Edit(c) \/ CallContinues(c) \/ \E s \in Servers : TestConnection(c, s)
  \/ ServersCrash

ServersSpec == ServersInit /\ [][ServersNext]_serverVars

\* The administrators edit one at a time; tests, failures and crashes come
\* at any moment.
EditedSeriallyNext ==
  \/ \E c \in Editors : (\A e \in Editors : call[e] = NoCall) /\ Edit(c)
  \/ \E c \in Calls : CallContinues(c)
  \/ \E c \in Calls \ Editors, s \in Servers : TestConnection(c, s)
  \/ ServersCrash

EditedSerially == ServersInit /\ [][EditedSeriallyNext]_serverVars

-----------------------------------------------------------------------------
(* Properties, of servers that are edited serially.                         *)

\* No two servers have a name in common, though no constraint of the table
\* says so: the name is looked for in one await and written in a later one.
NamesUnique ==
  \A s, t \in Registered : server[s].name = server[t].name => s = t

\* With no editor at work the settings of a server stay as they are and a
\* removed one stays removed, whatever tests began before.
Settings ==
  [s \in Registered |-> [server[s] EXCEPT !.tested = "never"]]

TestsOnlyRecord ==
  [][(\A c \in Editors : call'[c] = call[c]) => Settings' = Settings]_serverVars

\* The table keeps the promise of DefaultServer: the default server is
\* cleared and set in separate writes, and any of them may fail.
Register == INSTANCE DefaultServer WITH registered <- Registered, default <- Defaults

OneDefault == Register!Spec

-----------------------------------------------------------------------------
(* The inductive invariant.                                                 *)

OneEditor ==
  /\ \A c, e \in Editors : call[c] # NoCall /\ call[e] # NoCall => c = e
  /\ \A c \in Calls \ Editors : call[c] # NoCall => call[c].op = "test"

\* What an editor has read is still true of what only editors change.
Knows(c) ==
  /\ call[c].op = "test" <=> call[c].pc = "fetch"
  /\ call[c].op = "create" => call[c].pc \in {"reset", "save"} /\ call[c].id = Gone
  /\ call[c].op = "update" => call[c].pc \in {"check", "reset", "save"}
                              /\ call[c].id \in Registered
  /\ call[c].op = "setDefault" <=> call[c].pc \in {"snapshot", "commit"}
  /\ call[c].op = "remove" <=> call[c].pc = "delete"
  /\ call[c].op \in {"setDefault", "remove", "test"} => call[c].id \in Servers
  /\ call[c].op \in {"create", "update"} => call[c].row \in ServerRow
  /\ call[c].pc = "commit" => call[c].seen = Defaults
  /\ call[c].pc = "delete" => call[c].id \notin Defaults
  /\ call[c].pc \in {"reset", "save"} => Named(call[c].row.name) \subseteq {call[c].id}
  /\ call[c].pc = "save" /\ call[c].row.isDefault => Defaults \subseteq {call[c].id}
  /\ call[c].pc \in {"check", "save"} /\ ~call[c].reset /\ call[c].row.isDefault =>
       call[c].id \in Defaults
  /\ call[c].pc = "reset" => call[c].reset

EditorKnows == \A c \in Calls : Knows(c)

AtMostOneDefault == \A s, t \in Defaults : s = t

ServersInv == ServersTypeOK /\ OneEditor /\ EditorKnows /\ NamesUnique /\ AtMostOneDefault
=============================================================================
