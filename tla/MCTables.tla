------------------------------- MODULE MCTables -------------------------------
(***************************************************************************)
(* Instances of Accounts, WowzaServers and Events for TLC.  The three      *)
(* share no state: a behaviour is one of the component that `focus` names, *)
(* and the other two stay as they are at first.                            *)
(***************************************************************************)
EXTENDS Accounts, WowzaServers, Events, TLC

VARIABLE focus

tables == <<vars, serverVars, eventVars, focus>>

Administrator == [state |-> "present", role |-> "admin", active |-> TRUE]

TablesInit ==
  /\ focus \in {"accounts", "servers", "events"}
  /\ Init /\ (focus # "accounts" => \A u \in Users : user[u] = Administrator)
  /\ ServersInit
  /\ EventsInit /\ (focus # "events" => streams = {})

TablesNext ==
  /\ UNCHANGED focus
  /\ \/ focus = "accounts" /\ SerialNext /\ UNCHANGED <<serverVars, eventVars>>
     \/ focus = "servers" /\ EditedSeriallyNext /\ UNCHANGED <<vars, eventVars>>
     \/ focus = "events" /\ EachSeriallyNext /\ UNCHANGED <<vars, serverVars>>

Tables == TablesInit /\ [][TablesNext]_tables

\* The sessions are interchangeable, and so are the names of servers.
TablesSymmetry == Permutations(Sessions) \cup Permutations(Names)
=============================================================================
