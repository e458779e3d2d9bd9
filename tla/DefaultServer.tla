----------------------------- MODULE DefaultServer -----------------------------
(***************************************************************************)
(* What the table of Wowza servers promises: servers come and go, at most  *)
(* one of them is the default one, and that one is not removed: it steps   *)
(* back first.                                                             *)
(***************************************************************************)
CONSTANT Servers

VARIABLES
  registered,  \* the servers in the table
  default      \* the default server, as a set of at most one

Init ==
  /\ registered \in SUBSET Servers
  /\ default \in {{}} \cup {{s} : s \in registered}

Register(s) ==
  /\ s \notin registered
  /\ registered' = registered \cup {s}
  /\ UNCHANGED default \/ (default = {} /\ default' = {s})

Appoint(s) ==
  /\ s \in registered
  /\ default' = {s}
  /\ UNCHANGED registered

StepBack ==
  /\ default' = {}
  /\ UNCHANGED registered

Unregister(s) ==
  /\ s \in registered \ default
  /\ registered' = registered \ {s}
  /\ UNCHANGED default

Next == StepBack \/ \E s \in Servers : Register(s) \/ Appoint(s) \/ Unregister(s)

Spec == Init /\ [][Next]_<<registered, default>>
=============================================================================
