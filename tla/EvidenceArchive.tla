---------------------------- MODULE EvidenceArchive ----------------------------
(***************************************************************************)
(* What the evidences promise, without files, rows or handlers: an archive *)
(* in which a piece, once kept, keeps its seal and its media.  Only        *)
(* somebody outside harms media; a withdrawal hides a piece and touches    *)
(* nothing; and what the archive tells of a piece is so.                   *)
(***************************************************************************)
CONSTANTS
  Evidence,
  Hash,
  None

VARIABLES
  seal,       \* the hash of a piece that is kept, None of another
  whole,      \* the pieces whose media is what the seal says
  harmed,     \* the pieces that somebody outside has touched
  withdrawn,  \* the pieces that are no longer found
  told,       \* the pieces the dashboards were told of
  denounced   \* the pieces denounced as compromised

vars == <<seal, whole, harmed, withdrawn, told, denounced>>

Kept(e) == seal[e] # None

Init ==
  /\ seal = [e \in Evidence |-> None]
  /\ whole = {} /\ harmed = {} /\ withdrawn = {} /\ told = {} /\ denounced = {}

\* A piece is kept whole, unless it was harmed while it was taken in.
Keep(e, h) ==
  /\ ~Kept(e)
  /\ seal' = [seal EXCEPT ![e] = h]
  /\ whole' = whole \cup ({e} \ harmed)
  /\ UNCHANGED <<harmed, withdrawn, told, denounced>>

Harm(e) ==
  /\ harmed' = harmed \cup {e}
  /\ whole' = whole \ {e}
  /\ UNCHANGED <<seal, withdrawn, told, denounced>>

Withdraw(e) ==
  /\ Kept(e)
  /\ withdrawn' = withdrawn \cup {e}
  /\ UNCHANGED <<seal, whole, harmed, told, denounced>>

Tell(e) ==
  /\ Kept(e)
  /\ told' = told \cup {e}
  /\ UNCHANGED <<seal, whole, harmed, withdrawn, denounced>>

Denounce(e) ==
  /\ Kept(e) /\ e \notin whole
  /\ denounced' = denounced \cup {e}
  /\ UNCHANGED <<seal, whole, harmed, withdrawn, told>>

Next ==
  \E e \in Evidence :
    \/ \E h \in Hash : Keep(e, h)
    \/ Harm(e) \/ Withdraw(e) \/ Tell(e) \/ Denounce(e)

Spec == Init /\ [][Next]_vars
=============================================================================
