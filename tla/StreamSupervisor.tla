--------------------------- MODULE StreamSupervisor ---------------------------
(***************************************************************************)
(* What the ingestion supervisor promises for each stream, without maps,   *)
(* handlers or session objects: at most one ffmpeg publishes a stream, a   *)
(* failed one is retried within the limit, and only a start begins again.  *)
(***************************************************************************)
EXTENDS Naturals

CONSTANTS Streams, Sources, RetryLimits, AttemptBound

VARIABLES view,      \* what the supervisor is doing for the stream
          source,    \* the ffmpeg processes publishing the stream
          budget,    \* the retry limit in force, 0 for none
          retries    \* retries since the stream was started

vars == <<view, source, budget, retries>>

View == {"off", "publishing", "waiting", "ended"}

Init ==
  /\ view = [st \in Streams |-> "off"]
  /\ source = [st \in Streams |-> {}]
  /\ budget = [st \in Streams |-> 0]
  /\ retries = [st \in Streams |-> 0]

Set(st, v, src, b, r) ==
  /\ view' = [view EXCEPT ![st] = v]
  /\ source' = [source EXCEPT ![st] = src]
  /\ budget' = [budget EXCEPT ![st] = b]
  /\ retries' = [retries EXCEPT ![st] = r]

Begin(st) ==
  /\ view[st] \in {"off", "ended"}
  /\ \E x \in Sources, b \in RetryLimits : Set(st, "publishing", {x}, b, 0)

Fail(st) ==
  /\ view[st] = "publishing"
  /\ retries[st] < AttemptBound
  /\ budget[st] = 0 \/ retries[st] < budget[st]
  /\ Set(st, "waiting", {}, budget[st], retries[st] + 1)

\* Past the bound the retries of a stream without a limit are not counted.
FailUncounted(st) ==
  /\ view[st] = "publishing"
  /\ retries[st] >= AttemptBound
  /\ budget[st] = 0
  /\ Set(st, "waiting", {}, 0, retries[st])

Retry(st) ==
  /\ view[st] = "waiting"
  /\ \E x \in Sources : Set(st, "publishing", {x}, budget[st], retries[st])

End(st) ==
  /\ view[st] = "publishing"
  /\ Set(st, "ended", {}, budget[st], retries[st])

\* Stopped, given up or not spawned: any set of streams may go off at once.
Off(S) ==
  /\ view' = [st \in Streams |-> IF st \in S THEN "off" ELSE view[st]]
  /\ source' = [st \in Streams |-> IF st \in S THEN {} ELSE source[st]]
  /\ budget' = [st \in Streams |-> IF st \in S THEN 0 ELSE budget[st]]
  /\ retries' = [st \in Streams |-> IF st \in S THEN 0 ELSE retries[st]]

Next ==
  \/ \E st \in Streams : Begin(st) \/ Fail(st) \/ FailUncounted(st) \/ Retry(st) \/ End(st)
  \/ \E S \in SUBSET Streams : Off(S)

Spec == Init /\ [][Next]_vars
=============================================================================
