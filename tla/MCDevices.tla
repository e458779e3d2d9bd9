------------------------------- MODULE MCDevices -------------------------------
(* Instances of Devices for TLC.                                            *)
EXTENDS Devices

\* A bound: besides the ticks, one request at a time is in flight, about a
\* device or about Wowza.
OneRequest ==
  \/ \A o \in Operators : operator[o] = NoOperation
  \/ \A c \in Callers \ Ticks : caller[c] = Silent

OneRequestNext == DevicesNext /\ OneRequest'

MCSpec == DevicesInit /\ [][OneRequestNext]_deviceVars /\ DevicesFairness
=============================================================================
