--------------------------- MODULE MCStreamService ---------------------------
(* Instances of StreamService and StreamServiceSerial for TLC.              *)
EXTENDS StreamServiceSerial, TLC

\* The service never sets a limit of its own: every start gets the default,
\* scaled down to one reconnection.
DefaultLimit == [c \in Configs |-> 1]

SessionSymmetry == Permutations(Sessions)
=============================================================================
