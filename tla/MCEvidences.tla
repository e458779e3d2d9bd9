----------------------------- MODULE MCEvidences -----------------------------
(* Instances of Evidences for TLC.                                          *)
EXTENDS Evidences, TLC

\* Requests and tokens are interchangeable.
EvidenceSymmetry == Permutations(Requests) \cup Permutations(Tokens)
=============================================================================
