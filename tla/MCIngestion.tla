----------------------------- MODULE MCIngestion -----------------------------
(* Instances of Ingestion and IngestionSerial for TLC.                      *)
EXTENDS IngestionSerial, TLC

\* One configuration without a limit and one that allows n reconnections.
OneUnlimited(n) == [c \in Configs |-> IF c = "unlimited" THEN 0 ELSE n]
Limits1 == OneUnlimited(1)
Limits2 == OneUnlimited(2)
=============================================================================
