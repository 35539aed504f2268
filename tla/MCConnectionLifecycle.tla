----------------------- MODULE MCConnectionLifecycle -----------------------
\* A phone that dials over slow and best paths, or a device with a listener.
EXTENDS ConnectionLifecycle

\* With a listener there is no probe: lifecycle_probe shows what it does.
BestWhereListening == [of \in Roles |-> IF of = "dials" THEN {1, BestRank} ELSE {BestRank}]

AnyPath == [of \in Roles |-> {1, BestRank}]
=============================================================================
