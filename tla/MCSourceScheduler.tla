------------------------- MODULE MCSourceScheduler --------------------------
(* SourceScheduler on small sets. *)
EXTENDS SourceScheduler

CONSTANTS r1, r2

MCPeriod == [p \in Policies |-> 2]
MCConfigs == {<<"hourly", TRUE>>, <<"hourly", FALSE>>}
MCSkew == [r \in Replicas |-> IF r = r2 THEN 1 ELSE 0]
=============================================================================
