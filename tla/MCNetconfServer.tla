--------------------------- MODULE MCNetconfServer ---------------------------
(* A small instance of NetconfServer for TLC: two clients with an agent each. *)
EXTENDS NetconfServer

CONSTANTS c1, c2, a1, a2

MCClient == {c1, c2}
MCMonId == {a1, a2}
MCOwner == [id \in MCMonId |-> IF id = a1 THEN c1 ELSE c2]
MCPresetVlans == SUBSET Side

MCOps == AgentOp \cup DeviceOp
=============================================================================
