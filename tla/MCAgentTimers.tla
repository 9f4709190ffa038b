--------------------------- MODULE MCAgentTimers ---------------------------
(* Small instances of AgentTimers for TLC. *)
EXTENDS AgentTimers, TLC

MCMonId == {1, 2, 3}
MCPollTime == {10, 20}
MCStrayDelay == {0, 10}
OneStrayDelay == {0}

NoFaults == {}
AllFaults == FaultKind
InstallOnly == {"install"}

HandleSymmetry == Permutations(Handle)
=============================================================================
