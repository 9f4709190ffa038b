--------------------------- MODULE MCFlowEntries ---------------------------
(* Small instances of FlowEntries for TLC. *)
EXTENDS FlowEntries, TLC

CONSTANTS f1, f2

Ids2 == {1, 2}
Ids3 == {1, 2, 3}
InternalOrFull == {-1, -14}  \* OPENNSL_E_INTERNAL, OPENNSL_E_RESOURCE
Internal == {-1}
Full == {-14}

Nothing == {}
Everything == Operation
CreateOnly == {"create"}

R(f, n) == [flow |-> f, next_state |-> n]

\* A cycle of two flows, a state beyond the table, one flow for ever, and an
\* agent without flows (port statistics only).
UniformTables ==
  {<<R(f1, 2), R(f2, 1)>>, <<R(f2, 3), R(f1, 1)>>,
   <<R(f1, NoNextState)>>, <<R(NoFlow, NoNextState)>>}

\* From a row with a flow to one without.
MixedTables == {<<R(f1, 2), R(NoFlow, NoNextState)>>, <<R(f2, NoNextState)>>}

AgentSymmetry == Permutations(Handle)
=============================================================================
