---------------------------- MODULE FlowEntries ----------------------------
(***************************************************************************)
(* The flow entries that monitoring agents keep in the switch: how they    *)
(* are created, given a statistics object and installed                    *)
(* (start_flow_stats_state_machine), replaced by GOTO_NXT_STATE, and       *)
(* destroyed (mon_fp_stats_feature_entry_destroy).                         *)
(*                                                                         *)
(* Each of the switch's operations may fail; the code looks at some of the *)
(* failures only.  An agent is named by its object.  One iteration of the  *)
(* loop of s_timer_event over the agents is one action.                    *)
(***************************************************************************)
EXTENDS Integers, Sequences

CONSTANTS
  Handle,          \* struct mon_agent objects
  EntryId,         \* ids the switch gives to flow entries
  StatId,          \* ids the switch gives to statistics objects
  Flow,            \* what a flow entry matches
  NoFlow,          \* the flow of a row without one (flow_exists is false)
  StrayFlow,       \* a flow made of uninitialised memory
  Tables,          \* state tables the controller sends, see Row
  Nobody, Leaked,  \* owner of a free entry; of one whose agent is gone
  ErrorCode,       \* the OpenNSL error codes the switch answers with
  Failing          \* the switch operations that may fail

Operation ==
  {"create", "qualify", "stat_create", "attach", "install",
   "detach", "stat_destroy", "destroy"}

NoNextState == 255

\* A row of a state table, reduced to what the flow entries depend on.
Row == [flow : Flow \cup {NoFlow}, next_state : 1..NoNextState]

ASSUME ConstantsAssumption ==
  /\ EntryId \subseteq Nat \ {0}
  /\ StatId \subseteq Nat \ {0}
  /\ ErrorCode \subseteq {e \in Int : e < 0}
  /\ Tables \subseteq Seq(Row) \ {<<>>}
  /\ StrayFlow \in Flow /\ NoFlow \notin Flow
  /\ Nobody \notin Handle /\ Leaked \notin Handle /\ Nobody # Leaked
  /\ Failing \subseteq Operation

\* The rows come from malloc and the parser only ever sets flow_exists: a
\* row without a flow may end up with a stray one.
Stored(t) ==
  {[i \in DOMAIN t |-> IF i \in S THEN [t[i] EXCEPT !.flow = StrayFlow] ELSE t[i]] :
     S \in SUBSET {i \in DOMAIN t : t[i].flow = NoFlow}}

StoredTables == UNION {Stored(t) : t \in Tables}

VARIABLES
  agents,         \* the registered agents
  table,          \* struct mon_agent.state_table_rows; <<>> in a new object
  current_state,  \* struct mon_agent.current_state
  flow_entry_id,  \* struct mon_agent.flow_entry_id; 0 in a new object
  stat_id,        \* struct mon_agent.stat_id; 0 in a new object
  hw              \* the switch: its flow entries and statistics objects

vars == <<agents, table, current_state, flow_entry_id, stat_id, hw>>

\* A flow entry: who created it, what it matches, its statistics object (0
\* for none), and whether it has been installed in the TCAM.
Entry ==
  [owner : Handle \cup {Nobody, Leaked}, flow : Flow \cup {NoFlow},
   stat : StatId \cup {0}, installed : BOOLEAN]

Blank == [owner |-> Nobody, flow |-> NoFlow, stat |-> 0, installed |-> FALSE]

TypeOK ==
  /\ agents \subseteq Handle
  /\ table \in [Handle -> StoredTables \cup {<<>>}]
  /\ current_state \in [Handle -> 1..NoNextState]
  /\ flow_entry_id \in [Handle -> EntryId \cup ErrorCode \cup {0}]
  /\ stat_id \in [Handle -> StatId \cup {0}]
  /\ hw \in [entry : [EntryId -> Entry], stats : SUBSET StatId]

\* get_row_of_state_machine: a state beyond the table means its first row.
RowOf(t, state) == IF state <= Len(t) THEN t[state] ELSE t[1]

CurrentRow(h) == RowOf(table[h], current_state[h])

(***************************************************************************)
(* The operations of the switch on its state x.                            *)
(***************************************************************************)
FieldEntryCreate(x, e, h, f) ==
  [x EXCEPT !.entry[e] = [owner |-> h, flow |-> f, stat |-> 0, installed |-> FALSE]]

FieldStatCreate(x, s) == [x EXCEPT !.stats = @ \cup {s}]

FieldEntryStatAttach(x, e, s) == [x EXCEPT !.entry[e].stat = s]

FieldEntryInstall(x, e) == [x EXCEPT !.entry[e].installed = TRUE]

FieldEntryStatDetach(x, e) == [x EXCEPT !.entry[e].stat = 0]

FieldStatDestroy(x, s) == [x EXCEPT !.stats = @ \ {s}]

FieldEntryDestroy(x, e) == [x EXCEPT !.entry[e] = Blank]

Free(x) == {e \in EntryId : x.entry[e].owner = Nobody}

\* The given outcomes, if the operation op may fail.
IfFails(op, outcomes) == IF op \in Failing THEN outcomes ELSE {}
-----------------------------------------------------------------------------
(***************************************************************************)
(* Installing and destroying a flow, as the set of possible outcomes.      *)
(***************************************************************************)

\* mon_fp_stats_feature_entry_create returns the new entry or the switch's
\* error code.  An entry whose qualifiers are refused stays behind.
EntryCreate(x, h, f) ==
  {[hw |-> FieldEntryCreate(x, e, h, f), rc |-> e] : e \in Free(x)}
  \cup IfFails("create", {[hw |-> x, rc |-> c] : c \in ErrorCode})
  \cup IfFails("qualify", {[hw |-> FieldEntryCreate(x, e, h, f), rc |-> c] :
                              e \in Free(x), c \in ErrorCode})

\* mon_fp_feature_stat_attach_entry_install returns the new statistics
\* object, or -1 whichever of its three steps fails.
StatAttachInstall(x, e) ==
  LET made(s)     == FieldStatCreate(x, s)
      attached(s) == FieldEntryStatAttach(made(s), e, s)
      outcomes(s) ==
        IF e \in EntryId
        THEN {[hw |-> FieldEntryInstall(attached(s), e), rc |-> s]}
             \cup IfFails("attach", {[hw |-> made(s), rc |-> -1]})
             \cup IfFails("install", {[hw |-> attached(s), rc |-> -1]})
        ELSE {[hw |-> made(s), rc |-> -1]}
  IN  (UNION {outcomes(s) : s \in StatId \ x.stats})
      \cup IfFails("stat_create", {[hw |-> x, rc |-> -1]})

\* Seeded faults: -1 is saved as statistics object; the ids of the new
\* entry and of its statistics object are not saved.
SavesMinusOne(x, h, row, entry, stat) ==
  IF row.flow = NoFlow
  THEN {[hw |-> x, entry |-> entry, stat |-> stat, rc |-> 0]}
  ELSE UNION {{[hw |-> d.hw, entry |-> c.rc, stat |-> d.rc, rc |-> 0] :
                 d \in StatAttachInstall(c.hw, c.rc)} :
                c \in EntryCreate(x, h, row.flow)}

SavesNothing(x, h, row, entry, stat) ==
  IF row.flow = NoFlow
  THEN {[hw |-> x, entry |-> entry, stat |-> stat, rc |-> 0]}
  ELSE UNION {{[hw |-> d.hw, rc |-> 0,
                entry |-> IF entry = 0 THEN c.rc ELSE entry,
                stat |-> IF stat = 0 /\ d.rc # -1 THEN d.rc ELSE stat] :
                 d \in StatAttachInstall(c.hw, c.rc)} :
                c \in EntryCreate(x, h, row.flow)}

\* start_flow_stats_state_machine, for an agent h whose fields are entry and
\* stat: only an entry "created" with the code -1 makes it fail.
StartFlow(x, h, row, entry, stat) ==
  LET refused(c) == [hw |-> c.hw, entry |-> entry, stat |-> stat, rc |-> -1]
      started(c, d) ==
        [hw |-> d.hw, entry |-> c.rc,
         stat |-> IF d.rc = -1 THEN stat ELSE d.rc, rc |-> 0]
  IN  IF row.flow = NoFlow
      THEN {[hw |-> x, entry |-> entry, stat |-> stat, rc |-> 0]}
      ELSE UNION {IF c.rc = -1 THEN {refused(c)}
                  ELSE {started(c, d) : d \in StatAttachInstall(c.hw, c.rc)} :
                    c \in EntryCreate(x, h, row.flow)}

\* Seeded faults: the statistics object, or the entry, is not destroyed.
StatKept(x, e, s) ==
  {IF e \in EntryId /\ s \in StatId /\ x.entry[e].stat = s
   THEN [x EXCEPT !.entry[e] = Blank] ELSE x}

EntryKept(x, e, s) ==
  {IF e \in EntryId /\ s \in StatId /\ x.entry[e].stat = s
   THEN [x EXCEPT !.entry[e].stat = 0, !.stats = @ \ {s}] ELSE x}

\* mon_fp_stats_feature_entry_destroy: detach, free the statistics object,
\* destroy the entry; the first step that fails ends it.
Destroy(x, e, s) ==
  LET detached == FieldEntryStatDetach(x, e)
      unstat   == FieldStatDestroy(detached, s)
  IN  IF e \in EntryId /\ s \in StatId /\ x.entry[e].stat = s
      THEN {FieldEntryDestroy(unstat, e)}
           \cup IfFails("detach", {x})
           \cup IfFails("stat_destroy", {detached})
           \cup IfFails("destroy", {unstat})
      ELSE {x}

\* The object h is freed: entries it created that still exist have no agent.
Forget(x, h) ==
  [x EXCEPT !.entry = [e \in EntryId |->
     IF x.entry[e].owner = h THEN [x.entry[e] EXCEPT !.owner = Leaked]
     ELSE x.entry[e]]]
-----------------------------------------------------------------------------
Init ==
  /\ agents = {}
  /\ table = [h \in Handle |-> <<>>]
  /\ current_state = [h \in Handle |-> 1]
  /\ flow_entry_id = [h \in Handle |-> 0]
  /\ stat_id = [h \in Handle |-> 0]
  /\ hw = [entry |-> [e \in EntryId |-> Blank], stats |-> {}]

\* The object h is taken out of the hash map, if it was there, and freed.
Discard(h, x) ==
  /\ agents' = agents \ {h}
  /\ table' = [table EXCEPT ![h] = <<>>]
  /\ current_state' = [current_state EXCEPT ![h] = 1]
  /\ flow_entry_id' = [flow_entry_id EXCEPT ![h] = 0]
  /\ stat_id' = [stat_id EXCEPT ![h] = 0]
  /\ hw' = Forget(x, h)

\* MON_HELLO with the table t, as it is stored.
MonHello(h, t) ==
  /\ h \notin agents
  /\ \E o \in StartFlow(hw, h, RowOf(t, 1), 0, 0) :
       \/ /\ o.rc = -1
          /\ Discard(h, o.hw)
       \/ /\ o.rc # -1
          /\ agents' = agents \cup {h}
          /\ table' = [table EXCEPT ![h] = t]
          /\ current_state' = [current_state EXCEPT ![h] = 1]
          /\ flow_entry_id' = [flow_entry_id EXCEPT ![h] = o.entry]
          /\ stat_id' = [stat_id EXCEPT ![h] = o.stat]
          /\ hw' = o.hw

MonStop(h) ==
  /\ h \in agents
  /\ \E x \in Destroy(hw, flow_entry_id[h], stat_id[h]) : Discard(h, x)

\* GOTO_NXT_STATE, when h is polled.  The result of destroying the old entry
\* is only logged.
GotoNextState(h) ==
  LET next == CurrentRow(h).next_state
  IN  /\ h \in agents
      /\ next # NoNextState
      /\ \E x \in Destroy(hw, flow_entry_id[h], stat_id[h]) :
         \E o \in StartFlow(x, h, RowOf(table[h], next),
                            flow_entry_id[h], stat_id[h]) :
           \/ /\ o.rc = -1
              /\ Discard(h, o.hw)
           \/ /\ o.rc # -1
              /\ current_state' = [current_state EXCEPT ![h] = next]
              /\ flow_entry_id' = [flow_entry_id EXCEPT ![h] = o.entry]
              /\ stat_id' = [stat_id EXCEPT ![h] = o.stat]
              /\ hw' = o.hw
              /\ UNCHANGED <<agents, table>>

Step(h) == (\E t \in StoredTables : MonHello(h, t)) \/ MonStop(h) \/ GotoNextState(h)

Next == \E h \in Handle : Step(h)

Spec == Init /\ [][Next]_vars
-----------------------------------------------------------------------------
(***************************************************************************)
(* Properties.                                                             *)
(***************************************************************************)

\* An agent whose current row names a flow has exactly that flow installed,
\* in an entry of its own, counted by the statistics object it reads.
FlowInstalled ==
  \A h \in agents : CurrentRow(h).flow # NoFlow =>
    /\ flow_entry_id[h] \in EntryId
    /\ stat_id[h] \in hw.stats
    /\ hw.entry[flow_entry_id[h]] =
         [owner |-> h, flow |-> CurrentRow(h).flow,
          stat |-> stat_id[h], installed |-> TRUE]

\* Every statistics object in the switch is the one some agent will free.
NoStatLeak == \A s \in hw.stats : \E h \in agents : stat_id[h] = s

\* Every flow entry in the switch is the current entry of the agent that
\* created it: MON_STOP and GOTO_NXT_STATE left none behind.
NoEntryLeak ==
  \A e \in EntryId : hw.entry[e].owner # Nobody =>
    hw.entry[e].owner \in agents /\ flow_entry_id[hw.entry[e].owner] = e

\* If the id an agent has saved names a flow entry, it is the agent's own.
HeldIsOwn ==
  \A h \in agents : flow_entry_id[h] \in EntryId =>
    hw.entry[flow_entry_id[h]].owner = h

\* What one agent does never touches the flow entry of another agent, nor
\* the statistics object attached to it.
OnlyOwnEntries ==
  [][\A h \in Handle : Step(h) =>
       \A e \in EntryId : hw.entry[e].owner \in agents \ {h} =>
         /\ hw'.entry[e] = hw.entry[e]
         /\ hw.entry[e].stat \in hw.stats => hw.entry[e].stat \in hw'.stats]_vars

=============================================================================
