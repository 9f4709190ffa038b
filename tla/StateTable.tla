----------------------------- MODULE StateTable -----------------------------
(***************************************************************************)
(* How the state table of a MON_HELLO is read from its XML file            *)
(* (streamFile, processNode).  The reader delivers the file node by node;  *)
(* each step reads a node and does what one of the three nested loops does *)
(* with it.  Rows come from malloc: Stray stands for what was in memory.   *)
(* The parser trusts the sizes a document announces: whether they agree    *)
(* with what it lists is left open here, and Sound says when they do.      *)
(*                                                                         *)
(* A node is the start of an element, with its content, or the end of a    *)
(* row; the code ignores all others, which here fill the places of the     *)
(* elements that a document leaves out.  The ten port counters are one     *)
(* kind of node and so are the two thresholds; the fields of a flow that   *)
(* are not in FlowFields are stored as src_ip is, but in the flow alone.   *)
(***************************************************************************)
EXTENDS Integers, Sequences

CONSTANTS
  Documents,  \* what the controller may send, see Document
  Params,     \* the scalar parameters of an agent, in the order of a document
  Value,      \* their values, and those of events, thresholds and flows
  Act,        \* enum mon_action
  Notifying,  \* the actions that set a flag of the agent
  FirstByte,  \* atoi of a dotted address, in a uint8
  Stray,      \* a field nobody has written
  Absent      \* content of an element the document leaves out

\* The order in which a document lists the fields of a flow.
FlowFields == <<"src_ip", "src_mac", "dst_mac", "src_mac_mask", "dst_mac_mask">>

FlowField == {FlowFields[i] : i \in DOMAIN FlowFields}

Param == {Params[i] : i \in DOMAIN Params}

Flow == UNION {[fields -> Value] : fields \in SUBSET FlowField}

\* A row as the controller sends it.  The numbers of events and of actions are
\* elements of their own.
RowOfDocument ==
  [state : Nat, num_of_row_evnts : Nat, events : Seq(Value),
   threshold : Value \cup {Absent}, flow : Flow,
   num_of_actions : Nat, actions : Seq(Act), next_state : Nat]

Byte == {FirstByte[v] : v \in Value}

ASSUME DocumentsAssumption ==
  /\ Params \in Seq(Param) /\ Notifying \subseteq Act
  /\ Param \cap {"TotalStates", "state-table-row-entries", "state", "input-events"} = {}
  /\ Stray \notin Value \cup Act /\ Absent \notin Value \cup Byte
  /\ \A d \in Documents :
       /\ d.params \in [Param -> Value]
       /\ d.rows \in Seq(RowOfDocument)
       /\ d.total_states \in Nat

\* action_string has room for "A" and one digit.
OneDigit == 9

\* The documents whose sizes agree with what they list: room for every row and
\* every event, and in each row at least one action announced, not more than
\* listed, and not more than action_string can count.
Sound ==
  {d \in Documents :
     /\ Len(d.rows) <= d.total_states
     /\ \A i \in DOMAIN d.rows :
          /\ Len(d.rows[i].events) <= d.rows[i].num_of_row_evnts
          /\ d.rows[i].num_of_actions \in 1..Len(d.rows[i].actions)
          /\ d.rows[i].num_of_actions <= OneDigit}

Node(name, value) == [name |-> name, value |-> value]

Ignored == Node("#text", Absent)

Optional(name, value) == IF value = Absent THEN Ignored ELSE Node(name, value)

\* What precedes the rows of a document, and the nodes of a row.
Header(d) ==
  [i \in DOMAIN Params |-> Node(Params[i], d.params[Params[i]])]
  \o <<Node("TotalStates", d.total_states)>>

RowNodes(r) ==
  <<Node("state-table-row-entries", Absent), Node("state", r.state),
    Node("input-events", Absent), Node("num_of_row_evnts", r.num_of_row_evnts)>>
  \o [i \in DOMAIN r.events |-> Node("event", r.events[i])]
  \o <<Optional("threshold", r.threshold),
       IF DOMAIN r.flow = {} THEN Ignored ELSE Node("flow_to_install", Absent)>>
  \o [i \in DOMAIN FlowFields |->
        LET f == FlowFields[i]
        IN  IF f \in DOMAIN r.flow THEN Node(f, r.flow[f]) ELSE Ignored]
  \o <<Node("num_of_actions", r.num_of_actions), Node("action", Absent)>>
  \o [i \in DOMAIN r.actions |-> Node("A", [index |-> i, act |-> r.actions[i]])]
  \o <<Node("next-state", r.next_state), Node("/state-table-row-entries", Absent)>>

Text ==
  [d \in Documents |->
     [i \in 0..Len(d.rows) |-> IF i = 0 THEN Header(d) ELSE RowNodes(d.rows[i])]]

VARIABLES
  document,           \* the document being read
  section, pos,       \* the reader: the next node, in the header (0) or a row
  loop,               \* the loop that reads it
  params,             \* the scalar fields of struct mon_agent
  total_states,       \* struct mon_agent.total_states
  current_row_count,  \* struct mon_agent.current_row_count
  state_table_rows,   \* struct mon_agent.state_table_rows, from 0; <<>> is NULL
  source_ip,          \* struct mon_agent.source_ip, a uint8
  flags,              \* notify_cntrl, notify_cntrl_after_interval, ...
  action_count,       \* local of the loop over the actions
  wild                \* a write has missed the memory allocated for it

vars == <<document, section, pos, loop, params, total_states, current_row_count,
          state_table_rows, source_ip, flags, action_count, wild>>

\* struct table.  event is the pointer into the row's list of events, which
\* is moved along as the list is filled.
Row ==
  [state : Nat \cup {Stray}, num_of_row_evnts : Nat \cup {Stray},
   events : Seq(Value), event : Nat, port_threshold_exists : {TRUE, Stray},
   packet_threshold_exists : {TRUE, Stray}, threshold : Value \cup {Stray},
   flow_exists : {TRUE, Stray}, flow : [FlowField -> Value \cup {Stray}],
   num_of_actions : Nat \cup {Stray}, action : Seq(Act \cup {Stray}),
   next_state : Nat \cup {Stray}]

StrayRow ==
  [state |-> Stray, num_of_row_evnts |-> Stray, events |-> <<>>, event |-> 0,
   port_threshold_exists |-> Stray, packet_threshold_exists |-> Stray,
   threshold |-> Stray, flow_exists |-> Stray, flow |-> [f \in FlowField |-> Stray],
   num_of_actions |-> Stray, action |-> <<>>, next_state |-> Stray]

TypeOK ==
  /\ document \in Documents /\ section \in 0..Len(document.rows) + 1 /\ pos \in Nat
  /\ loop \in {"document", "events", "actions", "parsed"}
  /\ params \in [Param -> Value \cup {Absent}]
  /\ total_states \in Nat /\ current_row_count \in Nat /\ action_count \in Nat
  /\ \/ state_table_rows = <<>>
     \/ /\ DOMAIN state_table_rows = 0..total_states - 1
        /\ \A i \in 0..total_states - 1 : state_table_rows[i] \in Row
  /\ source_ip \in Byte \cup {Absent} /\ flags \subseteq Notifying /\ wild \in BOOLEAN

More == section <= Len(document.rows)

node == Text[document][section][pos]

\* xmlTextReaderRead.
Read ==
  /\ IF pos < Len(Text[document][section])
     THEN pos' = pos + 1 /\ UNCHANGED section
     ELSE section' = section + 1 /\ pos' = 1
  /\ UNCHANGED document

\* The loop l reads a node of this name.
Reads(l, name) == loop = l /\ More /\ node.name = name /\ Read

\* temp_table: the row being filled, wherever that is.
temp_table == state_table_rows[current_row_count]

InTable == current_row_count \in DOMAIN state_table_rows

\* The row being filled becomes r, if it is inside the table.  All else that is
\* written has to fit; what a stray write changes is left out, so that nothing
\* can be said of a parser once wild is set.
Fill(r, fits) ==
  /\ state_table_rows' = IF InTable
                         THEN [state_table_rows EXCEPT ![current_row_count] = r]
                         ELSE state_table_rows
  /\ wild' = (wild \/ ~(InTable /\ fits))

Scalars == <<params, total_states, source_ip, flags>>

\* A node that only sets fields of the row being filled.
Sets(l, name, r) ==
  /\ Reads(l, name)
  /\ Fill(r, TRUE)
  /\ UNCHANGED <<Scalars, loop, current_row_count, action_count>>
-----------------------------------------------------------------------------
(***************************************************************************)
(* The loop of streamFile.                                                 *)
(***************************************************************************)
Parameter ==
  \E p \in Param :
    /\ Reads("document", p)
    /\ params' = [params EXCEPT ![p] = node.value]
    /\ UNCHANGED <<loop, total_states, current_row_count, state_table_rows,
                   source_ip, flags, action_count, wild>>

TotalStates ==
  /\ Reads("document", "TotalStates")
  /\ total_states' = node.value
  /\ UNCHANGED <<loop, params, current_row_count, state_table_rows,
                 source_ip, flags, action_count, wild>>

\* Seeded faults: the table is allocated for each row; with a row too many.
AllocatesEachTime ==
  /\ Reads("document", "state-table-row-entries")
  /\ state_table_rows' = [i \in 0..total_states - 1 |-> StrayRow]
  /\ UNCHANGED <<Scalars, loop, current_row_count, action_count, wild>>

AllocatesOneMore ==
  /\ Reads("document", "state-table-row-entries")
  /\ state_table_rows' = IF state_table_rows = <<>>
                         THEN [i \in 0..total_states |-> StrayRow]
                         ELSE state_table_rows
  /\ UNCHANGED <<Scalars, loop, current_row_count, action_count, wild>>

\* The first row allocates the whole table.
RowEntries ==
  /\ Reads("document", "state-table-row-entries")
  /\ state_table_rows' = IF state_table_rows = <<>>
                         THEN [i \in 0..total_states - 1 |-> StrayRow]
                         ELSE state_table_rows
  /\ UNCHANGED <<Scalars, loop, current_row_count, action_count, wild>>

State == Sets("document", "state", [temp_table EXCEPT !.state = node.value])

InputEvents ==
  /\ Reads("document", "input-events")
  /\ loop' = "events"
  /\ UNCHANGED <<Scalars, current_row_count, state_table_rows, action_count, wild>>

Parsed ==
  /\ loop = "document" /\ ~More
  /\ loop' = "parsed"
  /\ UNCHANGED <<document, section, pos, Scalars, current_row_count, state_table_rows,
                 action_count, wild>>
-----------------------------------------------------------------------------
(***************************************************************************)
(* The loop over what is in input-events, which goes on to the row's end.  *)
(***************************************************************************)
\* Seeded fault: the event list is one entry short.
NumOfRowEventsShort ==
  Sets("events", "num_of_row_evnts",
       [temp_table EXCEPT !.num_of_row_evnts = IF node.value = 0 THEN 0 ELSE node.value - 1,
                          !.events = <<>>, !.event = 0])

NumOfRowEvents ==
  Sets("events", "num_of_row_evnts",
       [temp_table EXCEPT !.num_of_row_evnts = node.value, !.events = <<>>, !.event = 0])

Event ==
  LET room == temp_table.event < temp_table.num_of_row_evnts
  IN  /\ Reads("events", "event")
      /\ Fill([temp_table EXCEPT !.events = IF room THEN Append(@, node.value) ELSE @,
                                 !.event = @ + 1, !.port_threshold_exists = TRUE],
              room)
      /\ UNCHANGED <<Scalars, loop, current_row_count, action_count>>

Threshold ==
  Sets("events", "threshold",
       [temp_table EXCEPT !.threshold = node.value, !.packet_threshold_exists = TRUE])

FlowToInstall ==
  Sets("events", "flow_to_install", [temp_table EXCEPT !.flow_exists = TRUE])

\* The fields of the row's flow that an element is stored in: src_mac is
\* logged instead of copied, and each mask is copied over its address.
StoredIn(element) ==
  CASE element = "src_mac"      -> {}
    [] element = "src_mac_mask" -> {"src_mac"}
    [] element = "dst_mac_mask" -> {"dst_mac"}
    [] OTHER                    -> {element}

\* The first byte of src_ip goes to the agent as well, whatever row it is in.
FlowElement ==
  \E element \in FlowField :
    /\ Reads("events", element)
    /\ Fill([temp_table EXCEPT !.flow =
               [f \in FlowField |-> IF f \in StoredIn(element) THEN node.value ELSE @[f]]],
            TRUE)
    /\ source_ip' = IF element = "src_ip" THEN FirstByte[node.value] ELSE source_ip
    /\ UNCHANGED <<params, total_states, flags, loop, current_row_count, action_count>>

NumOfActions ==
  Sets("events", "num_of_actions",
       [temp_table EXCEPT !.num_of_actions = node.value,
                          !.action = [i \in 1..node.value |-> Stray]])

\* Seeded fault: the counter is not reset.
ActionsGoOn ==
  /\ Reads("events", "action")
  /\ loop' = "actions"
  /\ UNCHANGED <<Scalars, current_row_count, state_table_rows, action_count, wild>>

Actions ==
  /\ Reads("events", "action")
  /\ loop' = "actions" /\ action_count' = 0
  /\ UNCHANGED <<Scalars, current_row_count, state_table_rows, wild>>

\* An action beyond num_of_actions is an element the loop does not know.
UnknownElement ==
  /\ Reads("events", "A") \/ Reads("events", "#text")
  /\ UNCHANGED <<Scalars, loop, current_row_count, state_table_rows, action_count, wild>>

\* Seeded fault: the count is increased before the row is looked up.
NextStateLate ==
  /\ Reads("events", "next-state")
  /\ current_row_count' = current_row_count + 1
  /\ IF current_row_count + 1 \in DOMAIN state_table_rows
     THEN /\ state_table_rows' =
               [state_table_rows EXCEPT ![current_row_count + 1].next_state = node.value]
          /\ UNCHANGED wild
     ELSE wild' = TRUE /\ UNCHANGED state_table_rows
  /\ UNCHANGED <<Scalars, loop, action_count>>

\* The next row begins here, not at the end of this one.
NextState ==
  /\ Reads("events", "next-state")
  /\ Fill([temp_table EXCEPT !.next_state = node.value], TRUE)
  /\ current_row_count' = current_row_count + 1
  /\ UNCHANGED <<Scalars, loop, action_count>>

EndOfRow ==
  /\ Reads("events", "/state-table-row-entries")
  /\ loop' = "document"
  /\ UNCHANGED <<Scalars, current_row_count, state_table_rows, action_count, wild>>
-----------------------------------------------------------------------------
(***************************************************************************)
(* The loop over the actions, which does not look for the row's end.       *)
(***************************************************************************)
\* Where the loop goes on when the action of this count is taken; beyond the
\* table the number of actions is whatever lies there.
After(count) ==
  IF InTable
  THEN {IF count = temp_table.num_of_actions THEN "events" ELSE "actions"}
  ELSE {"events", "actions"}

\* Seeded fault: the loop ends after as many elements as were announced.
ElementsCounted ==
  LET count == action_count + 1
      taken == node.name = "A" /\ node.value.index = count
      room == count \in DOMAIN temp_table.action
  IN  /\ loop = "actions" /\ More /\ Read
      /\ node.name \notin {"/state-table-row-entries", "#text"}
      /\ action_count' = count
      /\ IF taken
         THEN /\ Fill(IF room THEN [temp_table EXCEPT !.action[count] = node.value.act]
                              ELSE temp_table,
                      room /\ count <= OneDigit)
              /\ flags' = flags \cup ({node.value.act} \cap Notifying)
         ELSE /\ wild' = (wild \/ count > OneDigit)
              /\ UNCHANGED <<state_table_rows, flags>>
      /\ loop' \in After(count)
      /\ UNCHANGED <<params, total_states, source_ip, current_row_count>>

\* The start of any element counts, with a write to action_string; it is taken
\* if it is named after the count.  Only the last announced action, so taken,
\* ends the loop.
ActionElement ==
  LET count == action_count + 1
      taken == node.name = "A" /\ node.value.index = count
      room == count \in DOMAIN temp_table.action
  IN  /\ loop = "actions" /\ More /\ Read
      /\ node.name \notin {"/state-table-row-entries", "#text"}
      /\ action_count' = count
      /\ IF taken
         THEN /\ Fill(IF room THEN [temp_table EXCEPT !.action[count] = node.value.act]
                              ELSE temp_table,
                      room /\ count <= OneDigit)
              /\ flags' = flags \cup ({node.value.act} \cap Notifying)
              /\ loop' \in After(count)
         ELSE /\ wild' = (wild \/ count > OneDigit)
              /\ UNCHANGED <<state_table_rows, flags, loop>>
      /\ UNCHANGED <<params, total_states, source_ip, current_row_count>>

\* Nodes that start no element, the end of the row among them.
PassedOver ==
  /\ Reads("actions", "#text") \/ Reads("actions", "/state-table-row-entries")
  /\ UNCHANGED <<Scalars, loop, current_row_count, state_table_rows, action_count, wild>>

\* At the end of the file the inner loops go on reading nothing.
Spin ==
  /\ loop \in {"events", "actions"} /\ ~More
  /\ UNCHANGED vars
-----------------------------------------------------------------------------
Init ==
  /\ document \in Documents /\ section = 0 /\ pos = 1 /\ loop = "document"
  /\ params = [p \in Param |-> Absent]
  /\ total_states = 0 /\ current_row_count = 0 /\ action_count = 0
  /\ state_table_rows = <<>> /\ source_ip = Absent /\ flags = {} /\ wild = FALSE

Next ==
  \/ Parameter \/ TotalStates \/ RowEntries \/ State \/ InputEvents \/ Parsed
  \/ NumOfRowEvents \/ Event \/ Threshold \/ FlowToInstall \/ FlowElement
  \/ NumOfActions \/ Actions \/ UnknownElement \/ NextState \/ EndOfRow
  \/ ActionElement \/ PassedOver \/ Spin

Spec == Init /\ [][Next]_vars

\* Nothing interrupts the parser: it is called by the handler of MON_HELLO.
FairSpec == Spec /\ WF_vars(Next)
-----------------------------------------------------------------------------
(***************************************************************************)
(* Properties.                                                             *)
(***************************************************************************)

\* What the controller means by a row r, field by field.  What the document
\* leaves out is left as malloc returned it.
RowFor(r) ==
  [state |-> r.state, num_of_row_evnts |-> r.num_of_row_evnts, events |-> r.events,
   port_threshold_exists |-> IF r.events = <<>> THEN Stray ELSE TRUE,
   packet_threshold_exists |-> IF r.threshold = Absent THEN Stray ELSE TRUE,
   threshold |-> IF r.threshold = Absent THEN Stray ELSE r.threshold,
   flow_exists |-> IF DOMAIN r.flow = {} THEN Stray ELSE TRUE,
   num_of_actions |-> r.num_of_actions,
   action |-> SubSeq(r.actions, 1, r.num_of_actions),
   next_state |-> r.next_state]

FlowFor(r) == [f \in FlowField |-> IF f \in DOMAIN r.flow THEN r.flow[f] ELSE Stray]

Mask == {"src_mac_mask", "dst_mac_mask"}

\* When the parser is done with a sound document, the agent holds what the
\* document says: a table of the size announced if there is any row, every row
\* with its announced actions in order, the parameters, and a flag for each
\* notifying action of any row.  This is not so of a flow's MAC addresses once it
\* has a source address or a mask (see StoredIn); any other flow is as sent.
ParsedExactly ==
  loop = "parsed" /\ document \in Sound =>
    /\ params = document.params /\ total_states = document.total_states
    /\ DOMAIN state_table_rows = IF document.rows = <<>> THEN {} ELSE 0..total_states - 1
    /\ \A i \in DOMAIN document.rows :
         LET row == state_table_rows[i - 1]
             r == document.rows[i]
         IN  /\ \A field \in DOMAIN RowFor(r) : row[field] = RowFor(r)[field]
             /\ row.flow["src_ip"] = FlowFor(r)["src_ip"]
             /\ DOMAIN r.flow \cap (Mask \cup {"src_mac"}) = {} => row.flow = FlowFor(r)
    /\ \A i \in DOMAIN state_table_rows :
         i >= Len(document.rows) => state_table_rows[i] = StrayRow
    /\ flags = {a \in Notifying : \E i \in 0..Len(document.rows) - 1 :
                  \E k \in DOMAIN state_table_rows[i].action :
                    state_table_rows[i].action[k] = a}

\* With a sound document the parser, which checks no bounds, stays inside the
\* rows, the event lists, the action lists and the string it has allocated.
NoWildWrite == document \in Sound => ~wild

\* No agent gets the table of a document that is not sound, unless memory was
\* damaged on the way.  A place short for a row or an event, or an action too
\* many for action_string, is a stray write; an action announced and not listed,
\* or none announced, is that too or a parser that never returns.
OnlySoundTables == loop = "parsed" /\ ~wild => document \in Sound

\* Reading a row of a sound document leaves the rows before it alone.
RowsBuiltOnce ==
  [][\A i \in 0..current_row_count - 1 :
       document \in Sound => state_table_rows'[i] = state_table_rows[i]]_vars

\* With a sound document the nested loops, which have no test for the end of
\* the file, all end, so that the daemon goes on to its other handlers.
EventuallyParsed == (document \in Sound) ~> (loop = "parsed")
=============================================================================
