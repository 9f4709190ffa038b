---------------------------- MODULE MCStateTable ----------------------------
(***************************************************************************)
(* Documents for StateTable: sound ones, of up to two rows of eight kinds, *)
(* in a table that has just room for them or one row more; and ones with a *)
(* size that disagrees with what is listed, in the first or the last row.  *)
(***************************************************************************)
EXTENDS StateTable, SequencesExt

CONSTANTS v1, v2, goto, notify, window

MCParams == <<"mon-id", "poll-time">>

MCFirstByte == [v \in Value |-> v1]

Kind(events, threshold, flow, actions, n) ==
  [state |-> 1, num_of_row_evnts |-> Len(events), events |-> events,
   threshold |-> threshold, flow |-> flow,
   actions |-> actions, num_of_actions |-> n, next_state |-> 2]

NoFlow == <<>>

\* A flow with these fields; a mask differs from its address.
On(fields) ==
  [f \in fields |-> IF f \in {"src_ip", "src_mac", "dst_mac"} THEN v1 ELSE v2]

Kinds ==
  {Kind(<<>>, v1, On({"src_ip", "dst_mac"}), <<goto>>, 1),
   Kind(<<v1>>, Absent, NoFlow, <<notify>>, 1),
   Kind(<<v1, v2>>, Absent, On({"src_mac", "src_mac_mask"}), <<notify, goto>>, 2),
   Kind(<<v2>>, v2, NoFlow, <<window, notify, goto>>, 3),
   Kind(<<>>, v2, On(FlowField), <<window, goto>>, 2),
   Kind(<<v2, v1>>, v1, NoFlow, <<goto, notify>>, 1),
   Kind(<<v1>>, Absent, [On({"src_ip", "src_mac"}) EXCEPT !["src_ip"] = v2],
        <<notify, window, goto>>, 2),
   [Kind(<<>>, Absent, NoFlow, <<goto, notify>>, 2) EXCEPT !.num_of_row_evnts = 1]}

Plain == Kind(<<v1>>, Absent, On({"src_ip"}), <<notify, goto>>, 2)

Many(n) == [i \in 1..n |-> notify]

\* Actions announced: none, with and without one listed; one too many; as many
\* as action_string can count, one more, and as many of one more.  Events
\* announced: too few.  All but the two with nine actions are not sound.
Disagreeing ==
  {[Plain EXCEPT !.num_of_actions = 0],
   [Plain EXCEPT !.num_of_actions = 0, !.actions = <<>>],
   [Plain EXCEPT !.num_of_actions = 3],
   [Plain EXCEPT !.num_of_actions = 1, !.actions = <<>>],
   [Plain EXCEPT !.num_of_actions = 9, !.actions = Many(9)],
   [Plain EXCEPT !.num_of_actions = 10, !.actions = Many(10)],
   [Plain EXCEPT !.num_of_actions = 9, !.actions = Many(10)],
   [Plain EXCEPT !.num_of_row_evnts = 0]}

Numbered(rows) == [i \in DOMAIN rows |-> [rows[i] EXCEPT !.state = i]]

Document(rows, room) ==
  [params |-> [p \in Param |-> IF p = "mon-id" THEN v1 ELSE v2],
   rows |-> Numbered(rows), total_states |-> room]

SoundDocuments ==
  {Document(rows, Len(rows) + spare) : rows \in BoundedSeq(Kinds, 2), spare \in {0, 1}}

OtherDocuments ==
  UNION {{Document(<<k>>, 1), Document(<<k, Plain>>, 2), Document(<<Plain, k>>, 2),
          Document(<<k, Plain>>, 1)} : k \in Disagreeing \cup {Plain}}

MCDocuments == SoundDocuments \cup OtherDocuments
=============================================================================
