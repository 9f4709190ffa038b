---------------------------- MODULE MCAutomaton ----------------------------
(* Small instances of Automaton for TLC. *)
EXTENDS Automaton

T(p, b) == [s \in Stat |-> IF s = "statPackets" THEN p ELSE b]

R(flow, threshold, action, next) ==
  [flow_exists |-> flow, threshold |-> threshold, action |-> action,
   next_state |-> next]

Goto == "GOTO_NXT_STATE"
Notify == "NOTIFY_CNTLR"
AfterN == "NOTIFY_CNTLR_AFTER_N_INTERVALS"
Link == "NOTIFY_LINK_UTILIZATION"

\* Tables that notify and move: from a flow to no flow and, by a state beyond
\* the table, back; with a window and the link utilization.
NotifyTables ==
  {<<R(TRUE, T(0, 1), <<Notify, Goto>>, 2),
     R(FALSE, T(0, 0), <<"NO_ACTION", Goto>>, 5)>>,
   <<R(TRUE, T(1, 1), <<AfterN, Link, Goto>>, NoNextState)>>}

\* Rows that notify after a move as well: to the other row and back, and to
\* the row itself.
LateTables ==
  {<<R(TRUE, T(1, 0), <<Notify, Goto, Notify>>, 2),
     R(TRUE, T(0, 1), <<Goto, Notify, Notify>>, 1)>>,
   <<R(TRUE, T(1, 1), <<Goto, Notify, Goto, Notify>>, 1)>>}

PollTables == NotifyTables \cup LateTables

NoneOrTwo == {0, 2}
TwoTypes == {"FP_STATS", "STATS"}
OneThreshold == {T(1, 0)}
NotifyFlag == {Notify}
TwoStrayBits == {"statBytes", "unused"}
=============================================================================
