----------------------------- MODULE Automaton -----------------------------
(***************************************************************************)
(* The automaton of one monitoring agent: what s_timer_event does to it    *)
(* when its group is polled, and the requests that change or read it in    *)
(* between.                                                                *)
(*                                                                         *)
(* A poll reads the counters of the agent's flow, derives the interval's   *)
(* traffic, compares it with the thresholds of the current row, and runs   *)
(* the row's actions: notifications to the controller and the move to      *)
(* another row.  The flow entries behind a move are in FlowEntries.tla;    *)
(* here a move succeeds, or is refused and ends the agent.                 *)
(*                                                                         *)
(* Of the notifications only flow events are modelled.  Port events are    *)
(* compared with an event list whose pointer the parser has moved past its *)
(* end; link utilisation and port data notifications change no state.      *)
(***************************************************************************)
EXTENDS Naturals, Sequences

CONSTANTS
  W,          \* the counters of the switch count modulo W (2^64)
  MaxGrowth,  \* bound: a flow grows by at most this between two polls
  Tables,     \* the state tables the controller sends, see Row
  MonTypes,   \* the mon-types it asks for
  Totals,     \* the number-of-poll-intervals it asks for, 0 for none
  Thresholds, \* thresholds it sets later on
  Toggled,    \* actions it enables and disables later on
  StrayBits,  \* bits that may be set in the bitmap of a new row
  ReadFails   \* TRUE if reading the counters may fail

Stat == {"statPackets", "statBytes"}
Action ==
  {"GOTO_NXT_STATE", "NOTIFY_CNTLR", "NOTIFY_CNTLR_AFTER_N_INTERVALS",
   "NOTIFY_LINK_UTILIZATION", "NO_ACTION"}
Flag == Action \ {"GOTO_NXT_STATE", "NO_ACTION"}
MonType == {"FP", "STATS", "FP_STATS", "P_STATS"}
NoNextState == 255

\* Bits of flow_events_bitmap: the two of flow events, and one of the rest.
FlowBit == Stat \cup {"unused"}

Row ==
  [flow_exists : BOOLEAN, threshold : [Stat -> Nat], action : Seq(Action),
   next_state : 1..NoNextState]

ASSUME ConstantsAssumption ==
  /\ W \in Nat /\ MaxGrowth \in Nat /\ MaxGrowth < W
  /\ Tables \subseteq Seq(Row) \ {<<>>}
  /\ MonTypes \subseteq MonType
  /\ Totals \subseteq Nat
  /\ Thresholds \subseteq [Stat -> Nat]
  /\ Toggled \subseteq Flag
  /\ StrayBits \subseteq FlowBit
  /\ ReadFails \in BOOLEAN

VARIABLES
  rows,      \* state_table_rows: the table, thresholds as changed since
  agent,     \* struct mon_agent, see Agent
  bitmap,    \* flow_events_bitmap of each row, as a set of bits
  register,  \* the switch's counters of the agent's flow, modulo W
  growth,    \* ghost: what the flow has counted since they were last read
  trusted,   \* ghost: the last reading of the counters did not fail
  last       \* what the last step was, see Report

vars == <<rows, agent, bitmap, register, growth, trusted, last>>

Zero == [s \in Stat |-> 0]
Counters == [Stat -> 0 .. W - 1]

Agent ==
  [registered : BOOLEAN, mon_type : MonType, current_state : 1..NoNextState,
   total : Totals, count : Nat, notify : [Flag -> BOOLEAN],
   val : Counters, delta : Counters, interval : Counters]

Notification == [row : Nat, flow : SUBSET FlowBit]

\* The last step: whether it was a poll, the row that began in, the counters
\* that exceeded their threshold in the interval, whether both ends of the
\* interval were read, whether the agent moved, what was published.
Report ==
  [op : {"none", "poll"}, row : Nat, exceeded : SUBSET Stat, real : BOOLEAN,
   moved : BOOLEAN, out : Seq(Notification)]

TypeOK ==
  /\ rows \in Seq(Row) \ {<<>>}
  /\ agent \in Agent
  /\ agent.total # 0 => agent.count < agent.total
  /\ bitmap \in [DOMAIN rows -> SUBSET FlowBit]
  /\ register \in Counters
  /\ growth \in [Stat -> 0..MaxGrowth]
  /\ trusted \in BOOLEAN
  /\ last \in Report

Quiet ==
  [op |-> "none", row |-> 0, exceeded |-> {}, real |-> TRUE,
   moved |-> FALSE, out |-> <<>>]

\* get_row_of_state_machine: a state beyond the table means its first row.
RowIndex(a) == IF a.current_state <= Len(rows) THEN a.current_state ELSE 1

Lists(table, action) ==
  \E i \in DOMAIN table :
    \E j \in DOMAIN table[i].action : table[i].action[j] = action
-----------------------------------------------------------------------------
(***************************************************************************)
(* Reading the counters.                                                   *)
(***************************************************************************)

MonitorsFlow(a) ==
  a.mon_type \in {"FP", "FP_STATS"} /\ rows[RowIndex(a)].flow_exists

\* get_stats_attached_to_flow_enty returns zeroes when a read fails.
Reading(fails) == IF fails THEN Zero ELSE register

\* Seeded fault: the difference of a counter that has wrapped is zero.
ShiftSaturates(a, reading) ==
  [a EXCEPT !.val = a.delta, !.delta = reading,
            !.interval = [s \in Stat |-> IF reading[s] < a.delta[s] THEN 0
                                         ELSE reading[s] - a.delta[s]]]

\* The end of the last interval becomes the start of this one.
Shift(a, reading) ==
  [a EXCEPT !.val = a.delta,
            !.delta = reading,
            !.interval = [s \in Stat |-> (reading[s] + W - a.delta[s]) % W]]

\* Seeded fault: a threshold that is just reached counts.
ReachedThresholds(a, row) ==
  {s \in Stat : a.interval[s] >= row.threshold[s] /\ row.threshold[s] # 0}

\* check_events_flow_stats.
Exceeded(a, row) ==
  {s \in Stat : a.interval[s] > row.threshold[s] /\ row.threshold[s] # 0}

\* Seeded fault: the interval counter does not start again.
TickWithoutEnd(a) == IF a.total = 0 THEN a ELSE [a EXCEPT !.count = @ + 1]

\* Tick the interval counter if the controller has set a number of intervals.
Tick(a) ==
  IF a.total = 0 THEN a ELSE [a EXCEPT !.count = (@ + 1) % a.total]
-----------------------------------------------------------------------------
(***************************************************************************)
(* The actions of a row.  They work on c = [agent, bitmap, out, moved]; q  *)
(* holds what they have in common: the row at the start of the poll, the   *)
(* local "notification", and whether the flow of a move is refused.        *)
(***************************************************************************)

\* Seeded fault: the bits are not reset once the event has been sent.
SendKeepsBits(c) ==
  LET r == RowIndex(c.agent)
  IN  IF c.bitmap[r] = {} THEN c
      ELSE [c EXCEPT !.out = Append(@, [row |-> r, flow |-> c.bitmap[r]])]

\* Seeded fault: packets are reported only when bytes are not.
SendPacketsAlone(c) ==
  LET r     == RowIndex(c.agent)
      bits  == c.bitmap[r]
      alone == IF "statBytes" \in bits THEN {"statBytes"} ELSE bits
  IN  IF bits = {} THEN c
      ELSE [c EXCEPT !.bitmap[r] = @ \ Stat,
                     !.out = Append(@, [row |-> r, flow |-> alone])]

\* send_stats_notification, for the row the agent is in by now.  An unused
\* bit makes the byte look like both events.
Send(c) ==
  LET r    == RowIndex(c.agent)
      flow == IF "unused" \in c.bitmap[r] THEN Stat ELSE c.bitmap[r]
  IN  IF c.bitmap[r] = {} THEN c
      ELSE [c EXCEPT !.bitmap[r] = @ \ Stat,
                     !.out = Append(@, [row |-> r, flow |-> flow])]

\* Seeded fault: the next row of the table instead of the row's next state.
GotoFollowingRow(c, q) ==
  [c EXCEPT !.moved = TRUE,
            !.agent = IF q.refused THEN [@ EXCEPT !.registered = FALSE]
                      ELSE [@ EXCEPT !.current_state = @ + 1, !.val = Zero,
                                     !.delta = Zero, !.interval = Zero]]

\* GOTO_NXT_STATE: the statistics start again from zero, or the flow of the
\* new row is refused and the agent is discarded.
GotoNextState(c, q) ==
  [c EXCEPT !.moved = TRUE,
            !.agent = IF q.refused THEN [@ EXCEPT !.registered = FALSE]
                      ELSE [@ EXCEPT !.current_state = rows[q.row].next_state,
                                     !.val = Zero, !.delta = Zero,
                                     !.interval = Zero]]

\* Notifications are prepared for a row with a flow, and on a notification.
MaySend(q) == q.notification \/ rows[q.row].flow_exists

\* Whether a branch of the dispatcher takes the action act: it does for its
\* own action, and for every action once the agent's flag is set.
Wants(c, act, flag) == act = flag \/ c.agent.notify[flag]

\* One action of the row.  What an earlier branch takes, a later one does not
\* see: a set flag keeps GOTO_NXT_STATE from being reached.
Perform(c, act, q) ==
  IF ~c.agent.registered THEN c
  ELSE IF \/ Wants(c, act, "NOTIFY_CNTLR") /\ c.agent.total = 0
          \/ /\ Wants(c, act, "NOTIFY_CNTLR_AFTER_N_INTERVALS")
             /\ c.agent.count = 0
  THEN IF MaySend(q) THEN Send(c) ELSE c
  ELSE IF Wants(c, act, "NOTIFY_LINK_UTILIZATION") THEN c
  ELSE IF act = "GOTO_NXT_STATE" /\ rows[q.row].next_state # NoNextState
  THEN GotoNextState(c, q)
  ELSE c

\* The actions of the row are performed one after the other.
Performed(c, q) ==
  LET actions == rows[q.row].action
      done[k \in 0..Len(actions)] ==
        IF k = 0 THEN c ELSE Perform(done[k - 1], actions[k], q)
  IN  done[Len(actions)]
-----------------------------------------------------------------------------
\* MON_HELLO: the parser sets a flag for every notification any row lists.
\* The rows come from malloc: their bitmaps hold what was there.
Init ==
  /\ rows \in Tables
  /\ bitmap \in [DOMAIN rows -> SUBSET StrayBits]
  /\ \E type \in MonTypes, n \in Totals :
       agent = [registered |-> TRUE, mon_type |-> type, current_state |-> 1,
                total |-> n, count |-> 0,
                notify |-> [f \in Flag |-> Lists(rows, f)],
                val |-> Zero, delta |-> Zero, interval |-> Zero]
  /\ register = Zero
  /\ growth = Zero
  /\ trusted = TRUE
  /\ last = Quiet

\* A packet matches the agent's flow.
Traffic(s) ==
  /\ agent.registered /\ rows[RowIndex(agent)].flow_exists
  /\ growth[s] < MaxGrowth
  /\ growth' = [growth EXCEPT ![s] = @ + 1]
  /\ register' = [register EXCEPT ![s] = (@ + 1) % W]
  /\ last' = Quiet
  /\ UNCHANGED <<rows, agent, bitmap, trusted>>

\* s_timer_event, the iteration that polls the agent.  The local
\* "notification" may keep a value from the agent polled before, and the
\* check for port events overwrites it from a row that an uninitialised
\* local selects.
Poll ==
  /\ agent.registered
  /\ \E fails, stale, refused \in BOOLEAN :
       LET i     == RowIndex(agent)
           flow  == MonitorsFlow(agent)
           a     == IF flow THEN Shift(Tick(agent), Reading(fails))
                    ELSE Tick(agent)
           event == IF flow THEN Exceeded(a, rows[i]) ELSE {}
           bits  == IF flow
                    THEN [bitmap EXCEPT ![i] = (@ \ Stat) \cup event]
                    ELSE bitmap
           q     == [row |-> i, refused |-> refused,
                     notification |-> IF flow /\ a.mon_type = "FP"
                                      THEN event # {} ELSE stale]
           end   == Performed([agent |-> a, bitmap |-> bits, moved |-> FALSE,
                               out |-> <<>>], q)
           grown == {s \in Stat : /\ growth[s] > rows[i].threshold[s]
                                  /\ rows[i].threshold[s] # 0 /\ flow}
       IN  /\ fails => ReadFails /\ flow
           /\ agent' = end.agent
           /\ bitmap' = end.bitmap
           /\ register' = IF end.moved THEN Zero ELSE register
           /\ growth' = IF flow \/ end.moved THEN Zero ELSE growth
           /\ trusted' = (end.moved \/ IF flow THEN ~fails ELSE trusted)
           /\ last' = [op |-> "poll", row |-> i, exceeded |-> grown,
                       real |-> trusted /\ ~fails,
                       moved |-> end.moved, out |-> end.out]
  /\ UNCHANGED rows

\* modify-event-thresholds, for the row the agent is in.
ModifyEventThresholds(threshold) ==
  /\ agent.registered
  /\ rows' = [rows EXCEPT ![RowIndex(agent)].threshold = threshold]
  /\ last' = Quiet
  /\ UNCHANGED <<agent, bitmap, register, growth, trusted>>

\* enable-disable-action toggles the agent's flag.
EnableDisableAction(flag) ==
  /\ agent.registered
  /\ agent' = [agent EXCEPT !.notify[flag] = ~@]
  /\ last' = Quiet
  /\ UNCHANGED <<rows, bitmap, register, growth, trusted>>

Next ==
  \/ \E s \in Stat : Traffic(s)
  \/ Poll
  \/ \E t \in Thresholds : ModifyEventThresholds(t)
  \/ \E f \in Toggled : EnableDisableAction(f)

Spec == Init /\ [][Next]_vars
-----------------------------------------------------------------------------
(***************************************************************************)
(* Properties.                                                             *)
(***************************************************************************)

Reported == UNION {last.out[j].flow : j \in DOMAIN last.out}

\* The interval's values are what the flow has counted since the last poll,
\* also when a counter has wrapped, the row has changed or the threshold has.
\* A read that fails spoils two intervals and no more.
IntervalExact ==
  [][last'.op = "poll" /\ MonitorsFlow(agent) /\ ~last'.moved /\ last'.real
     => agent'.interval = growth]_vars

\* "The event occurred during this interval": a flow event published for the
\* row the poll began in is that of a counter which exceeded its threshold in
\* the interval that the poll ended, if both its ends were read, whatever the
\* row's event bits were before.  Of a row the agent has moved to in the poll,
\* or one without a flow to monitor, it is an event whose bit was there before
\* the poll.  Only an unused bit makes up events.
EventsHaveSource ==
  [][last'.op = "poll" /\ last'.real =>
       \A j \in DOMAIN last'.out :
         LET r == last'.out[j].row
         IN  last'.out[j].flow \subseteq
               IF "unused" \in bitmap[r] THEN Stat
               ELSE IF r = last'.row /\ MonitorsFlow(agent) THEN last'.exceeded
               ELSE bitmap[r]]_vars

\* A flow event is published at once by an agent told to NOTIFY_CNTLR, and
\* when the counter of intervals is 0 by one told to wait for N.
FlowEventReported ==
  [][last'.op = "poll" /\ last'.real /\ rows[last'.row].action # <<>>
       /\ \/ agent.notify["NOTIFY_CNTLR"] /\ agent.total = 0
          \/ agent.notify["NOTIFY_CNTLR_AFTER_N_INTERVALS"] /\ agent'.count = 0
     => last'.exceeded \subseteq Reported']_vars

\* No poll publishes an event of a row twice, however many actions ask for it
\* and wherever the agent moves in between, unless an unused bit makes it up.
NoEventTwice ==
  \A j, k \in DOMAIN last.out :
    /\ j # k /\ last.out[j].row = last.out[k].row
    /\ last.out[j].flow \cap last.out[k].flow # {}
    => "unused" \in bitmap[last.out[j].row]

ListsGoto(row) ==
  /\ row.next_state # NoNextState
  /\ \E j \in DOMAIN row.action : row.action[j] = "GOTO_NXT_STATE"

Left(a, row) == a.current_state = row.next_state \/ ~a.registered

\* "If this action is specified", an agent with no flag set goes to the next
\* state or ends because the flow of that state is refused, whatever its table
\* or the controller has had set before.
GotoTakenUnflagged ==
  [][last'.op = "poll" /\ ListsGoto(rows[last'.row])
       /\ (\A f \in Flag : ~agent.notify[f])
     => Left(agent', rows[last'.row])]_vars

=============================================================================
