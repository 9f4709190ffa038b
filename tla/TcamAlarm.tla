----------------------------- MODULE TcamAlarm -----------------------------
(***************************************************************************)
(* The alarm that the switch runs out of TCAM entries.  A periodic zloop   *)
(* timer checks the field group's status.  When it raises the alarm, the   *)
(* flag send_switch_notification is cleared and a second timer is started, *)
(* which sets the flag again and ends itself.                              *)
(*                                                                         *)
(* Time passes in ticks.  A timer is due when its countdown is 0, and no   *)
(* tick passes while one is due: the daemon keeps up.  Timers that are due *)
(* together fire in any order.                                             *)
(***************************************************************************)
EXTENDS Naturals, Sequences, SequencesExt

CONSTANTS
  Intervals,     \* tcam-timer values the controller configures, in ticks
  FirstInterval, \* the one the daemon starts with
  Limits,        \* [max, min]: thresholds the controller sets
  AgentCount,    \* sizes hmap_count may return
  FreeCount,     \* what the switch may report as entries_free
  StatusFails,   \* TRUE if reading the group status may fail
  MaxTime        \* bound: ghost clocks stop here

ASSUME ConstantsAssumption ==
  /\ Intervals \subseteq Nat \ {0} /\ FirstInterval \in Nat \ {0}
  /\ Limits \subseteq [max : Nat, min : Nat]
  /\ AgentCount \subseteq Nat /\ FreeCount \subseteq Nat
  /\ StatusFails \in BOOLEAN
  /\ MaxTime \in Nat /\ \A p \in Intervals \cup {FirstInterval} : p <= MaxTime

VARIABLES
  tcam_timer_interval,       \* as configured
  tcam_thresholds,           \* max_allowed_tcam_entries, min_free_entries
  send_switch_notification,  \* the flag; TRUE allows an alarm
  check,                     \* countdown and period of the check timer
  mute,                      \* the same for each s_fp_notify timer, oldest first
  last,                      \* the last step: see Report
  since,                     \* ghost: ticks since the last alarm
  spacing,                   \* ghost: the interval configured at that time
  steady,                    \* ghost: the interval has not changed since
  silent                     \* ghost: checks in a row that could have alarmed

code == <<tcam_timer_interval, tcam_thresholds, send_switch_notification,
          check, mute>>
ghosts == <<since, spacing, steady, silent>>
vars == <<code, last, ghosts>>

Periods == Intervals \cup {FirstInterval}
Timer == UNION {[left : 0..p, period : {p}] : p \in Periods}
Limit == Limits \cup {[max |-> 0, min |-> 0]}

\* The last step, and whether it sent an alarm.
Report == [op : {"none", "check"}, alarm : BOOLEAN]

TypeOK ==
  /\ tcam_timer_interval \in Periods
  /\ tcam_thresholds \in Limit
  /\ send_switch_notification \in BOOLEAN
  /\ check \in Timer
  /\ mute \in Seq(Timer)
  /\ last \in Report
  /\ since \in 0..MaxTime
  /\ spacing \in Periods \cup {0}
  /\ steady \in BOOLEAN
  /\ silent \in Nat

Idle == [op |-> "none", alarm |-> FALSE]

ZloopTimer(period) == [left |-> period, period |-> period]

\* A timer without an end is due again after its period.
Again(t) == ZloopTimer(t.period)

\* Seeded fault: the reactor forgets the timers of the alarm.
DueCheck == check.left = 0

Due == check.left = 0 \/ \E i \in DOMAIN mute : mute[i].left = 0
-----------------------------------------------------------------------------
Init ==
  /\ tcam_timer_interval = FirstInterval
  /\ tcam_thresholds = [max |-> 0, min |-> 0]
  /\ send_switch_notification = TRUE
  /\ check = ZloopTimer(FirstInterval)
  /\ mute = <<>>
  /\ last = Idle
  /\ since = MaxTime /\ spacing = 0 /\ steady = TRUE /\ silent = 0

Tick ==
  /\ ~Due
  /\ check' = [check EXCEPT !.left = @ - 1]
  /\ mute' = [i \in DOMAIN mute |-> [mute[i] EXCEPT !.left = @ - 1]]
  /\ since' = IF since < MaxTime THEN since + 1 ELSE since
  /\ last' = Idle
  /\ UNCHANGED <<tcam_timer_interval, tcam_thresholds, send_switch_notification,
                 spacing, steady, silent>>

\* Seeded faults: the flag is not looked at; the last entry below the minimum
\* is overlooked.
FlagIgnored(size, free) ==
  size > tcam_thresholds.max /\ free < tcam_thresholds.min

LastEntryMissed(size, free) ==
  size > tcam_thresholds.max /\ free + 1 < tcam_thresholds.min
    /\ send_switch_notification

Alarms(size, free) ==
  /\ size > tcam_thresholds.max
  /\ free < tcam_thresholds.min
  /\ send_switch_notification

\* s_fp_group_status_check_timer_event.  A status that cannot be read is all
\* zeroes.
StatusCheck ==
  /\ check.left = 0
  /\ check' = Again(check)
  /\ \E size \in AgentCount, free \in FreeCount, fails \in {FALSE, StatusFails} :
       LET alarm == Alarms(size, IF fails THEN 0 ELSE free)
           short == size > tcam_thresholds.max /\ free < tcam_thresholds.min
       IN  /\ send_switch_notification' = (send_switch_notification /\ ~alarm)
           /\ mute' = IF alarm THEN Append(mute, ZloopTimer(tcam_timer_interval))
                      ELSE mute
           /\ last' = [op |-> "check", alarm |-> alarm]
           /\ since' = IF alarm THEN 0 ELSE since
           /\ spacing' = IF alarm THEN tcam_timer_interval ELSE spacing
           /\ steady' = (steady \/ alarm)
           /\ silent' = IF alarm \/ ~short THEN 0
                        ELSE IF silent < MaxTime THEN silent + 1 ELSE silent
  /\ UNCHANGED <<tcam_timer_interval, tcam_thresholds>>

\* s_fp_notify_timer_event.
NotifyTimer(i) ==
  /\ mute[i].left = 0
  /\ mute' = RemoveAt(mute, i)
  /\ send_switch_notification' = TRUE
  /\ last' = Idle
  /\ UNCHANGED <<tcam_timer_interval, tcam_thresholds, check, ghosts>>

\* configure-tcam-timer restarts the check timer with the new interval.
ConfigureTcamTimer(p) ==
  /\ tcam_timer_interval' = p
  /\ check' = ZloopTimer(p)
  /\ steady' = (steady /\ p = tcam_timer_interval)
  /\ last' = Idle
  /\ UNCHANGED <<tcam_thresholds, send_switch_notification, mute,
                 since, spacing, silent>>

\* fp-entry-threshold.
FpEntryThreshold(limit) ==
  /\ tcam_thresholds' = limit
  /\ last' = Idle
  /\ UNCHANGED <<tcam_timer_interval, send_switch_notification, check, mute,
                 ghosts>>

Next ==
  \/ Tick
  \/ StatusCheck
  \/ \E i \in DOMAIN mute : NotifyTimer(i)
  \/ \E p \in Intervals : ConfigureTcamTimer(p)
  \/ \E l \in Limits : FpEntryThreshold(l)

Spec == Init /\ [][Next]_vars
-----------------------------------------------------------------------------
(***************************************************************************)
(* Properties.                                                             *)
(***************************************************************************)

\* The flag is cleared exactly while one timer runs that will set it: the
\* alarm is never muted for good, and never by two timers.
MutedByOneTimer ==
  /\ Len(mute) <= 1
  /\ send_switch_notification <=> mute = <<>>

\* Two alarms are at least the interval apart that was configured when the
\* first one was sent, whatever is configured in between.
AlarmsSpaced == [][last'.op = "check" /\ last'.alarm => since >= spacing]_vars

\* As long as the interval stays as it is, a shortage goes unreported for at
\* most one check in a row.
ShortageReported == steady => silent <= 1

=============================================================================
