--------------------------- MODULE TcamAlarmProofs ---------------------------
(***************************************************************************)
(* Proofs about the TCAM alarm, for any intervals, limits and readings.    *)
(*                                                                         *)
(* The alarm is muted while one timer runs (Muted).  That timer was given  *)
(* the interval configured at the alarm, so what is left of it and the     *)
(* time since then make up that interval (Apart).  As long as the interval *)
(* is not changed the mute timer is never behind the check timer, so only  *)
(* a check that is due together with it can find the alarm muted (InStep). *)
(***************************************************************************)
EXTENDS TcamAlarm, TLAPS

\* The mute timer and the flag.
Muted ==
  \/ mute = <<>> /\ send_switch_notification
  \/ Len(mute) = 1 /\ ~send_switch_notification

\* The distance of the last alarm.
Apart ==
  /\ mute = <<>> => since >= spacing
  /\ mute # <<>> => since + mute[1].left >= spacing

\* The two timers, as long as the interval has not changed.
InStep ==
  steady =>
    /\ silent <= 1
    /\ mute # <<>> =>
         /\ mute[1].left <= check.left
         /\ silent = 1 => mute[1].left = 0 /\ check.left > 0

AlarmInv ==
  /\ TypeOK /\ Muted /\ Apart /\ InStep
  /\ check.period = tcam_timer_interval
-----------------------------------------------------------------------------
LEMMA PeriodType == \A p \in Periods : p \in Nat \ {0} /\ p <= MaxTime
BY ConstantsAssumption DEF Periods

\* What is known of a timer.
LEMMA TimerType ==
  /\ \A t : t \in Timer <=> \E p \in Periods : t \in [left : 0..p, period : {p}]
  /\ \A t \in Timer : /\ t.period \in Periods /\ t.left \in 0..t.period
                      /\ t.left \in Nat
                      /\ t = [left |-> t.left, period |-> t.period]
<1>1. \A t : t \in Timer <=> \E p \in Periods : t \in [left : 0..p, period : {p}]
  BY DEF Timer
<1>2. ASSUME NEW t \in Timer
      PROVE  /\ t.period \in Periods /\ t.left \in 0..t.period
             /\ t.left \in Nat
             /\ t = [left |-> t.left, period |-> t.period]
  <2>1. PICK p \in Periods : t \in [left : 0..p, period : {p}]
    BY <1>1
  <2> QED
    BY <2>1, PeriodType
<1> QED
  BY <1>1, <1>2

\* A timer that is started, and one that is a tick older.
LEMMA TimerStarted ==
  ASSUME NEW p \in Periods
  PROVE  /\ ZloopTimer(p) \in Timer /\ ZloopTimer(p).left = p
         /\ ZloopTimer(p).period = p /\ p > 0 /\ p \in Nat
<1>1. p \in Nat \ {0}
  BY PeriodType
<1>2. ZloopTimer(p) \in [left : 0..p, period : {p}]
  BY <1>1 DEF ZloopTimer
<1> QED
  BY <1>1, <1>2, TimerType DEF ZloopTimer

LEMMA TimerOlder ==
  ASSUME NEW t \in Timer, t.left # 0
  PROVE  LET u == [t EXCEPT !.left = @ - 1]
         IN  u \in Timer /\ u.left = t.left - 1 /\ u.period = t.period
<1>1. PICK p \in Periods : t \in [left : 0..p, period : {p}]
  BY TimerType
<1>2. [t EXCEPT !.left = @ - 1] \in [left : 0..p, period : {p}]
  BY <1>1, PeriodType
<1> QED
  BY <1>1, <1>2, TimerType

\* A single mute timer is the one that ends.
LEMMA LastTimerEnds ==
  ASSUME NEW i \in DOMAIN mute, mute \in Seq(Timer), Len(mute) = 1
  PROVE  RemoveAt(mute, i) = <<>> /\ i = 1
<1>1. i = 1
  OBVIOUS
<1>2. SubSeq(mute, 1, 0) = <<>> /\ SubSeq(mute, 2, 1) = <<>>
  OBVIOUS
<1> QED
  BY <1>1, <1>2 DEF RemoveAt
-----------------------------------------------------------------------------
\* At the start nothing is muted.
LEMMA AlarmInit == Init => AlarmInv
<1> SUFFICES ASSUME Init PROVE AlarmInv
  OBVIOUS
<1>1. FirstInterval \in Periods
  BY DEF Periods
<1>2. /\ check \in Timer /\ check.period = tcam_timer_interval
  BY <1>1, TimerStarted DEF Init
<1>3. mute = <<>> /\ mute \in Seq(Timer)
  BY DEF Init
<1>4. TypeOK
  BY <1>1, <1>2, <1>3, ConstantsAssumption DEF Init, TypeOK, Limit, Idle, Report
<1>5. Muted /\ Apart /\ InStep
  BY ConstantsAssumption DEF Init, Muted, Apart, InStep, Idle
<1> QED
  BY <1>2, <1>4, <1>5 DEF AlarmInv

\* Both timers get a tick older together; the time since the alarm grows, or
\* has reached every interval.
LEMMA TickStep == AlarmInv /\ Tick => AlarmInv'
<1> SUFFICES ASSUME AlarmInv, Tick PROVE AlarmInv'
  OBVIOUS
<1>1. /\ check \in Timer /\ check.left # 0 /\ check.left \in Nat
      /\ check' = [check EXCEPT !.left = @ - 1]
      /\ check.period = tcam_timer_interval
  BY TimerType DEF AlarmInv, TypeOK, Tick, Due
<1>2. /\ check' \in Timer /\ check'.left = check.left - 1
      /\ check'.period = check.period
  BY <1>1, TimerOlder
<1>3. /\ UNCHANGED <<tcam_timer_interval, tcam_thresholds,
                     send_switch_notification, spacing, steady, silent>>
      /\ last' = Idle /\ since' = IF since < MaxTime THEN since + 1 ELSE since
      /\ since \in 0..MaxTime /\ spacing \in Nat /\ spacing <= MaxTime
      /\ silent \in Nat /\ MaxTime \in Nat
  BY PeriodType, ConstantsAssumption DEF AlarmInv, TypeOK, Tick
<1>4. since' \in 0..MaxTime
  BY <1>3
<1>5. last' \in Report
  BY <1>3 DEF Idle, Report
<1>6. /\ mute \in Seq(Timer) /\ (mute = <<>> \/ Len(mute) = 1)
      /\ mute' = [i \in DOMAIN mute |-> [mute[i] EXCEPT !.left = @ - 1]]
  BY DEF AlarmInv, TypeOK, Muted, Tick
<1>7. CASE mute = <<>>
  <2>1. mute' = <<>>
    BY <1>6, <1>7
  <2>2. TypeOK'
    BY <1>2, <1>3, <1>4, <1>5, <1>6, <1>7, <2>1 DEF AlarmInv, TypeOK
  <2>3. Muted'
    BY <1>3, <1>7, <2>1 DEF AlarmInv, Muted
  <2>4. Apart'
    BY <1>3, <1>7, <2>1 DEF AlarmInv, Apart
  <2>5. InStep'
    BY <1>3, <2>1 DEF AlarmInv, InStep
  <2> QED
    BY <1>1, <1>2, <1>3, <1>5, <2>2, <2>3, <2>4, <2>5 DEF AlarmInv
<1>8. CASE Len(mute) = 1
  <2> DEFINE t == mute[1]
             u == [t EXCEPT !.left = @ - 1]
  <2>1. t \in Timer /\ t.left # 0 /\ DOMAIN mute = {1} /\ mute # <<>>
    <3>1. DOMAIN mute = {1} /\ mute # <<>> /\ t \in Timer
      BY <1>6, <1>8
    <3>2. \A i \in DOMAIN mute : mute[i].left # 0
      BY DEF Tick, Due
    <3> QED
      BY <3>1, <3>2
  <2>2. u \in Timer /\ u.left = t.left - 1 /\ t.left \in Nat
    BY <2>1, TimerOlder, TimerType
  <2>3. mute' = [i \in {1} |-> u]
    BY <1>6, <2>1
  <2> HIDE DEF u
  <2>4. mute' \in Seq(Timer) /\ Len(mute') = 1 /\ mute'[1] = u /\ mute' # <<>>
    <3>1. mute' = <<u>>
      BY <2>3
    <3> QED
      BY <2>2, <3>1
  <2>5. TypeOK'
    BY <1>2, <1>3, <1>4, <1>5, <2>4 DEF AlarmInv, TypeOK
  <2>6. Muted'
    BY <1>3, <1>8, <2>1, <2>4 DEF AlarmInv, Muted
  <2>7. since + t.left >= spacing
    BY <2>1 DEF AlarmInv, Apart
  <2>8. since' + u.left >= spacing'
    BY <1>3, <2>1, <2>2, <2>7
  <2>9. Apart'
    BY <2>4, <2>8 DEF Apart
  <2>10. steady => silent <= 1 /\ t.left <= check.left /\ (silent = 1 => t.left = 0)
    BY <2>1 DEF AlarmInv, InStep
  <2>11. InStep'
    BY <1>1, <1>2, <1>3, <2>1, <2>2, <2>4, <2>10 DEF InStep
  <2> QED
    BY <1>1, <1>2, <1>3, <1>5, <2>5, <2>6, <2>9, <2>11 DEF AlarmInv
<1> QED
  BY <1>6, <1>7, <1>8

\* A check, with what it found: the alarm goes off only if it is not muted.
LEMMA CheckEffect ==
  ASSUME TypeOK, StatusCheck
  PROVE  \E alarm, short \in BOOLEAN :
           /\ alarm => send_switch_notification
           /\ short /\ send_switch_notification => alarm
           /\ send_switch_notification' = (send_switch_notification /\ ~alarm)
           /\ mute' = IF alarm THEN Append(mute, ZloopTimer(tcam_timer_interval))
                      ELSE mute
           /\ last' = [op |-> "check", alarm |-> alarm]
           /\ since' = IF alarm THEN 0 ELSE since
           /\ spacing' = IF alarm THEN tcam_timer_interval ELSE spacing
           /\ steady' = (steady \/ alarm)
           /\ silent' = IF alarm \/ ~short THEN 0
                        ELSE IF silent < MaxTime THEN silent + 1 ELSE silent
<1>1. PICK size \in AgentCount, free \in FreeCount, fails \in {FALSE, StatusFails} :
        LET alarm == Alarms(size, IF fails THEN 0 ELSE free)
            short == size > tcam_thresholds.max /\ free < tcam_thresholds.min
        IN  /\ send_switch_notification' = (send_switch_notification /\ ~alarm)
            /\ mute' = IF alarm THEN Append(mute, ZloopTimer(tcam_timer_interval))
                       ELSE mute
            /\ last' = [op |-> "check", alarm |-> alarm]
            /\ since' = IF alarm THEN 0 ELSE since
            /\ spacing' = IF alarm THEN tcam_timer_interval ELSE spacing
            /\ steady' = (steady \/ alarm)
            /\ silent' = IF alarm \/ ~short THEN 0
                         ELSE IF silent < MaxTime THEN silent + 1 ELSE silent
  BY DEF StatusCheck
<1> DEFINE alarm == Alarms(size, IF fails THEN 0 ELSE free)
           short == size > tcam_thresholds.max /\ free < tcam_thresholds.min
<1>2. alarm \in BOOLEAN /\ short \in BOOLEAN /\ fails \in BOOLEAN
  BY ConstantsAssumption DEF Alarms
<1>3. alarm => send_switch_notification
  BY DEF Alarms
<1>4. tcam_thresholds.min \in Nat /\ free \in Nat
  BY ConstantsAssumption DEF TypeOK, Limit
<1>5. short /\ send_switch_notification => alarm
  <2>1. CASE fails
    BY <1>4, <2>1 DEF Alarms
  <2>2. CASE ~fails
    BY <2>2 DEF Alarms
  <2> QED
    BY <2>1, <2>2
<1> HIDE DEF alarm, short
<1> QED
  BY <1>1, <1>2, <1>3, <1>5 DEF alarm, short

LEMMA CheckStep == AlarmInv /\ StatusCheck => AlarmInv'
<1> SUFFICES ASSUME AlarmInv, StatusCheck PROVE AlarmInv'
  OBVIOUS
<1>1. PICK alarm \in BOOLEAN, short \in BOOLEAN :
        /\ alarm => send_switch_notification
        /\ short /\ send_switch_notification => alarm
        /\ send_switch_notification' = (send_switch_notification /\ ~alarm)
        /\ mute' = IF alarm THEN Append(mute, ZloopTimer(tcam_timer_interval))
                   ELSE mute
        /\ last' = [op |-> "check", alarm |-> alarm]
        /\ since' = IF alarm THEN 0 ELSE since
        /\ spacing' = IF alarm THEN tcam_timer_interval ELSE spacing
        /\ steady' = (steady \/ alarm)
        /\ silent' = IF alarm \/ ~short THEN 0
                     ELSE IF silent < MaxTime THEN silent + 1 ELSE silent
  BY CheckEffect DEF AlarmInv
<1>2. /\ tcam_timer_interval \in Periods /\ tcam_timer_interval \in Nat \ {0}
      /\ check \in Timer /\ check.left = 0 /\ check.period = tcam_timer_interval
      /\ silent \in Nat /\ since \in Nat /\ spacing \in Nat
      /\ steady \in BOOLEAN /\ send_switch_notification \in BOOLEAN
  BY PeriodType DEF AlarmInv, TypeOK, StatusCheck
<1> DEFINE m == ZloopTimer(tcam_timer_interval)
<1>3. /\ m \in Timer /\ m.left = tcam_timer_interval
      /\ m.period = tcam_timer_interval
  BY <1>2, TimerStarted
<1>4. check' = m /\ UNCHANGED <<tcam_timer_interval, tcam_thresholds>>
  BY <1>2 DEF StatusCheck, Again
<1>5. mute \in Seq(Timer)
  BY DEF AlarmInv, TypeOK
<1> HIDE DEF m
<1>6. last' \in Report
  BY <1>1 DEF Report
<1>7. CASE alarm
  <2>1. mute = <<>>
    BY <1>1, <1>7 DEF AlarmInv, Muted
  <2>2. mute' = <<m>>
    BY <1>1, <1>7, <2>1 DEF m
  <2>3. mute' \in Seq(Timer) /\ Len(mute') = 1 /\ mute' # <<>> /\ mute'[1] = m
    BY <1>3, <2>2
  <2>4. since' = 0 /\ spacing' = tcam_timer_interval /\ silent' = 0
    BY <1>1, <1>7
  <2>5. TypeOK'
    BY <1>1, <1>2, <1>3, <1>4, <1>6, <2>3, <2>4, ConstantsAssumption
       DEF AlarmInv, TypeOK
  <2>6. Muted'
    BY <1>1, <1>7, <2>3 DEF Muted
  <2>7. Apart'
    BY <1>2, <1>3, <2>3, <2>4 DEF Apart
  <2>8. InStep'
    BY <1>2, <1>3, <1>4, <2>3, <2>4 DEF InStep
  <2> QED
    BY <1>3, <1>4, <1>6, <2>5, <2>6, <2>7, <2>8 DEF AlarmInv
<1>8. CASE ~alarm
  <2>1. /\ mute' = mute /\ since' = since /\ spacing' = spacing /\ steady' = steady
        /\ send_switch_notification' = send_switch_notification
    BY <1>1, <1>2, <1>8
  <2>2. silent' \in {0, silent, silent + 1}
    BY <1>1
  <2>3. TypeOK'
    BY <1>2, <1>3, <1>4, <1>6, <2>1, <2>2 DEF AlarmInv, TypeOK
  <2>4. Muted' /\ Apart'
    BY <2>1 DEF AlarmInv, Muted, Apart
  <2>5. InStep'
    <3> SUFFICES ASSUME steady
                 PROVE  /\ silent' <= 1
                        /\ mute # <<>> =>
                             /\ mute[1].left <= m.left
                             /\ silent' = 1 => mute[1].left = 0 /\ m.left > 0
      BY <1>4, <2>1 DEF InStep
    <3>1. CASE mute = <<>>
      <4>1. send_switch_notification
        BY <3>1 DEF AlarmInv, Muted
      <4>2. silent' = 0
        BY <1>1, <1>8, <4>1
      <4> QED
        BY <3>1, <4>2
    <3>2. CASE mute # <<>>
      <4>1. /\ mute[1].left <= 0 /\ silent <= 1
            /\ silent = 1 => FALSE
        BY <1>2, <3>2 DEF AlarmInv, InStep
      <4>2. mute[1] \in Timer
        BY <1>5, <3>2
      <4>3. mute[1].left = 0 /\ silent = 0
        BY <1>2, <4>1, <4>2, TimerType
      <4> QED
        BY <1>2, <1>3, <2>2, <4>3
    <3> QED
      BY <3>1, <3>2
  <2> QED
    BY <1>3, <1>4, <1>6, <2>3, <2>4, <2>5 DEF AlarmInv
<1> QED
  BY <1>7, <1>8

LEMMA NotifyStep ==
  ASSUME NEW i \in DOMAIN mute, AlarmInv, NotifyTimer(i)
  PROVE  AlarmInv'
<1>1. mute \in Seq(Timer) /\ Len(mute) = 1
  BY DEF AlarmInv, TypeOK, Muted
<1>2. RemoveAt(mute, i) = <<>> /\ i = 1
  BY <1>1, LastTimerEnds
<1>3. /\ mute' = <<>> /\ mute[1].left = 0 /\ mute # <<>>
      /\ send_switch_notification' = TRUE /\ last' = Idle
      /\ UNCHANGED <<tcam_timer_interval, tcam_thresholds, check, since, spacing,
                     steady, silent>>
  BY <1>1, <1>2 DEF NotifyTimer, ghosts
<1>4. since >= spacing
  BY <1>3 DEF AlarmInv, Apart, TypeOK
<1>5. TypeOK'
  BY <1>3 DEF AlarmInv, TypeOK, Idle, Report
<1>6. Muted' /\ Apart' /\ InStep'
  BY <1>3, <1>4 DEF AlarmInv, Muted, Apart, InStep
<1> QED
  BY <1>3, <1>5, <1>6 DEF AlarmInv

LEMMA ConfigureStep ==
  ASSUME NEW p \in Intervals, AlarmInv, ConfigureTcamTimer(p)
  PROVE  AlarmInv'
<1>1. p \in Periods
  BY DEF Periods
<1>2. /\ tcam_timer_interval' = p /\ check' = ZloopTimer(p)
      /\ steady' = (steady /\ p = tcam_timer_interval) /\ last' = Idle
      /\ UNCHANGED <<tcam_thresholds, send_switch_notification, mute,
                     since, spacing, silent>>
  BY DEF ConfigureTcamTimer
<1>3. /\ ZloopTimer(p) \in Timer /\ ZloopTimer(p).left = p
      /\ ZloopTimer(p).period = p /\ p > 0 /\ p \in Nat
  BY <1>1, TimerStarted
<1>4. steady' \in BOOLEAN /\ (steady' => steady /\ p = tcam_timer_interval)
  BY <1>2 DEF AlarmInv, TypeOK
<1>5. TypeOK'
  BY <1>1, <1>2, <1>3, <1>4 DEF AlarmInv, TypeOK, Idle, Report
<1>6. Muted' /\ Apart'
  BY <1>2 DEF AlarmInv, Muted, Apart
<1>7. InStep'
  <2> SUFFICES ASSUME steady'
               PROVE  /\ silent <= 1
                      /\ mute # <<>> =>
                           /\ mute[1].left <= p
                           /\ silent = 1 => mute[1].left = 0 /\ p > 0
    BY <1>2, <1>3 DEF InStep
  <2>1. steady /\ p = check.period /\ check \in Timer
    BY <1>4 DEF AlarmInv, TypeOK
  <2>2. check.left <= p /\ check.left \in Nat
    BY <1>3, <2>1, TimerType
  <2>3. silent <= 1
    BY <2>1 DEF AlarmInv, InStep
  <2>4. ASSUME mute # <<>>
        PROVE  mute[1].left <= p /\ (silent = 1 => mute[1].left = 0)
    <3>1. mute[1] \in Timer
      BY <2>4 DEF AlarmInv, TypeOK
    <3>2. mute[1].left \in Nat
      BY <3>1, TimerType
    <3>3. mute[1].left <= check.left /\ (silent = 1 => mute[1].left = 0)
      BY <2>1, <2>4 DEF AlarmInv, InStep
    <3> QED
      BY <1>3, <2>2, <3>2, <3>3
  <2> QED
    BY <1>3, <2>3, <2>4
<1> QED
  BY <1>2, <1>3, <1>5, <1>6, <1>7 DEF AlarmInv

LEMMA ThresholdStep ==
  ASSUME NEW l \in Limits, AlarmInv, FpEntryThreshold(l)
  PROVE  AlarmInv'
<1>1. /\ tcam_thresholds' = l /\ last' = Idle
      /\ UNCHANGED <<tcam_timer_interval, send_switch_notification, check, mute,
                     since, spacing, steady, silent>>
  BY DEF FpEntryThreshold, ghosts
<1>2. TypeOK'
  BY <1>1 DEF AlarmInv, TypeOK, Limit, Idle, Report
<1> QED
  BY <1>1, <1>2 DEF AlarmInv, Muted, Apart, InStep

LEMMA AlarmStep == AlarmInv /\ [Next]_vars => AlarmInv'
<1> SUFFICES ASSUME AlarmInv, [Next]_vars PROVE AlarmInv'
  OBVIOUS
<1>1. CASE Tick
  BY <1>1, TickStep
<1>2. CASE StatusCheck
  BY <1>2, CheckStep
<1>3. ASSUME NEW i \in DOMAIN mute, NotifyTimer(i) PROVE AlarmInv'
  BY <1>3, NotifyStep
<1>4. ASSUME NEW p \in Intervals, ConfigureTcamTimer(p) PROVE AlarmInv'
  BY <1>4, ConfigureStep
<1>5. ASSUME NEW l \in Limits, FpEntryThreshold(l) PROVE AlarmInv'
  BY <1>5, ThresholdStep
<1>6. CASE UNCHANGED vars
  BY <1>6 DEF AlarmInv, TypeOK, Muted, Apart, InStep,
              vars, code, ghosts
<1> QED
  BY <1>1, <1>2, <1>3, <1>4, <1>5, <1>6 DEF Next

LEMMA SpecAlarmInv == Spec => []AlarmInv
BY AlarmInit, AlarmStep, PTL DEF Spec
-----------------------------------------------------------------------------
\* The types, for any intervals and limits.
THEOREM SpecTypeOK == Spec => []TypeOK
<1>1. AlarmInv => TypeOK
  BY DEF AlarmInv
<1> QED
  BY <1>1, SpecAlarmInv, PTL

\* The alarm is never muted for good: a timer that sets
\* send_switch_notification again runs whenever it is cleared, and only one.
THEOREM SpecMutedByOneTimer == Spec => []MutedByOneTimer
<1>1. ASSUME AlarmInv PROVE MutedByOneTimer
  <2>1. mute \in Seq(Timer) /\ send_switch_notification \in BOOLEAN
    BY <1>1 DEF AlarmInv, TypeOK
  <2>2. CASE mute = <<>> /\ send_switch_notification
    BY <2>2 DEF MutedByOneTimer
  <2>3. CASE Len(mute) = 1 /\ ~send_switch_notification
    <3>1. mute # <<>> /\ Len(mute) <= 1
      BY <2>1, <2>3
    <3> QED
      BY <2>3, <3>1 DEF MutedByOneTimer
  <2> QED
    BY <1>1, <2>2, <2>3 DEF AlarmInv, Muted
<1> QED
  BY <1>1, SpecAlarmInv, PTL

\* A check can find a shortage muted only when it is due together with the
\* mute timer, so not twice in a row.
THEOREM SpecShortageReported == Spec => []ShortageReported
<1>1. AlarmInv => ShortageReported
  BY DEF AlarmInv, InStep, ShortageReported
<1> QED
  BY <1>1, SpecAlarmInv, PTL

\* Reconfiguring the check timer, however often, brings no two alarms closer
\* together than the interval the first one was sent under.
THEOREM SpecAlarmsSpaced == Spec => AlarmsSpaced
<1>1. ASSUME AlarmInv, [Next]_vars
      PROVE  [last'.op = "check" /\ last'.alarm => since >= spacing]_vars
  <2> SUFFICES ASSUME Next, last'.op = "check", last'.alarm
               PROVE  since >= spacing
    BY <1>1
  <2>1. ~Tick
    BY DEF Tick, Idle
  <2>2. \A i \in DOMAIN mute : ~NotifyTimer(i)
    BY DEF NotifyTimer, Idle
  <2>3. \A p \in Intervals : ~ConfigureTcamTimer(p)
    BY DEF ConfigureTcamTimer, Idle
  <2>4. \A l \in Limits : ~FpEntryThreshold(l)
    BY DEF FpEntryThreshold, Idle
  <2>5. StatusCheck
    BY <2>1, <2>2, <2>3, <2>4 DEF Next
  <2>6. send_switch_notification
    BY <1>1, <2>5, CheckEffect DEF AlarmInv
  <2>7. mute = <<>>
    BY <1>1, <2>6 DEF AlarmInv, Muted
  <2> QED
    BY <1>1, <2>7 DEF AlarmInv, Apart
<1> QED
  BY <1>1, SpecAlarmInv, PTL DEF Spec, AlarmsSpaced
=============================================================================
