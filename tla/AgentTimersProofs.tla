------------------------- MODULE AgentTimersProofs -------------------------
(***************************************************************************)
(* Theorems about AgentTimers.tla, for every set of handles, ids,          *)
(* poll-times and stray delays and every bound on the timer ids.           *)
(*                                                                         *)
(* A handler works on an intermediate pair s = [held, z] (Release, Enter), *)
(* so the inductive invariant is stated over such a pair and a table:      *)
(* agents A, their poll-times pt and ids mi.  Two lemmas carry it, one     *)
(* through Release and one through Enter; the actions only combine them.   *)
(***************************************************************************)
EXTENDS AgentTimers, TLAPS

TableType(A, pt, mi) ==
  /\ A \subseteq Handle
  /\ pt \in [Handle -> PollTime \cup {0}]
  /\ mi \in [Handle -> MonId \cup {0}]

PairType == [held : [Handle -> Nat], z : [last : Nat, timers : SUBSET Timer]]

\* Ids are handed out in order and each names one timer.
FreshIds(A, s) ==
  /\ \A a \in A : s.held[a] <= s.z.last
  /\ \A t \in s.z.timers : t.id <= s.z.last
  /\ \A t, u \in s.z.timers : t.id = u.id => t = u

OneHolder(A, pt, s) ==
  \A a, b \in A : pt[a] = pt[b] /\ s.held[a] # 0 /\ s.held[b] # 0 => a = b

HeldRun(A, mi, s) ==
  \A a \in A : s.held[a] # 0 =>
    /\ \E t \in s.z.timers : t.id = s.held[a] /\ t.mon_id = mi[a]
    /\ \A b \in A : s.held[b] = s.held[a] => b = a

Coherent(A, pt, mi, s) ==
  FreshIds(A, s) /\ OneHolder(A, pt, s) /\ HeldRun(A, mi, s)

\* Objects outside the table are zeroed.
FreeIsZero == \A h \in Handle \ agent_hmap : timer_id[h] = 0

IInv ==
  /\ TypeOK
  /\ FreeIsZero
  /\ Coherent(agent_hmap, poll_time, mon_id, Now)

-----------------------------------------------------------------------------
\* Starting a timer for an agent without one, in a group without one, keeps
\* the table coherent.
LEMMA StartCoherent ==
  ASSUME NEW A, NEW pt, NEW mi, TableType(A, pt, mi),
         NEW s \in PairType, NEW h \in A, NEW delay \in Nat,
         s.held[h] = 0,
         Coherent(A, pt, mi, s),
         \A a \in A : pt[a] = pt[h] => s.held[a] = 0
  PROVE  /\ Start(s, h, delay, mi[h]) \in PairType
         /\ Coherent(A, pt, mi, Start(s, h, delay, mi[h]))
  <1> DEFINE new == [id |-> s.z.last + 1, delay |-> delay, mon_id |-> mi[h]]
             n == Start(s, h, delay, mi[h])
  <1>1. s.z.last \in Nat /\ s.held \in [Handle -> Nat] /\ h \in Handle
        /\ s.z.timers \subseteq Timer
    BY DEF PairType, TableType
  <1>2. /\ new \in Timer
        /\ new.id = s.z.last + 1
        /\ new.mon_id = mi[h]
    BY <1>1 DEF Timer, TableType
  <1>3. /\ n.held = [s.held EXCEPT ![h] = s.z.last + 1]
        /\ n.z.last = s.z.last + 1
        /\ n.z.timers = s.z.timers \cup {new}
    BY DEF Start, ZloopTimer
  <1>4. n \in PairType
    BY <1>1, <1>2 DEF PairType, Start, ZloopTimer
  <1> HIDE DEF new, n
  <1>5. FreshIds(A, n)
    BY <1>1, <1>2, <1>3 DEF Coherent, FreshIds, TableType, Timer
  <1>6. OneHolder(A, pt, n)
    BY <1>1, <1>3 DEF Coherent, OneHolder, TableType
  <1>7. HeldRun(A, mi, n)
    <2> SUFFICES ASSUME NEW a \in A, n.held[a] # 0
                 PROVE  /\ \E t \in n.z.timers :
                             t.id = n.held[a] /\ t.mon_id = mi[a]
                        /\ \A b \in A : n.held[b] = n.held[a] => b = a
      BY DEF HeldRun
    <2>1. CASE a = h
      <3>1. n.held[a] = s.z.last + 1
        BY <1>1, <1>3, <2>1
      <3>2. \A b \in A : b # h => n.held[b] <= s.z.last
        BY <1>1, <1>3 DEF Coherent, FreshIds, TableType
      <3>3. \A b \in A : n.held[b] = n.held[a] => b = a
        BY <3>1, <3>2, <2>1, <1>1
      <3> QED BY <3>1, <3>3, <2>1, <1>2, <1>3
    <2>2. CASE a # h
      <3>1. n.held[a] = s.held[a] /\ s.held[a] <= s.z.last
        BY <1>1, <1>3, <2>2 DEF Coherent, FreshIds, TableType
      <3>2. \A b \in A : n.held[b] = n.held[a] => b = a
        BY <3>1, <2>2, <1>1, <1>3 DEF Coherent, HeldRun, TableType
      <3>3. \E t \in s.z.timers : t.id = s.held[a] /\ t.mon_id = mi[a]
        BY <3>1 DEF Coherent, HeldRun
      <3> QED BY <3>1, <3>2, <3>3, <1>3
    <2> QED BY <2>1, <2>2
  <1> QED BY <1>4, <1>5, <1>6, <1>7 DEF Coherent, n

\* Ending the timer of an agent and forgetting it keeps the table coherent.
LEMMA EndCoherent ==
  ASSUME NEW A, NEW pt, NEW mi, TableType(A, pt, mi),
         NEW s \in PairType, NEW h \in A,
         Coherent(A, pt, mi, s)
  PROVE  LET n == [held |-> [s.held EXCEPT ![h] = 0],
                   z    |-> ZloopTimerEnd(s.z, s.held[h])]
         IN  n \in PairType /\ Coherent(A, pt, mi, n)
  <1> DEFINE n == [held |-> [s.held EXCEPT ![h] = 0],
                   z    |-> ZloopTimerEnd(s.z, s.held[h])]
  <1>1. s.z.last \in Nat /\ s.held \in [Handle -> Nat] /\ h \in Handle
        /\ s.z.timers \subseteq Timer
    BY DEF PairType, TableType
  <1>2. /\ n.held = [s.held EXCEPT ![h] = 0]
        /\ n.z.last = s.z.last
        /\ n.z.timers = {t \in s.z.timers : t.id # s.held[h]}
    BY DEF ZloopTimerEnd
  <1>3. n \in PairType
    BY <1>1 DEF PairType, ZloopTimerEnd
  <1> HIDE DEF n
  <1>4. FreshIds(A, n)
    BY <1>1, <1>2 DEF Coherent, FreshIds, TableType
  <1>5. OneHolder(A, pt, n)
    BY <1>1, <1>2 DEF Coherent, OneHolder, TableType
  <1>6. HeldRun(A, mi, n)
    BY <1>1, <1>2 DEF Coherent, HeldRun, TableType
  <1>7. n \in PairType /\ Coherent(A, pt, mi, n)
    BY <1>3, <1>4, <1>5, <1>6 DEF Coherent
  <1> QED BY <1>7 DEF n

\* Only agents that own a timer constrain the table: one without a timer may
\* enter it, or change its poll-time and id.
LEMMA ChangeCoherent ==
  ASSUME NEW s \in PairType, NEW h \in Handle, s.held[h] = 0,
         NEW p \in PollTime \cup {0}, NEW i \in MonId \cup {0},
         TypeOK, Coherent(agent_hmap, poll_time, mon_id, s)
  PROVE  LET A  == agent_hmap \cup {h}
             pt == [poll_time EXCEPT ![h] = p]
             mi == [mon_id EXCEPT ![h] = i]
         IN  TableType(A, pt, mi) /\ Coherent(A, pt, mi, s)
  <1> DEFINE A  == agent_hmap \cup {h}
             pt == [poll_time EXCEPT ![h] = p]
             mi == [mon_id EXCEPT ![h] = i]
  <1>1. TableType(A, pt, mi)
    BY DEF TypeOK, TableType
  <1>2. /\ s.held \in [Handle -> Nat]
        /\ s.z.last \in Nat
        /\ \A a \in A : a # h => a \in agent_hmap
        /\ \A a \in A : a # h => pt[a] = poll_time[a] /\ mi[a] = mon_id[a]
    BY DEF PairType, TypeOK
  <1> HIDE DEF A, pt, mi
  <1>3. FreshIds(A, s)
    BY <1>2 DEF Coherent, FreshIds
  <1>4. OneHolder(A, pt, s)
    BY <1>2 DEF Coherent, OneHolder
  <1>5. HeldRun(A, mi, s)
    BY <1>2 DEF Coherent, HeldRun
  <1>6. TableType(A, pt, mi) /\ Coherent(A, pt, mi, s)
    BY <1>1, <1>3, <1>4, <1>5 DEF Coherent
  <1> QED BY <1>6 DEF A, pt, mi

\* An agent without a timer that enters the group p leaves the table coherent.
LEMMA EnterCoherent ==
  ASSUME NEW s \in PairType, NEW h \in Handle, s.held[h] = 0,
         NEW p \in PollTime \cup {0}, NEW i \in MonId \cup {0},
         NEW delay \in Nat,
         TypeOK, Coherent(agent_hmap, poll_time, mon_id, s)
  PROVE  LET A  == agent_hmap \cup {h}
             pt == [poll_time EXCEPT ![h] = p]
             mi == [mon_id EXCEPT ![h] = i]
             n  == Enter(s, h, i, p, delay)
         IN  n \in PairType /\ Coherent(A, pt, mi, n)
  <1> DEFINE A  == agent_hmap \cup {h}
             pt == [poll_time EXCEPT ![h] = p]
             mi == [mon_id EXCEPT ![h] = i]
             n  == Enter(s, h, i, p, delay)
  <1>1. TableType(A, pt, mi) /\ Coherent(A, pt, mi, s)
    BY ChangeCoherent
  <1>2. CASE TimerExists(s, p)
    BY <1>1, <1>2 DEF Enter
  <1>3. CASE ~ TimerExists(s, p)
    <2>1. n = Start(s, h, delay, i) /\ mi[h] = i /\ pt[h] = p /\ h \in A
      BY <1>3 DEF Enter, TypeOK
    <2>2. \A a \in A : pt[a] = pt[h] => s.held[a] = 0
      BY <1>3, <2>1 DEF TimerExists, Group, TypeOK
    <2> HIDE DEF A, pt, mi, n
    <2>3. n \in PairType /\ Coherent(A, pt, mi, n)
      BY <1>1, <2>1, <2>2, StartCoherent
    <2> QED BY <2>3 DEF A, pt, mi, n
  <1> QED BY <1>2, <1>3

\* An agent that releases its timer leaves the table coherent, the heir of
\* the timer included.
LEMMA ReleaseCoherent ==
  ASSUME IInv, NEW h \in agent_hmap, NEW s \in Release(h)
  PROVE  LET n == [s EXCEPT !.held[h] = 0]
         IN  /\ n \in PairType
             /\ n.held[h] = 0
             /\ \A x \in Handle \ agent_hmap : n.held[x] = 0
             /\ Coherent(agent_hmap, poll_time, mon_id, n)
  <1> DEFINE n == [s EXCEPT !.held[h] = 0]
             cleared == [held |-> [timer_id EXCEPT ![h] = 0],
                         z    |-> ZloopTimerEnd(zloop, timer_id[h])]
             ended == [held |-> timer_id, z |-> ZloopTimerEnd(zloop, timer_id[h])]
  <1>1. /\ Now \in PairType
        /\ Now.held = timer_id /\ Now.z = zloop
        /\ timer_id \in [Handle -> Nat] /\ h \in Handle
        /\ TableType(agent_hmap, poll_time, mon_id)
        /\ Coherent(agent_hmap, poll_time, mon_id, Now)
        /\ \A x \in Handle \ agent_hmap : timer_id[x] = 0
    BY DEF IInv, FreeIsZero, TypeOK, Now, PairType, TableType
  <1>2. /\ cleared \in PairType
        /\ Coherent(agent_hmap, poll_time, mon_id, cleared)
    BY <1>1, EndCoherent
  <1>3. CASE timer_id[h] = 0
    <2>1. s = Now
      BY <1>3 DEF Release
    <2>2. n = Now
      BY <1>1, <1>3, <2>1 DEF Now
    <2> HIDE DEF n
    <2>3. /\ n \in PairType
          /\ n.held[h] = 0
          /\ \A x \in Handle \ agent_hmap : n.held[x] = 0
          /\ Coherent(agent_hmap, poll_time, mon_id, n)
      BY <1>1, <1>3, <2>2
    <2> QED BY <2>3 DEF n
  <1>4. CASE timer_id[h] # 0 /\ Heirs(h) = {}
    <2>1. s = ended
      BY <1>4 DEF Release
    <2>2. n = cleared
      BY <1>1, <2>1 DEF Now
    <2> QED BY <1>1, <1>2, <2>2
  <1>5. CASE timer_id[h] # 0 /\ Heirs(h) # {}
    <2>1. PICK m \in Heirs(h) :
            s = Start(ended, m, poll_time[m], mon_id[m])
      BY <1>5 DEF Release
    <2>2. /\ m \in agent_hmap /\ m \in Handle /\ m # h
          /\ timer_id[m] = 0 /\ poll_time[m] = poll_time[h]
          /\ poll_time[m] \in Nat
      BY <1>5, ConstantsAssumption DEF Heirs, Group, IInv, TypeOK
    <2>3. n = Start(cleared, m, poll_time[m], mon_id[m])
      BY <1>1, <2>1, <2>2 DEF Start, Now
    <2>4. \A a \in agent_hmap : poll_time[a] = poll_time[m]
                                 => cleared.held[a] = 0
      BY <1>1, <1>5, <2>2 DEF Coherent, OneHolder, TableType
    <2>5. cleared.held[m] = 0
      BY <1>1, <2>2
    <2>6. n.held[h] = 0 /\ \A x \in Handle \ agent_hmap : n.held[x] = 0
      BY <1>1, <2>1, <2>2 DEF Start, Now
    <2> HIDE DEF n, cleared
    <2>7. n \in PairType /\ Coherent(agent_hmap, poll_time, mon_id, n)
      BY <1>1, <1>2, <2>2, <2>3, <2>4, <2>5, StartCoherent
    <2> QED BY <2>6, <2>7 DEF n
  <1> QED BY <1>3, <1>4, <1>5

\* Taking an agent out of a coherent table leaves it coherent.
LEMMA RemoveCoherent ==
  ASSUME NEW A, NEW pt, NEW mi, NEW s, Coherent(A, pt, mi, s),
         NEW B, B \subseteq A, NEW pt2, NEW mi2, NEW s2, s2.z = s.z,
         \A b \in B : /\ s2.held[b] = s.held[b]
                      /\ pt2[b] = pt[b]
                      /\ mi2[b] = mi[b]
  PROVE  Coherent(B, pt2, mi2, s2)
  <1>1. FreshIds(B, s2)
    BY DEF Coherent, FreshIds
  <1>2. OneHolder(B, pt2, s2)
    BY DEF Coherent, OneHolder
  <1>3. HeldRun(B, mi2, s2)
    BY DEF Coherent, HeldRun
  <1> QED BY <1>1, <1>2, <1>3 DEF Coherent
-----------------------------------------------------------------------------
LEMMA InitIInv == Init => IInv
  <1> SUFFICES ASSUME Init PROVE IInv
    OBVIOUS
  <1>1. TypeOK
    BY DEF Init, TypeOK
  <1>2. FreeIsZero
    BY DEF Init, FreeIsZero
  <1>3. Coherent(agent_hmap, poll_time, mon_id, Now)
    BY DEF Init, Coherent, FreshIds, OneHolder, HeldRun, Now
  <1> QED BY <1>1, <1>2, <1>3 DEF IInv

LEMMA RegisterStep ==
  ASSUME IInv, NEW h \in Handle, NEW i \in MonId \cup {0},
         NEW p \in PollTime \cup {0}, Register(h, i, p)
  PROVE  IInv'
  <1> DEFINE n == Enter(Now, h, i, p, p)
  <1>1. /\ Now \in PairType /\ Now.held[h] = 0 /\ p \in Nat
        /\ TypeOK /\ Coherent(agent_hmap, poll_time, mon_id, Now)
    BY ConstantsAssumption
    DEF IInv, TypeOK, FreeIsZero, Register, Now, PairType
  <1>2. /\ n \in PairType
        /\ Coherent(agent_hmap \cup {h}, [poll_time EXCEPT ![h] = p],
                    [mon_id EXCEPT ![h] = i], n)
    BY <1>1, EnterCoherent
  <1>3. timer_id' = n.held /\ zloop' = n.z
    BY DEF Register
  <1>4. TypeOK'
    BY <1>1, <1>2, <1>3 DEF Register, TypeOK, PairType
  <1>5. FreeIsZero'
    <2>1. \A x \in Handle \ {h} : n.held[x] = timer_id[x]
      BY <1>1 DEF Enter, Start, Now, TypeOK
    <2> QED BY <2>1, <1>3 DEF Register, FreeIsZero, IInv
  <1>6. n = Now'
    BY <1>2, <1>3 DEF Now, PairType
  <1>7. Coherent(agent_hmap, poll_time, mon_id, Now)'
    BY <1>2, <1>6 DEF Register
  <1> QED BY <1>4, <1>5, <1>7 DEF IInv

LEMMA StopStep ==
  ASSUME IInv, NEW i \in MonId, MonStop(i)
  PROVE  IInv'
  <1>0. PICK h \in Find(i) : \E s \in Release(h) :
          /\ Discard(h)
          /\ timer_id' = [s.held EXCEPT ![h] = 0]
          /\ zloop' = s.z
    BY DEF MonStop
  <1>1. PICK s \in Release(h) :
          /\ Discard(h)
          /\ timer_id' = [s.held EXCEPT ![h] = 0]
          /\ zloop' = s.z
    BY <1>0
  <1> DEFINE n == [s EXCEPT !.held[h] = 0]
  <1>2. h \in agent_hmap /\ h \in Handle
    BY DEF Find, IInv, TypeOK
  <1>3. /\ n \in PairType
        /\ \A x \in Handle \ agent_hmap : n.held[x] = 0
        /\ n.held[h] = 0
        /\ Coherent(agent_hmap, poll_time, mon_id, n)
    BY <1>2, ReleaseCoherent
  <1>4. n.held = timer_id' /\ n.z = zloop'
    BY <1>1, <1>3 DEF PairType
  <1>5. TypeOK'
    BY <1>1, <1>2, <1>3, <1>4 DEF IInv, TypeOK, Discard, MonStop, PairType
  <1>6. FreeIsZero'
    BY <1>1, <1>3, <1>4 DEF FreeIsZero, Discard
  <1>7. Coherent(agent_hmap, poll_time, mon_id, Now)'
    <2>1. Now'.z = n.z /\ Now'.held = n.held
      BY <1>4 DEF Now
    <2>2. \A b \in agent_hmap' : /\ b \in agent_hmap
                                /\ Now'.held[b] = n.held[b]
                                /\ poll_time'[b] = poll_time[b]
                                /\ mon_id'[b] = mon_id[b]
      BY <1>1, <1>2, <2>1 DEF Discard, IInv, TypeOK
    <2> HIDE DEF n
    <2> QED BY <1>3, <2>1, <2>2, RemoveCoherent
  <1> QED BY <1>5, <1>6, <1>7 DEF IInv

LEMMA ParamChangeStep ==
  ASSUME IInv, NEW i \in MonId, NEW p \in PollTime, MonParamChange(i, p)
  PROVE  IInv'
  <1>0. PICK h \in Find(i) : \E r \in Release(h) : \E delay \in StrayDelay :
          LET s == Enter([r EXCEPT !.held[h] = 0], h, i, p, delay)
          IN  /\ timer_id' = s.held
              /\ zloop' = s.z
              /\ poll_time' = [poll_time EXCEPT ![h] = p]
    BY DEF MonParamChange
  <1>1. PICK r \in Release(h), delay \in StrayDelay :
          LET s == Enter([r EXCEPT !.held[h] = 0], h, i, p, delay)
          IN  /\ timer_id' = s.held
              /\ zloop' = s.z
              /\ poll_time' = [poll_time EXCEPT ![h] = p]
    BY <1>0
  <1> DEFINE n == [r EXCEPT !.held[h] = 0]
             s == Enter(n, h, i, p, delay)
  <1>2. /\ h \in agent_hmap /\ h \in Handle /\ mon_id[h] = i
        /\ delay \in Nat /\ TypeOK
    BY ConstantsAssumption DEF Find, IInv, TypeOK
  <1>3. /\ n \in PairType /\ n.held[h] = 0
        /\ \A x \in Handle \ agent_hmap : n.held[x] = 0
        /\ Coherent(agent_hmap, poll_time, mon_id, n)
    BY <1>2, ReleaseCoherent
  <1> HIDE DEF n
  <1>4. /\ s \in PairType
        /\ Coherent(agent_hmap \cup {h}, [poll_time EXCEPT ![h] = p],
                    [mon_id EXCEPT ![h] = i], s)
    BY <1>2, <1>3, EnterCoherent
  <1>5. timer_id' = s.held /\ zloop' = s.z
    BY <1>1 DEF n
  <1>6. /\ agent_hmap' = agent_hmap \cup {h}
        /\ mon_id' = [mon_id EXCEPT ![h] = i]
        /\ poll_time' = [poll_time EXCEPT ![h] = p]
    BY <1>1, <1>2 DEF MonParamChange, TypeOK
  <1>7. \A x \in Handle \ {h} : s.held[x] = n.held[x]
    BY <1>3 DEF Enter, Start, PairType
  <1> HIDE DEF s
  <1>8. TypeOK'
    BY <1>2, <1>4, <1>5, <1>6 DEF MonParamChange, TypeOK, PairType
  <1>9. FreeIsZero'
    BY <1>2, <1>3, <1>5, <1>6, <1>7 DEF FreeIsZero
  <1>10. s = Now'
    BY <1>4, <1>5 DEF Now, PairType
  <1>11. Coherent(agent_hmap, poll_time, mon_id, Now)'
    BY <1>4, <1>6, <1>10
  <1> QED BY <1>8, <1>9, <1>11 DEF IInv

LEMMA InstallFailsStep ==
  ASSUME IInv, NEW t \in zloop.timers, PollInstallFails(t)
  PROVE  IInv'
  <1>0. PICK m \in Find(t.mon_id) : \E f \in Group(poll_time[m]) :
          /\ \E before \in SUBSET (Group(poll_time[m]) \ {f}) :
               polled' = before \cup {f}
          /\ Discard(f)
          /\ timer_id' = [timer_id EXCEPT ![f] = 0]
    BY DEF PollInstallFails
  <1>1. PICK f \in Group(poll_time[m]) :
          /\ \E before \in SUBSET (Group(poll_time[m]) \ {f}) :
               polled' = before \cup {f}
          /\ Discard(f)
          /\ timer_id' = [timer_id EXCEPT ![f] = 0]
    BY <1>0
  <1>2. f \in agent_hmap /\ f \in Handle
    BY DEF Group, IInv, TypeOK
  <1>3. TypeOK'
    BY <1>1, <1>2 DEF PollInstallFails, IInv, TypeOK, Discard, Group
  <1>4. FreeIsZero'
    BY <1>1, <1>2 DEF FreeIsZero, Discard, IInv, TypeOK
  <1>5. Coherent(agent_hmap, poll_time, mon_id, Now)'
    <2>1. Now'.z = Now.z
      BY DEF Now, PollInstallFails
    <2>2. \A b \in agent_hmap' : /\ b \in agent_hmap
                                /\ Now'.held[b] = Now.held[b]
                                /\ poll_time'[b] = poll_time[b]
                                /\ mon_id'[b] = mon_id[b]
      BY <1>1, <1>2 DEF Discard, IInv, TypeOK, Now
    <2> QED BY <2>1, <2>2, RemoveCoherent DEF IInv
  <1> QED BY <1>3, <1>4, <1>5 DEF IInv

\* Steps that at most skip a timer id leave agents and timers as they are.
LEMMA QuietStep ==
  ASSUME IInv, UNCHANGED <<agent_hmap, mon_id, poll_time, timer_id>>,
         zloop'.last \in Nat, zloop'.last >= zloop.last,
         zloop'.timers = zloop.timers,
         zloop' \in [last : Nat, timers : SUBSET Timer],
         polled' \subseteq Handle, up' \in BOOLEAN
  PROVE  IInv'
  <1>1. TypeOK' /\ FreeIsZero'
    BY DEF IInv, TypeOK, FreeIsZero
  <1>2. Coherent(agent_hmap, poll_time, mon_id, Now)'
    BY DEF IInv, TypeOK, Coherent, FreshIds, OneHolder, HeldRun, Now, Timer
  <1> QED BY <1>1, <1>2 DEF IInv

LEMMA NextIInv == IInv /\ [Next]_vars => IInv'
  <1> SUFFICES ASSUME IInv, [Next]_vars PROVE IInv'
    OBVIOUS
  <1> USE DEF agentVars
  <1>1. zloop.last \in Nat /\ zloop \in [last : Nat, timers : SUBSET Timer]
        /\ polled \subseteq Handle /\ up \in BOOLEAN
    BY DEF IInv, TypeOK
  <1>2. ASSUME NEW h \in Handle, NEW i \in MonId, NEW p \in PollTime,
               MonHello(h, i, p)
        PROVE  IInv'
    BY <1>2, RegisterStep DEF MonHello
  <1>3. ASSUME NEW h \in Handle, MonHelloNoFile(h) PROVE IInv'
    BY <1>3, RegisterStep DEF MonHelloNoFile
  <1>4. CASE MonHelloRefused
    BY <1>1, <1>4, QuietStep DEF MonHelloRefused
  <1>5. ASSUME NEW i \in MonId, MonUnknown(i) PROVE IInv'
    <2>1. up' \in BOOLEAN /\ polled' \subseteq Handle
      BY <1>5 DEF MonUnknown
    <2> QED BY <1>1, <1>5, <2>1, QuietStep DEF MonUnknown
  <1>6. CASE OtherHandler
    BY <1>1, <1>6, QuietStep DEF OtherHandler
  <1>7. ASSUME NEW t \in zloop.timers, PollNobody(t) PROVE IInv'
    BY <1>1, <1>7, QuietStep DEF PollNobody
  <1>8. ASSUME NEW t \in zloop.timers, PollGroup(t) PROVE IInv'
    <2>1. polled' \subseteq Handle /\ up' \in BOOLEAN
      BY <1>8 DEF PollGroup, Group, IInv, TypeOK
    <2> QED BY <1>1, <1>8, <2>1, QuietStep DEF PollGroup
  <1>9. CASE UNCHANGED vars
    BY <1>1, <1>9, QuietStep DEF vars
  <1> QED BY <1>2, <1>3, <1>4, <1>5, <1>6, <1>7, <1>8, <1>9,
             StopStep, ParamChangeStep, InstallFailsStep
          DEF Next, NetconfEvent, TimerEvent
-----------------------------------------------------------------------------
(***************************************************************************)
(* Safety of the table, whatever goes wrong.                               *)
(***************************************************************************)

LEMMA Inductive == Spec => []IInv
  BY InitIInv, NextIInv, PTL DEF Spec

\* Every variable of the daemon's table keeps its type.
THEOREM TypeCorrect == Spec => []TypeOK
  <1>1. IInv => TypeOK
    BY DEF IInv
  <1> QED BY <1>1, Inductive, PTL

\* No group ever has two holders, so none is polled at twice its rate by two
\* owned timers; this holds under all Faults.
THEOREM OneHolderTheorem == Spec => []OneTimerPerGroup
  <1>1. IInv => OneTimerPerGroup
    BY DEF IInv, Coherent, OneHolder, OneTimerPerGroup, Now
  <1> QED BY <1>1, Inductive, PTL

\* The timer_id in an agent is that of a running timer of its own, under all
\* Faults: MON_STOP never ends a timer that is not the agent's.
THEOREM HeldTimersTheorem == Spec => []HeldTimersRun
  <1>1. IInv => HeldTimersRun
    BY DEF IInv, Coherent, HeldRun, HeldTimersRun, Now
  <1> QED BY <1>1, Inductive, PTL
-----------------------------------------------------------------------------
(***************************************************************************)
(* Timers never outlive their owners unless an installation fails.         *)
(***************************************************************************)

Owned(A, s) == \A t \in s.z.timers : \E a \in A : s.held[a] = t.id

AllOwned == Owned(agent_hmap, Now)

OInv == IInv /\ AllOwned

LEMMA ReleaseOwned ==
  ASSUME OInv, NEW h \in agent_hmap, NEW s \in Release(h)
  PROVE  Owned(agent_hmap, [s EXCEPT !.held[h] = 0])
  <1>1. /\ timer_id \in [Handle -> Nat] /\ zloop.last \in Nat
        /\ zloop.timers \subseteq Timer /\ agent_hmap \subseteq Handle
        /\ \A a \in agent_hmap : timer_id[a] <= zloop.last
        /\ \A t \in zloop.timers : t.id # 0 /\ \E a \in agent_hmap : timer_id[a] = t.id
    BY DEF OInv, AllOwned, IInv, TypeOK, Owned, Now, Coherent, FreshIds, Timer
  <1> DEFINE n == [s EXCEPT !.held[h] = 0]
  <1>2. CASE timer_id[h] = 0
    <2>1. n.held = timer_id /\ n.z = zloop
      BY <1>1, <1>2 DEF Release, Now
    <2> HIDE DEF n
    <2>2. Owned(agent_hmap, n)
      BY <1>1, <2>1 DEF Owned
    <2> QED BY <2>2 DEF n
  <1>3. CASE timer_id[h] # 0 /\ Heirs(h) = {}
    <2>1. /\ n.held = [timer_id EXCEPT ![h] = 0]
          /\ n.z.timers = {t \in zloop.timers : t.id # timer_id[h]}
      BY <1>3 DEF Release, ZloopTimerEnd
    <2> HIDE DEF n
    <2>2. Owned(agent_hmap, n)
      BY <1>1, <2>1 DEF Owned
    <2> QED BY <2>2 DEF n
  <1>4. CASE timer_id[h] # 0 /\ Heirs(h) # {}
    <2> DEFINE ended == [held |-> timer_id, z |-> ZloopTimerEnd(zloop, timer_id[h])]
               new(m) == [id |-> zloop.last + 1, delay |-> poll_time[m],
                          mon_id |-> mon_id[m]]
    <2>1. PICK m \in Heirs(h) : s = Start(ended, m, poll_time[m], mon_id[m])
      BY <1>4 DEF Release
    <2>2. m \in agent_hmap /\ m \in Handle /\ m # h /\ timer_id[m] = 0 /\ h \in Handle
      BY <1>1, <1>4 DEF Heirs, Group
    <2>3. /\ n.held = [timer_id EXCEPT ![m] = zloop.last + 1, ![h] = 0]
          /\ n.z.timers = {t \in zloop.timers : t.id # timer_id[h]}
                          \cup {new(m)}
          /\ new(m).id = zloop.last + 1
      BY <2>1 DEF Start, ZloopTimer, ZloopTimerEnd
    <2> HIDE DEF n, new
    <2>4. Owned(agent_hmap, n)
      <3> SUFFICES ASSUME NEW t \in n.z.timers
                   PROVE  \E a \in agent_hmap : n.held[a] = t.id
        BY DEF Owned
      <3>1. CASE t.id = zloop.last + 1
        <4>1. n.held[m] = zloop.last + 1
          BY <1>1, <2>2, <2>3
        <4> QED BY <4>1, <3>1, <2>2
      <3>2. CASE t \in zloop.timers /\ t.id # timer_id[h]
        <4>1. PICK a \in agent_hmap : timer_id[a] = t.id
          BY <1>1, <3>2
        <4>2. a # h /\ a # m /\ a \in Handle
          BY <1>1, <2>2, <3>2, <4>1
        <4> QED BY <1>1, <2>2, <2>3, <4>1, <4>2
      <3> QED BY <2>3, <3>1, <3>2
    <2> QED BY <2>4 DEF n
  <1> QED BY <1>2, <1>3, <1>4

LEMMA EnterOwned ==
  ASSUME NEW s \in PairType, NEW h \in Handle, s.held[h] = 0,
         NEW p, NEW i, NEW delay,
         agent_hmap \subseteq Handle, Owned(agent_hmap, s),
         \A t \in s.z.timers : t.id # 0
  PROVE  Owned(agent_hmap \cup {h}, Enter(s, h, i, p, delay))
  <1> DEFINE n == Enter(s, h, i, p, delay)
             new == [id |-> s.z.last + 1, delay |-> delay, mon_id |-> i]
  <1>1. CASE TimerExists(s, p)
    BY <1>1 DEF Enter, Owned
  <1>2. CASE ~ TimerExists(s, p)
    <2>1. /\ n.held = [s.held EXCEPT ![h] = s.z.last + 1]
          /\ n.z.timers = s.z.timers \cup {new}
          /\ new.id = s.z.last + 1
      BY <1>2 DEF Enter, Start, ZloopTimer
    <2>2. s.held \in [Handle -> Nat]
      BY DEF PairType
    <2> HIDE DEF n, new
    <2>3. Owned(agent_hmap \cup {h}, n)
      BY <2>1, <2>2 DEF Owned
    <2> QED BY <2>3 DEF n
  <1> QED BY <1>1, <1>2

LEMMA NextOInv == "install" \notin Faults => (OInv /\ [Next]_vars => OInv')
  <1> SUFFICES ASSUME "install" \notin Faults, OInv, [Next]_vars PROVE OInv'
    OBVIOUS
  <1>1. IInv'
    BY NextIInv DEF OInv
  <1>2. /\ \A h \in agent_hmap : h \in Handle
        /\ \A t \in zloop.timers : t.id # 0
        /\ Owned(agent_hmap, Now) /\ Now \in PairType
        /\ TypeOK /\ FreeIsZero
    BY DEF OInv, AllOwned, IInv, TypeOK, Timer, Now, PairType
  <1>3. ASSUME NEW h \in Handle, NEW i, NEW p, Register(h, i, p)
        PROVE  AllOwned'
    <2>1. Now.held[h] = 0
      BY <1>2, <1>3 DEF Register, FreeIsZero, Now
    <2>2. Owned(agent_hmap \cup {h}, Enter(Now, h, i, p, p))
      BY <1>2, <2>1, EnterOwned DEF Now
    <2> QED BY <1>3, <2>2 DEF Register, AllOwned, Owned, Now
  <1>4. ASSUME NEW i \in MonId, MonStop(i) PROVE AllOwned'
    <2>1. PICK h \in Find(i) : \E s \in Release(h) :
            /\ Discard(h)
            /\ timer_id' = [s.held EXCEPT ![h] = 0]
            /\ zloop' = s.z
      BY <1>4 DEF MonStop
    <2>2. PICK s \in Release(h) :
            /\ Discard(h)
            /\ timer_id' = [s.held EXCEPT ![h] = 0]
            /\ zloop' = s.z
      BY <2>1
    <2> DEFINE n == [s EXCEPT !.held[h] = 0]
    <2>3. h \in agent_hmap
      BY DEF Find
    <2>4. Owned(agent_hmap, n)
      BY <2>3, ReleaseOwned
    <2>5. n \in PairType /\ n.held[h] = 0
      BY <2>3, ReleaseCoherent DEF OInv
    <2>6. n.held = timer_id' /\ n.z = zloop'
      BY <2>2, <2>5 DEF PairType
    <2>7. \A t \in zloop.timers' : t.id # 0
      BY <1>1 DEF IInv, TypeOK, Timer
    <2> HIDE DEF n
    <2> QED BY <2>2, <2>4, <2>5, <2>6, <2>7 DEF AllOwned, Owned, Discard, Now
  <1>5. ASSUME NEW i \in MonId, NEW p \in PollTime, MonParamChange(i, p)
        PROVE  AllOwned'
    <2>1. PICK h \in Find(i) : \E r \in Release(h) : \E delay \in StrayDelay :
            LET s == Enter([r EXCEPT !.held[h] = 0], h, i, p, delay)
            IN  timer_id' = s.held /\ zloop' = s.z
      BY <1>5 DEF MonParamChange
    <2>2. PICK r \in Release(h), delay \in StrayDelay :
            LET s == Enter([r EXCEPT !.held[h] = 0], h, i, p, delay)
            IN  timer_id' = s.held /\ zloop' = s.z
      BY <2>1
    <2> DEFINE n == [r EXCEPT !.held[h] = 0]
               s == Enter(n, h, i, p, delay)
    <2>3. h \in agent_hmap /\ h \in Handle
      BY <1>2 DEF Find
    <2>4. Owned(agent_hmap, n)
      BY <2>3, ReleaseOwned
    <2>5. n \in PairType /\ n.held[h] = 0
      BY <2>3, ReleaseCoherent DEF OInv
    <2>6. \A t \in n.z.timers : t.id # 0
      BY <2>5 DEF PairType, Timer
    <2> HIDE DEF n
    <2>7. Owned(agent_hmap \cup {h}, s)
      BY <1>2, <2>3, <2>4, <2>5, <2>6, EnterOwned
    <2>8. timer_id' = s.held /\ zloop' = s.z
      BY <2>2 DEF n
    <2> HIDE DEF s
    <2> QED BY <1>5, <2>3, <2>7, <2>8 DEF AllOwned, Owned, Now, MonParamChange
  <1>6. ASSUME agent_hmap' = agent_hmap, timer_id' = timer_id,
               zloop'.timers = zloop.timers
        PROVE  AllOwned'
    <2>1. \A t \in zloop.timers : \E a \in agent_hmap : timer_id[a] = t.id
      BY <1>2 DEF Owned, Now
    <2> QED BY <2>1, <1>6 DEF AllOwned, Owned, Now
  <1>7. ASSUME OtherHandler PROVE AllOwned'
    <2>1. zloop'.timers = zloop.timers
      BY <1>7, <1>2 DEF OtherHandler, TypeOK
    <2>2. agent_hmap' = agent_hmap /\ timer_id' = timer_id
      BY <1>7 DEF OtherHandler, agentVars
    <2> QED BY <1>6, <2>1, <2>2
  <1>8. ASSUME \/ UNCHANGED vars
               \/ MonHelloRefused
               \/ \E i \in MonId : MonUnknown(i)
               \/ \E t \in zloop.timers : PollNobody(t) \/ PollGroup(t)
        PROVE  AllOwned'
    <2>1. /\ agent_hmap' = agent_hmap /\ timer_id' = timer_id
          /\ zloop'.timers = zloop.timers
      BY <1>8 DEF MonHelloRefused, MonUnknown, PollNobody, PollGroup, vars,
                  agentVars
    <2> QED BY <1>6, <2>1
  <1>9. AllOwned'
    BY <1>3, <1>4, <1>5, <1>7, <1>8
    DEF Next, NetconfEvent, TimerEvent, MonHello, MonHelloNoFile,
        PollInstallFails
  <1> QED BY <1>1, <1>9 DEF OInv

\* As long as no installation fails, MON_STOP can cancel every timer that
\* runs: each is owned by a registered agent.
THEOREM TimersHeldTheorem == "install" \notin Faults => (Spec => []TimersHeld)
  <1> SUFFICES ASSUME "install" \notin Faults PROVE Spec => []TimersHeld
    OBVIOUS
  <1>1. Init => OInv
    BY InitIInv DEF OInv, AllOwned, Owned, Init, Now
  <1>2. OInv /\ [Next]_vars => OInv'
    BY NextOInv
  <1>3. OInv => TimersHeld
    BY DEF OInv, AllOwned, Owned, Now, TimersHeld
  <1> QED BY <1>1, <1>2, <1>3, PTL DEF Spec
-----------------------------------------------------------------------------
(***************************************************************************)
(* Every group is polled, by one timer, unless an installation fails or    *)
(* an id is used twice.                                                    *)
(***************************************************************************)

Dependable == "install" \notin Faults /\ "duplicate" \notin Faults

\* Apart from h, every agent shares its poll-time with a holder.
ServedBut(h, pt, s) ==
  \A a \in agent_hmap \ {h} :
    \E g \in agent_hmap \ {h} : pt[g] = pt[a] /\ s.held[g] # 0

AllServed ==
  \A a \in agent_hmap :
    \E g \in agent_hmap : poll_time[g] = poll_time[a] /\ timer_id[g] # 0

UniqueIds ==
  \A a, b \in agent_hmap : mon_id[a] = mon_id[b] /\ mon_id[a] # 0 => a = b

\* Only an object that no file filled in has id 0 or poll-time 0.
FilledIn == \A a \in agent_hmap : mon_id[a] = 0 <=> poll_time[a] = 0

SInv == OInv /\ AllServed /\ UniqueIds /\ FilledIn

\* A hand-over leaves no other agent without a holder: since ids are unique,
\* every agent of the group is a possible heir.
LEMMA ReleaseServed ==
  ASSUME SInv, NEW h \in agent_hmap, mon_id[h] # 0, NEW s \in Release(h)
  PROVE  ServedBut(h, poll_time, [s EXCEPT !.held[h] = 0])
  <1>1. /\ timer_id \in [Handle -> Nat] /\ zloop.last \in Nat
        /\ agent_hmap \subseteq Handle /\ AllServed /\ UniqueIds
        /\ OneHolder(agent_hmap, poll_time, Now)
    BY DEF SInv, OInv, IInv, TypeOK, Coherent
  <1>2. \A a, b \in agent_hmap :
          poll_time[a] = poll_time[b] /\ timer_id[a] # 0 /\ timer_id[b] # 0
            => a = b
    BY <1>1 DEF OneHolder, Now
  <1> DEFINE n == [s EXCEPT !.held[h] = 0]
  <1>3. CASE timer_id[h] = 0
    <2>1. n.held = timer_id
      BY <1>1, <1>3 DEF Release, Now
    <2> HIDE DEF n
    <2>2. ServedBut(h, poll_time, n)
      BY <1>1, <1>3, <2>1 DEF ServedBut, AllServed
    <2> QED BY <2>2 DEF n
  <1>4. CASE timer_id[h] # 0 /\ Heirs(h) = {}
    <2>1. n.held = [timer_id EXCEPT ![h] = 0]
      BY <1>4 DEF Release
    <2> HIDE DEF n
    <2>2. \A a \in agent_hmap \ {h} : poll_time[a] # poll_time[h]
      BY <1>1, <1>2, <1>4 DEF Heirs, Group, UniqueIds
    <2>3. ServedBut(h, poll_time, n)
      BY <1>1, <2>1, <2>2 DEF ServedBut, AllServed
    <2> QED BY <2>3 DEF n
  <1>5. CASE timer_id[h] # 0 /\ Heirs(h) # {}
    <2> DEFINE ended == [held |-> timer_id, z |-> ZloopTimerEnd(zloop, timer_id[h])]
    <2>1. PICK m \in Heirs(h) : s = Start(ended, m, poll_time[m], mon_id[m])
      BY <1>5 DEF Release
    <2>2. /\ m \in agent_hmap /\ m \in Handle /\ m # h
          /\ timer_id[m] = 0 /\ poll_time[m] = poll_time[h]
      BY <1>1, <1>5 DEF Heirs, Group
    <2>3. n.held = [timer_id EXCEPT ![m] = zloop.last + 1, ![h] = 0]
      BY <2>1 DEF Start, ZloopTimer, ZloopTimerEnd
    <2> HIDE DEF n
    <2>4. n.held[m] # 0
      BY <1>1, <2>2, <2>3
    <2>5. ASSUME NEW a \in agent_hmap \ {h}
          PROVE  \E g \in agent_hmap \ {h} :
                   poll_time[g] = poll_time[a] /\ n.held[g] # 0
      <3>1. CASE poll_time[a] = poll_time[h]
        BY <2>2, <2>4, <3>1
      <3>2. CASE poll_time[a] # poll_time[h]
        <4>1. PICK g \in agent_hmap : poll_time[g] = poll_time[a] /\ timer_id[g] # 0
          BY <1>1 DEF AllServed
        <4>2. g # h /\ g # m /\ g \in Handle
          BY <1>1, <2>2, <3>2, <4>1
        <4>3. n.held[g] = timer_id[g]
          BY <1>1, <2>3, <4>2
        <4> QED BY <4>1, <4>2, <4>3
      <3> QED BY <3>1, <3>2
    <2>6. ServedBut(h, poll_time, n)
      BY <2>5 DEF ServedBut
    <2> QED BY <2>6 DEF n
  <1> QED BY <1>3, <1>4, <1>5

\* Once the others are served, the agent that enters a group is served too.
LEMMA EnterServed ==
  ASSUME NEW s \in PairType, NEW h \in Handle, s.held[h] = 0,
         NEW p, NEW i, NEW delay, TypeOK,
         ServedBut(h, poll_time, s)
  PROVE  LET n  == Enter(s, h, i, p, delay)
             pt == [poll_time EXCEPT ![h] = p]
             A  == agent_hmap \cup {h}
         IN  \A a \in A : \E g \in A : pt[g] = pt[a] /\ n.held[g] # 0
  <1> DEFINE n  == Enter(s, h, i, p, delay)
             pt == [poll_time EXCEPT ![h] = p]
             A  == agent_hmap \cup {h}
  <1>1. /\ s.held \in [Handle -> Nat] /\ s.z.last \in Nat
        /\ agent_hmap \subseteq Handle
        /\ \A a \in A : a # h => pt[a] = poll_time[a] /\ a \in agent_hmap
        /\ pt[h] = p
    BY DEF PairType, TypeOK
  <1>2. \A g \in agent_hmap : s.held[g] # 0 => n.held[g] = s.held[g]
    BY <1>1 DEF Enter, Start
  <1>3. \E g \in A : pt[g] = p /\ n.held[g] # 0
    <2>1. CASE TimerExists(s, p)
      <3>1. PICK g \in agent_hmap : poll_time[g] = p /\ s.held[g] # 0
        BY <2>1 DEF TimerExists, Group
      <3> QED BY <1>1, <1>2, <3>1
    <2>2. CASE ~ TimerExists(s, p)
      <3>1. n.held[h] = s.z.last + 1 /\ h \in A
        BY <1>1, <2>2 DEF Enter, Start
      <3>2. n.held[h] # 0
        BY <1>1, <3>1
      <3> QED BY <1>1, <3>1, <3>2
    <2> QED BY <2>1, <2>2
  <1> HIDE DEF n, pt
  <1>4. \A a \in A : \E g \in A : pt[g] = pt[a] /\ n.held[g] # 0
    <2> SUFFICES ASSUME NEW a \in A PROVE \E g \in A : pt[g] = pt[a] /\ n.held[g] # 0
      OBVIOUS
    <2>1. CASE a = h
      BY <1>1, <1>3, <2>1
    <2>2. CASE a # h
      <3>1. PICK g \in agent_hmap \ {h} : poll_time[g] = poll_time[a] /\ s.held[g] # 0
        BY <1>1, <2>2 DEF ServedBut
      <3> QED BY <1>1, <1>2, <2>2, <3>1
    <2> QED BY <2>1, <2>2
  <1> QED BY <1>4 DEF n, pt

ServedInv == AllServed /\ UniqueIds /\ FilledIn

LEMMA SameTableServed ==
  ASSUME ServedInv, agent_hmap' = agent_hmap, mon_id' = mon_id,
         poll_time' = poll_time, timer_id' = timer_id
  PROVE  ServedInv'
  BY DEF ServedInv, AllServed, UniqueIds, FilledIn

LEMMA RegisterServed ==
  ASSUME SInv, NEW h \in Handle, NEW i \in MonId \cup {0},
         NEW p \in PollTime \cup {0}, i = 0 <=> p = 0,
         i # 0 => Find(i) = {}, Register(h, i, p)
  PROVE  ServedInv'
  <1>1. /\ TypeOK /\ Now \in PairType /\ Now.held = timer_id
        /\ h \notin agent_hmap /\ timer_id[h] = 0
        /\ UniqueIds /\ FilledIn /\ AllServed
    BY DEF SInv, OInv, IInv, TypeOK, FreeIsZero, Register, Now, PairType
  <1>2. ServedBut(h, poll_time, Now)
    BY <1>1 DEF ServedBut, AllServed
  <1>3. AllServed'
    <2>1. /\ agent_hmap' = agent_hmap \cup {h}
          /\ poll_time' = [poll_time EXCEPT ![h] = p]
          /\ timer_id' = Enter(Now, h, i, p, p).held
      BY DEF Register
    <2>2. \A a \in agent_hmap' : \E g \in agent_hmap' :
            poll_time'[g] = poll_time'[a] /\ timer_id'[g] # 0
      BY <1>1, <1>2, <2>1, EnterServed
    <2> QED BY <2>2 DEF AllServed
  <1>4. /\ \A a \in agent_hmap' \ {h} :
             /\ a \in agent_hmap
             /\ mon_id'[a] = mon_id[a] /\ poll_time'[a] = poll_time[a]
        /\ mon_id'[h] = i /\ poll_time'[h] = p
    BY <1>1 DEF Register, TypeOK
  <1>5. UniqueIds'
    BY <1>1, <1>4 DEF UniqueIds, Find
  <1>6. FilledIn'
    BY <1>1, <1>4 DEF FilledIn
  <1> QED BY <1>3, <1>5, <1>6 DEF ServedInv

LEMMA StopServed ==
  ASSUME SInv, NEW i \in MonId, MonStop(i)
  PROVE  ServedInv'
  <1>1. PICK h \in Find(i) : \E s \in Release(h) :
          Discard(h) /\ timer_id' = [s.held EXCEPT ![h] = 0]
    BY DEF MonStop
  <1>2. PICK s \in Release(h) :
          Discard(h) /\ timer_id' = [s.held EXCEPT ![h] = 0]
    BY <1>1
  <1> DEFINE n == [s EXCEPT !.held[h] = 0]
  <1>3. /\ h \in agent_hmap /\ h \in Handle /\ mon_id[h] # 0
        /\ TypeOK /\ UniqueIds /\ FilledIn
    BY ConstantsAssumption DEF Find, SInv, OInv, IInv, TypeOK
  <1>4. ServedBut(h, poll_time, n)
    BY <1>3, ReleaseServed
  <1>5. n.held = timer_id'
    BY <1>2
  <1> HIDE DEF n
  <1>6. \A a \in agent_hmap' :
          /\ a \in agent_hmap \ {h}
          /\ mon_id'[a] = mon_id[a] /\ poll_time'[a] = poll_time[a]
    BY <1>2, <1>3 DEF Discard, TypeOK
  <1>7. \A a \in agent_hmap \ {h} : a \in agent_hmap'
    BY <1>2 DEF Discard
  <1>8. AllServed'
    BY <1>4, <1>5, <1>6, <1>7 DEF AllServed, ServedBut
  <1>9. UniqueIds' /\ FilledIn'
    BY <1>3, <1>6 DEF UniqueIds, FilledIn
  <1> QED BY <1>8, <1>9 DEF ServedInv

LEMMA ParamChangeServed ==
  ASSUME SInv, NEW i \in MonId, NEW p \in PollTime, MonParamChange(i, p)
  PROVE  ServedInv'
  <1>1. PICK h \in Find(i) : \E r \in Release(h) : \E delay \in StrayDelay :
          /\ timer_id' = Enter([r EXCEPT !.held[h] = 0], h, i, p, delay).held
          /\ poll_time' = [poll_time EXCEPT ![h] = p]
    BY DEF MonParamChange
  <1>2. PICK r \in Release(h), delay \in StrayDelay :
          /\ timer_id' = Enter([r EXCEPT !.held[h] = 0], h, i, p, delay).held
          /\ poll_time' = [poll_time EXCEPT ![h] = p]
    BY <1>1
  <1> DEFINE n == [r EXCEPT !.held[h] = 0]
  <1>3. /\ h \in agent_hmap /\ h \in Handle /\ mon_id[h] = i /\ i # 0 /\ p # 0
        /\ TypeOK /\ UniqueIds /\ FilledIn /\ IInv
    BY ConstantsAssumption DEF Find, SInv, OInv, IInv, TypeOK
  <1>4. ServedBut(h, poll_time, n)
    BY <1>3, ReleaseServed
  <1>5. n \in PairType /\ n.held[h] = 0
    BY <1>3, ReleaseCoherent
  <1>6. timer_id' = Enter(n, h, i, p, delay).held
    BY <1>2
  <1> HIDE DEF n
  <1>7. /\ agent_hmap' = agent_hmap \cup {h} /\ mon_id' = mon_id
        /\ poll_time' = [poll_time EXCEPT ![h] = p]
    BY <1>2, <1>3 DEF MonParamChange
  <1>8. AllServed'
    <2>1. \A a \in agent_hmap' : \E g \in agent_hmap' :
            poll_time'[g] = poll_time'[a] /\ timer_id'[g] # 0
      BY <1>3, <1>4, <1>5, <1>6, <1>7, EnterServed
    <2> QED BY <2>1 DEF AllServed
  <1>9. UniqueIds'
    BY <1>3, <1>7 DEF UniqueIds
  <1>10. FilledIn'
    BY <1>3, <1>7 DEF FilledIn, TypeOK
  <1> QED BY <1>8, <1>9, <1>10 DEF ServedInv

LEMMA NextSInv == Dependable => (SInv /\ [Next]_vars => SInv')
  <1> SUFFICES ASSUME Dependable, SInv, [Next]_vars PROVE SInv'
    OBVIOUS
  <1>1. OInv'
    BY NextOInv DEF SInv, Dependable
  <1>2. /\ 0 \notin MonId /\ 0 \notin PollTime
        /\ "install" \notin Faults /\ "duplicate" \notin Faults
    BY ConstantsAssumption DEF Dependable
  <1>3. ASSUME NEW h \in Handle, NEW i \in MonId, NEW p \in PollTime,
               MonHello(h, i, p)
        PROVE  ServedInv'
    BY <1>2, <1>3, RegisterServed DEF MonHello
  <1>4. ASSUME NEW h \in Handle, MonHelloNoFile(h) PROVE ServedInv'
    BY <1>2, <1>4, RegisterServed DEF MonHelloNoFile
  <1>5. ASSUME \/ UNCHANGED vars
               \/ MonHelloRefused
               \/ OtherHandler
               \/ \E i \in MonId : MonUnknown(i)
               \/ \E t \in zloop.timers : PollNobody(t) \/ PollGroup(t)
        PROVE  ServedInv'
    <2>1. /\ agent_hmap' = agent_hmap /\ timer_id' = timer_id
          /\ mon_id' = mon_id /\ poll_time' = poll_time
      BY <1>5 DEF MonHelloRefused, OtherHandler, MonUnknown, PollNobody,
                  PollGroup, vars, agentVars
    <2>2. ServedInv
      BY DEF SInv, ServedInv
    <2> QED BY <2>1, <2>2, SameTableServed
  <1>6. ServedInv'
    BY <1>2, <1>3, <1>4, <1>5, StopServed, ParamChangeServed
    DEF Next, NetconfEvent, TimerEvent, PollInstallFails
  <1> QED BY <1>1, <1>6 DEF SInv, ServedInv

LEMMA InductiveServed == Dependable => (Spec => []SInv)
  <1> SUFFICES ASSUME Dependable PROVE Spec => []SInv
    OBVIOUS
  <1>1. Init => SInv
    BY InitIInv DEF SInv, OInv, AllOwned, Owned, AllServed, UniqueIds,
                    FilledIn, Init, Now
  <1>2. SInv /\ [Next]_vars => SInv'
    BY NextSInv
  <1> QED BY <1>1, <1>2, PTL DEF Spec

\* The group a running timer leads to is that of its owner.
LEMMA TimerLeadsHome ==
  ASSUME SInv, NEW t \in zloop.timers, NEW g \in agent_hmap, timer_id[g] = t.id
  PROVE  /\ t.mon_id = mon_id[g]
         /\ g \in Find(t.mon_id)
         /\ Find(t.mon_id) \subseteq Group(poll_time[g])
  <1>1. /\ t.id # 0 /\ UniqueIds /\ FilledIn
        /\ \A u, v \in zloop.timers : u.id = v.id => u = v
        /\ \E u \in zloop.timers : u.id = timer_id[g] /\ u.mon_id = mon_id[g]
    BY DEF SInv, OInv, IInv, TypeOK, Timer, Coherent, HeldRun, FreshIds, Now
  <1>2. t.mon_id = mon_id[g]
    BY <1>1
  <1>3. \A m \in agent_hmap : mon_id[m] = mon_id[g] => poll_time[m] = poll_time[g]
    BY <1>1 DEF UniqueIds, FilledIn
  <1> QED BY <1>2, <1>3 DEF Find, Group

\* Every registered agent is polled by a timer of its group, whatever order
\* of MON_HELLO, MON_STOP and MON_PARAM_CHANGE led here.
THEOREM GroupServedTheorem == Dependable => (Spec => []GroupServed)
  <1>1. ASSUME SInv PROVE GroupServed
    <2> SUFFICES ASSUME NEW a \in agent_hmap
                 PROVE  \E t \in zloop.timers :
                          /\ \E g \in Group(poll_time[a]) : timer_id[g] = t.id
                          /\ Find(t.mon_id) # {}
                          /\ Find(t.mon_id) \subseteq Group(poll_time[a])
      BY DEF GroupServed
    <2>1. PICK g \in agent_hmap : poll_time[g] = poll_time[a] /\ timer_id[g] # 0
      BY <1>1 DEF SInv, AllServed
    <2>2. PICK t \in zloop.timers : timer_id[g] = t.id
      BY <1>1, <2>1 DEF SInv, OInv, IInv, Coherent, HeldRun, Now
    <2>3. g \in Find(t.mon_id) /\ Find(t.mon_id) \subseteq Group(poll_time[g])
      BY <1>1, <2>2, TimerLeadsHome
    <2> QED BY <2>1, <2>2, <2>3 DEF Group
  <1> QED BY <1>1, InductiveServed, PTL

\* No group is polled by two timers.
THEOREM OneTimerPollsTheorem == Dependable => (Spec => []OneTimerPolls)
  <1>1. ASSUME SInv PROVE OneTimerPolls
    <2> SUFFICES ASSUME NEW t \in zloop.timers, NEW u \in zloop.timers,
                        NEW m \in Find(t.mon_id), NEW n \in Find(u.mon_id),
                        poll_time[m] = poll_time[n]
                 PROVE  t = u
      BY DEF OneTimerPolls
    <2>1. PICK a \in agent_hmap : timer_id[a] = t.id
      BY <1>1 DEF SInv, OInv, AllOwned, Owned, Now
    <2>2. PICK b \in agent_hmap : timer_id[b] = u.id
      BY <1>1 DEF SInv, OInv, AllOwned, Owned, Now
    <2>3. poll_time[a] = poll_time[m] /\ poll_time[b] = poll_time[n]
      BY <1>1, <2>1, <2>2, TimerLeadsHome DEF Group
    <2>4. t.id # 0 /\ u.id # 0
      BY <1>1 DEF SInv, OInv, IInv, TypeOK, Timer
    <2>5. a = b
      BY <1>1, <2>1, <2>2, <2>3, <2>4
      DEF SInv, OInv, IInv, Coherent, OneHolder, Now
    <2> QED BY <1>1, <2>1, <2>2, <2>5
            DEF SInv, OInv, IInv, Coherent, FreshIds, Now
  <1> QED BY <1>1, InductiveServed, PTL
-----------------------------------------------------------------------------
(***************************************************************************)
(* Without faults the daemon implements PollService.                       *)
(***************************************************************************)

RInv == SInv /\ \A a \in agent_hmap : poll_time[a] # 0

Groups == [p \in PollTime |-> Group(p)]

Clocked ==
  {p \in PollTime : \E t \in zloop.timers : Find(t.mon_id) \cap Group(p) # {}}

LEMMA NextRInv == Faults = {} => (RInv /\ [Next]_vars => RInv')
  <1> SUFFICES ASSUME Faults = {}, RInv, [Next]_vars PROVE RInv'
    OBVIOUS
  <1>1. SInv'
    BY NextSInv DEF RInv, Dependable
  <1>2. /\ 0 \notin PollTime /\ TypeOK
        /\ \A a \in agent_hmap : poll_time[a] # 0
    BY ConstantsAssumption DEF RInv, SInv, OInv, IInv
  <1> DEFINE Good == \A a \in agent_hmap' : poll_time'[a] # 0
  <1>3. ASSUME NEW h \in Handle, NEW i \in MonId, NEW p \in PollTime,
               MonHello(h, i, p)
        PROVE  Good
    BY <1>2, <1>3 DEF MonHello, Register, TypeOK
  <1>4. ASSUME NEW i \in MonId, MonStop(i) PROVE Good
    <2>1. PICK h \in Find(i) : Discard(h)
      BY <1>4 DEF MonStop
    <2> QED BY <1>2, <2>1 DEF Discard, TypeOK, Find
  <1>5. ASSUME NEW i \in MonId, NEW p \in PollTime, MonParamChange(i, p)
        PROVE  Good
    <2>1. PICK h \in Find(i) : poll_time' = [poll_time EXCEPT ![h] = p]
      BY <1>5 DEF MonParamChange
    <2> QED BY <1>2, <1>5, <2>1 DEF MonParamChange, TypeOK, Find
  <1>6. ASSUME \/ UNCHANGED vars
               \/ OtherHandler
               \/ \E t \in zloop.timers : PollNobody(t) \/ PollGroup(t)
        PROVE  Good
    <2>1. agent_hmap' = agent_hmap /\ poll_time' = poll_time
      BY <1>6 DEF OtherHandler, PollNobody, PollGroup, vars, agentVars
    <2> QED BY <1>2, <2>1
  <1>7. Good
    BY <1>3, <1>4, <1>5, <1>6
    DEF Next, NetconfEvent, TimerEvent, MonHelloNoFile, MonHelloRefused,
        MonUnknown, PollInstallFails
  <1> QED BY <1>1, <1>7 DEF RInv

\* A clock runs for exactly the poll-times that have an agent: hand-overs
\* neither lose nor leave behind a timer.
ClocksFit == Clocked = {p \in PollTime : Groups[p] # {}}

LEMMA ClockedIsUsed == RInv => ClocksFit
  <1> SUFFICES ASSUME RInv PROVE ClocksFit
    OBVIOUS
  <1>1. ASSUME NEW p \in PollTime, NEW a \in Group(p)
        PROVE  \E t \in zloop.timers : Find(t.mon_id) \cap Group(p) # {}
    <2>1. a \in agent_hmap /\ poll_time[a] = p
      BY DEF Group
    <2>2. PICK g \in agent_hmap : poll_time[g] = p /\ timer_id[g] # 0
      BY <2>1 DEF RInv, SInv, AllServed
    <2>3. PICK t \in zloop.timers : timer_id[g] = t.id
      BY <2>2 DEF RInv, SInv, OInv, IInv, Coherent, HeldRun, Now
    <2>4. g \in Find(t.mon_id)
      BY <2>3, TimerLeadsHome DEF RInv
    <2> QED BY <2>2, <2>4 DEF Group
  <1> QED BY <1>1 DEF ClocksFit, Clocked, Groups

LEMMA ClockedIsUsedNext == RInv' => ClocksFit'
  BY ClockedIsUsed, PTL

LEMMA RegroupStep ==
  ASSUME RInv', polled' = {}, NEW m, m = Groups'
  PROVE  Service!Regroup(m)
  <1>1. Clocked' = {p \in PollTime : Groups'[p] # {}}
    BY ClockedIsUsedNext DEF ClocksFit
  <1> QED BY <1>1 DEF Service!Regroup, Clocked, Groups

LEMMA HelloRefines ==
  ASSUME RInv, RInv', NEW h \in Handle, NEW i \in MonId, NEW p \in PollTime,
         Register(h, i, p)
  PROVE  Service!Join(h, p)
  <1> DEFINE m == [Groups EXCEPT ![p] = @ \cup {h}]
  <1>1. /\ h \notin agent_hmap /\ agent_hmap' = agent_hmap \cup {h}
        /\ poll_time' = [poll_time EXCEPT ![h] = p] /\ polled' = {}
        /\ poll_time \in [Handle -> PollTime \cup {0}]
        /\ agent_hmap \subseteq Handle
    BY DEF Register, RInv, SInv, OInv, IInv, TypeOK
  <1>2. h \notin Service!Members
    BY <1>1 DEF Service!Members, Group
  <1>3. m = Groups'
    <2>1. \A q \in PollTime : Group(q)' = IF q = p THEN Group(q) \cup {h} ELSE Group(q)
      BY <1>1 DEF Group
    <2> QED BY <2>1 DEF Groups
  <1>4. Service!Regroup(m)
    BY <1>1, <1>3, RegroupStep
  <1> QED BY <1>2, <1>4 DEF Service!Join, Groups

LEMMA StopRefines ==
  ASSUME RInv, RInv', NEW i \in MonId, MonStop(i)
  PROVE  \E h \in Handle : Service!Leave(h)
  <1>1. PICK h \in Find(i) : Discard(h)
    BY DEF MonStop
  <1> DEFINE m == [q \in PollTime |-> Groups[q] \ {h}]
  <1>2. /\ h \in agent_hmap /\ h \in Handle /\ polled' = {}
        /\ poll_time \in [Handle -> PollTime \cup {0}] /\ poll_time[h] \in PollTime
        /\ agent_hmap \subseteq Handle
    BY DEF Find, MonStop, RInv, SInv, OInv, IInv, TypeOK
  <1>3. h \in Service!Members
    BY <1>2 DEF Service!Members, Group
  <1>4. m = Groups'
    <2>1. \A q \in PollTime : Group(q)' = Group(q) \ {h}
      BY <1>1, <1>2 DEF Group, Discard
    <2> QED BY <2>1 DEF Groups
  <1>5. Service!Regroup(m)
    BY <1>2, <1>4, RegroupStep
  <1>6. Service!Leave(h)
    BY <1>3, <1>5 DEF Service!Leave, Groups
  <1> QED BY <1>2, <1>6

LEMMA ParamChangeRefines ==
  ASSUME RInv, RInv', NEW i \in MonId, NEW p \in PollTime, MonParamChange(i, p)
  PROVE  \E h \in Handle : Service!Move(h, p)
  <1>1. PICK h \in Find(i) : poll_time' = [poll_time EXCEPT ![h] = p]
    BY DEF MonParamChange
  <1> DEFINE m == [q \in PollTime |->
                    IF q = p THEN Groups[q] \cup {h} ELSE Groups[q] \ {h}]
  <1>2. /\ h \in agent_hmap /\ h \in Handle /\ polled' = {}
        /\ agent_hmap' = agent_hmap
        /\ poll_time \in [Handle -> PollTime \cup {0}] /\ poll_time[h] \in PollTime
        /\ agent_hmap \subseteq Handle
    BY DEF Find, MonParamChange, RInv, SInv, OInv, IInv, TypeOK
  <1>3. h \in Service!Members
    BY <1>2 DEF Service!Members, Group
  <1>4. m = Groups'
    <2>1. \A q \in PollTime :
            Group(q)' = IF q = p THEN Group(q) \cup {h} ELSE Group(q) \ {h}
      BY <1>1, <1>2 DEF Group
    <2> QED BY <2>1 DEF Groups
  <1>5. Service!Regroup(m)
    BY <1>2, <1>4, RegroupStep
  <1>6. Service!Move(h, p)
    BY <1>3, <1>5 DEF Service!Move, Groups
  <1> QED BY <1>2, <1>6

LEMMA PollRefines ==
  ASSUME RInv, NEW t \in zloop.timers, PollGroup(t)
  PROVE  \E p \in PollTime : Service!Strike(p)
  <1>1. PICK m \in Find(t.mon_id) :
          polled' = IF poll_time[m] = 0 THEN {} ELSE Group(poll_time[m])
    BY DEF PollGroup
  <1> DEFINE p == poll_time[m]
  <1>2. /\ m \in agent_hmap /\ p \in PollTime /\ p # 0
    BY DEF Find, RInv, SInv, OInv, IInv, TypeOK
  <1>3. m \in Group(p)
    BY <1>2 DEF Group
  <1>4. Service!Strike(p)
    BY <1>1, <1>2, <1>3
    DEF Service!Strike, PollGroup, Group, Find, agentVars
  <1> QED BY <1>2, <1>4

\* Without faults every behaviour of the daemon is one of the service: a
\* clock runs for exactly the poll-times in use and polls whole groups.
THEOREM ImplementsServiceSafely == Faults = {} => (Spec => Service!SafeSpec)
  <1> SUFFICES ASSUME Faults = {} PROVE Spec => Service!SafeSpec
    OBVIOUS
  <1>1. Init => RInv
    BY InitIInv DEF RInv, SInv, OInv, AllOwned, Owned, AllServed, UniqueIds,
                    FilledIn, Init, Now
  <1>2. RInv /\ [Next]_vars => RInv'
    BY NextRInv
  <1>3. Init => Service!Init
    BY DEF Init, Service!Init, Group
  <1>4. RInv /\ RInv' /\ [Next]_vars => [Service!Next]_Service!vars
    <2> SUFFICES ASSUME RInv, RInv', [Next]_vars
                 PROVE  Service!Next \/ UNCHANGED Service!vars
      OBVIOUS
    <2>1. ASSUME NEW h \in Handle, NEW i \in MonId, NEW p \in PollTime,
                 MonHello(h, i, p)
          PROVE  Service!Next
      BY <2>1, HelloRefines DEF MonHello, Service!Next
    <2>2. ASSUME NEW i \in MonId, MonStop(i) PROVE Service!Next
      BY <2>2, StopRefines DEF Service!Next
    <2>3. ASSUME NEW i \in MonId, NEW p \in PollTime, MonParamChange(i, p)
          PROVE  Service!Next
      BY <2>3, ParamChangeRefines DEF Service!Next
    <2>4. ASSUME NEW t \in zloop.timers, PollGroup(t) PROVE Service!Next
      BY <2>4, PollRefines DEF Service!Next
    <2>5. ASSUME OtherHandler \/ \E t \in zloop.timers : PollNobody(t)
          PROVE  Service!Next
      <3>1. /\ agent_hmap' = agent_hmap /\ mon_id' = mon_id
            /\ poll_time' = poll_time /\ polled' = {}
            /\ zloop'.timers = zloop.timers
        BY <2>5 DEF OtherHandler, PollNobody, agentVars, RInv, SInv, OInv, IInv,
                    TypeOK
      <3>2. Service!Idle
        BY <3>1 DEF Service!Idle, Group, Find
      <3> QED BY <3>2 DEF Service!Next
    <2>6. CASE UNCHANGED vars
      BY <2>6 DEF vars, Service!vars, Group, Find
    <2> QED BY <2>1, <2>2, <2>3, <2>4, <2>5, <2>6
            DEF Next, NetconfEvent, TimerEvent, MonHelloNoFile,
                MonHelloRefused, MonUnknown, PollInstallFails
  <1> QED BY <1>1, <1>2, <1>3, <1>4, PTL DEF Spec, Service!SafeSpec
=============================================================================
