---------------------------- MODULE AgentTimers ----------------------------
(***************************************************************************)
(* The agent table and the poll timers of the monitoring daemon            *)
(* (src/src/monitor-automata.c).                                           *)
(*                                                                         *)
(* Agents that ask for the same poll-time form a group.  One agent of the  *)
(* group, the holder, owns the zloop timer that polls all of them; its     *)
(* timer_id is not 0.  The requests MON_HELLO, MON_STOP and                *)
(* MON_PARAM_CHANGE move agents in and out of groups and hand timers over. *)
(*                                                                         *)
(* The daemon has one thread, so that one handler of the zloop is one      *)
(* action.  When a timer fires is left open: any running timer may be the  *)
(* next one.  What polling an agent does is the subject of Automaton.tla;  *)
(* here polling is only observed (polled).                                 *)
(***************************************************************************)
EXTENDS Naturals

CONSTANTS
  Handle,      \* addresses of struct mon_agent objects
  MonId,       \* monitoring ids the controller uses
  PollTime,    \* poll-times the controller asks for
  StrayDelay,  \* what the uninitialised local "delay" may hold
  MaxTimerId,  \* bound: no timer id above it is handed out
  Faults       \* what may go wrong around the daemon, see FaultKind

FaultKind ==
  {"install",    \* the switch refuses a flow entry with the error code -1
   "duplicate",  \* a MON_HELLO reuses the id of a registered agent
   "nofile",     \* the file a MON_HELLO names cannot be opened
   "unknown"}    \* MON_STOP or MON_PARAM_CHANGE names no registered agent

ASSUME ConstantsAssumption ==
  /\ MonId \subseteq Nat \ {0}
  /\ PollTime \subseteq Nat \ {0}
  /\ StrayDelay \subseteq Nat
  /\ MaxTimerId \in Nat
  /\ Faults \subseteq FaultKind

VARIABLES
  agent_hmap,  \* the agents in the hash map, a set of handles
  mon_id,      \* struct mon_agent.mon_id; 0 in an object that is not in use
  poll_time,   \* struct mon_agent.poll_time; 0 in an object not filled in
  timer_id,    \* struct mon_agent.timer_id; 0 if the agent owns no timer
  zloop,       \* the reactor: last timer id handed out, running poll timers
  polled,      \* the agents whose statistics the last handler read
  up           \* FALSE once the process has died

agentVars == <<agent_hmap, mon_id, poll_time>>
vars == <<agent_hmap, mon_id, poll_time, timer_id, zloop, polled, up>>

Timer == [id : Nat \ {0}, delay : Nat, mon_id : MonId \cup {0}]

TypeOK ==
  /\ agent_hmap \subseteq Handle
  /\ mon_id \in [Handle -> MonId \cup {0}]
  /\ poll_time \in [Handle -> PollTime \cup {0}]
  /\ timer_id \in [Handle -> Nat]
  /\ zloop \in [last : Nat, timers : SUBSET Timer]
  /\ polled \subseteq Handle
  /\ up \in BOOLEAN

(***************************************************************************)
(* The czmq reactor.  Ids count up and are never reused; an ended timer    *)
(* does not fire again.                                                    *)
(***************************************************************************)
ZloopTimer(z, delay, arg) ==
  [last   |-> z.last + 1,
   timers |-> z.timers \cup
              {[id |-> z.last + 1, delay |-> delay, mon_id |-> arg]}]

ZloopTimerEnd(z, id) ==
  [last |-> z.last, timers |-> {t \in z.timers : t.id # id}]

\* A handler creates at most two timers.
RoomForTimers == zloop.last + 2 <= MaxTimerId

(***************************************************************************)
(* Lookups in agent_hmap.  With several agents of one id the lookup finds  *)
(* whichever the bucket lists first, an order hmap_expand changes.         *)
(***************************************************************************)
Find(i) == {h \in agent_hmap : mon_id[h] = i}

Group(p) == {h \in agent_hmap : poll_time[h] = p}

(***************************************************************************)
(* Handing timers over.  A handler works on s = [held, z]: the timer_id    *)
(* fields and the reactor as it has changed them so far.                   *)
(***************************************************************************)
Now == [held |-> timer_id, z |-> zloop]

\* Seeded fault: the arguments of zloop_timer swapped.
StartSwapped(s, h, delay, arg) ==
  [held |-> [s.held EXCEPT ![h] = s.z.last + 1],
   z    |-> ZloopTimer(s.z, arg, delay)]

Start(s, h, delay, arg) ==
  [held |-> [s.held EXCEPT ![h] = s.z.last + 1],
   z    |-> ZloopTimer(s.z, delay, arg)]

\* Seeded fault: a forgotten hand-over.
NoHeirs(h) == {}

Heirs(h) ==
  {m \in Group(poll_time[h]) : timer_id[m] = 0 /\ mon_id[m] # mon_id[h]}

\* Seeded fault: the old timer is not ended.
ReleaseWithoutEnd(h) ==
  IF timer_id[h] = 0 \/ Heirs(h) = {} THEN {Now}
  ELSE {Start(Now, m, poll_time[m], mon_id[m]) : m \in Heirs(h)}

\* Seeded fault: the heir's timer carries the id of the agent that leaves.
ReleaseWithOldId(h) ==
  LET ended == [held |-> timer_id, z |-> ZloopTimerEnd(zloop, timer_id[h])]
  IN  IF timer_id[h] = 0 THEN {Now}
      ELSE IF Heirs(h) = {} THEN {ended}
      ELSE {Start(ended, m, poll_time[m], mon_id[h]) : m \in Heirs(h)}

\* The agent h gives its timer up; the first suitable agent of its group
\* that the iteration meets gets a new one.
Release(h) ==
  LET ended == [held |-> timer_id, z |-> ZloopTimerEnd(zloop, timer_id[h])]
  IN  IF timer_id[h] = 0 THEN {Now}
      ELSE IF Heirs(h) = {} THEN {ended}
      ELSE {Start(ended, m, poll_time[m], mon_id[m]) : m \in Heirs(h)}

\* Seeded faults: any agent of the group will do; the check is missing.
AnyAgentThere(s, p) == Group(p) # {}

NeverFound(s, p) == FALSE

TimerExists(s, p) == \E m \in Group(p) : s.held[m] # 0

\* The agent h, with id i, enters the group p: it starts a timer unless an
\* agent of the group owns one.
Enter(s, h, i, p, delay) ==
  IF TimerExists(s, p) THEN s ELSE Start(s, h, delay, i)
-----------------------------------------------------------------------------
Init ==
  /\ agent_hmap = {}
  /\ mon_id = [h \in Handle |-> 0]
  /\ poll_time = [h \in Handle |-> 0]
  /\ timer_id = [h \in Handle |-> 0]
  /\ zloop = [last |-> 1, timers |-> {}]  \* main() took 1 for the TCAM check
  /\ polled = {}
  /\ up = TRUE

Register(h, i, p) ==
  /\ RoomForTimers
  /\ h \notin agent_hmap
  /\ agent_hmap' = agent_hmap \cup {h}
  /\ mon_id' = [mon_id EXCEPT ![h] = i]
  /\ poll_time' = [poll_time EXCEPT ![h] = p]
  /\ LET s == Enter(Now, h, i, p, p)
     IN  timer_id' = s.held /\ zloop' = s.z
  /\ polled' = {}
  /\ up' = up

\* MON_HELLO: nothing in the handler looks for an agent of the same id.
MonHello(h, i, p) ==
  /\ Find(i) # {} => "duplicate" \in Faults
  /\ Register(h, i, p)

\* MON_HELLO whose file does not open: the zeroed object is registered.
MonHelloNoFile(h) ==
  /\ "nofile" \in Faults
  /\ Register(h, 0, 0)

\* MON_HELLO whose flow is refused: the object is freed again.
MonHelloRefused ==
  /\ "install" \in Faults
  /\ polled' = {}
  /\ UNCHANGED <<agentVars, timer_id, zloop, up>>

\* The object h leaves the hash map and is freed.
Discard(h) ==
  /\ agent_hmap' = agent_hmap \ {h}
  /\ mon_id' = [mon_id EXCEPT ![h] = 0]
  /\ poll_time' = [poll_time EXCEPT ![h] = 0]

MonStop(i) ==
  /\ RoomForTimers
  /\ \E h \in Find(i) : \E s \in Release(h) :
       /\ Discard(h)
       /\ timer_id' = [s.held EXCEPT ![h] = 0]
       /\ zloop' = s.z
  /\ polled' = {}
  /\ up' = up

\* MON_PARAM_CHANGE: a timer the agent starts runs with the value of the
\* uninitialised local "delay", not with the new poll-time p.
MonParamChange(i, p) ==
  /\ RoomForTimers
  /\ \E h \in Find(i) : \E r \in Release(h) : \E delay \in StrayDelay :
       LET s == Enter([r EXCEPT !.held[h] = 0], h, i, p, delay)
       IN  /\ timer_id' = s.held
           /\ zloop' = s.z
           /\ poll_time' = [poll_time EXCEPT ![h] = p]
  /\ polled' = {}
  /\ UNCHANGED <<agent_hmap, mon_id, up>>

\* MON_STOP or MON_PARAM_CHANGE dereferences the NULL the lookup returned.
MonUnknown(i) ==
  /\ "unknown" \in Faults
  /\ Find(i) = {}
  /\ up' = FALSE
  /\ polled' = {}
  /\ UNCHANGED <<agentVars, timer_id, zloop>>

\* Every other handler leaves agents and poll timers alone.  Those that
\* (re)start the TCAM timers use up a timer id.
OtherHandler ==
  /\ \E n \in {0, 1} :
       /\ zloop.last + n <= MaxTimerId
       /\ zloop' = [zloop EXCEPT !.last = @ + n]
  /\ polled' = {}
  /\ UNCHANGED <<agentVars, timer_id, up>>
-----------------------------------------------------------------------------
(***************************************************************************)
(* s_timer_event.                                                          *)
(***************************************************************************)

\* The timer's agent is gone: no group is polled.
PollNobody(t) ==
  /\ Find(t.mon_id) = {}
  /\ polled' = {}
  /\ UNCHANGED <<agentVars, timer_id, zloop, up>>

\* All agents with the poll-time of the timer's agent are polled.  Those of
\* poll-time 0 were never filled in: reading their first row is fatal.
PollGroup(t) ==
  /\ \E m \in Find(t.mon_id) :
       /\ polled' = IF poll_time[m] = 0 THEN {} ELSE Group(poll_time[m])
       /\ up' = (poll_time[m] # 0)
  /\ UNCHANGED <<agentVars, timer_id, zloop>>

\* An agent f of the group moves to a row whose flow is refused.  It is
\* discarded, its timer is not, and the rest of the group is skipped.  It is
\* freed twice, which the allocator may answer with an abort.
PollInstallFails(t) ==
  /\ "install" \in Faults
  /\ \E m \in Find(t.mon_id) : \E f \in Group(poll_time[m]) :
       /\ poll_time[m] # 0
       /\ \E before \in SUBSET (Group(poll_time[m]) \ {f}) :
            polled' = before \cup {f}
       /\ Discard(f)
       /\ timer_id' = [timer_id EXCEPT ![f] = 0]
  /\ up' \in BOOLEAN
  /\ UNCHANGED zloop

TimerEvent(t) == PollNobody(t) \/ PollGroup(t) \/ PollInstallFails(t)

NetconfEvent ==
  \/ \E h \in Handle, i \in MonId, p \in PollTime : MonHello(h, i, p)
  \/ \E h \in Handle : MonHelloNoFile(h)
  \/ MonHelloRefused
  \/ \E i \in MonId : MonStop(i)
  \/ \E i \in MonId, p \in PollTime : MonParamChange(i, p)
  \/ \E i \in MonId : MonUnknown(i)

Next ==
  /\ up
  /\ \/ NetconfEvent
     \/ OtherHandler
     \/ \E t \in zloop.timers : TimerEvent(t)

Spec == Init /\ [][Next]_vars

\* The reactor calls the handler of every timer that keeps running.
TimerFires(id) == up /\ \E t \in zloop.timers : t.id = id /\ TimerEvent(t)

FairSpec == Spec /\ \A id \in 1..MaxTimerId : WF_vars(TimerFires(id))
-----------------------------------------------------------------------------
(***************************************************************************)
(* Properties.                                                             *)
(***************************************************************************)

\* Two agents with the same poll-time never both own a timer, whatever the
\* controller and the switch do: otherwise the group would be polled at
\* twice its rate.
OneTimerPerGroup ==
  \A a, b \in agent_hmap :
    poll_time[a] = poll_time[b] /\ timer_id[a] # 0 /\ timer_id[b] # 0 => a = b

\* A timer_id saved in an agent names a timer that still runs, is nobody
\* else's, and calls s_timer_event with that agent's id.
HeldTimersRun ==
  \A a \in agent_hmap : timer_id[a] # 0 =>
    /\ \E t \in zloop.timers : t.id = timer_id[a] /\ t.mon_id = mon_id[a]
    /\ \A b \in agent_hmap : timer_id[b] = timer_id[a] => b = a

\* Every running poll timer is owned by a registered agent: MON_STOP can
\* still cancel it.
TimersHeld ==
  \A t \in zloop.timers : \E a \in agent_hmap : timer_id[a] = t.id

\* Every registered agent is in a group one of whose agents owns a timer,
\* and that timer's id leads s_timer_event back to this very group.
GroupServed ==
  \A a \in agent_hmap : \E t \in zloop.timers :
    /\ \E g \in Group(poll_time[a]) : timer_id[g] = t.id
    /\ Find(t.mon_id) # {}
    /\ Find(t.mon_id) \subseteq Group(poll_time[a])

\* No two timers poll the same group.
OneTimerPolls ==
  \A t, u \in zloop.timers :
    (\E m \in Find(t.mon_id), n \in Find(u.mon_id) :
        poll_time[m] = poll_time[n]) => t = u

\* The timer an agent owns runs with the poll-time of that agent's group.
DelayIsPollTime ==
  \A a \in agent_hmap, t \in zloop.timers :
    t.id = timer_id[a] => t.delay = poll_time[a]

\* An agent that stays in its group is polled again and again, whichever
\* agents join, leave or change group around it.
EventuallyPolled ==
  \A h \in Handle, p \in PollTime :
    h \in Group(p) ~> (h \in polled \/ h \notin Group(p) \/ ~up)

-----------------------------------------------------------------------------
\* The service the table and its timers implement: an interval is clocked
\* when a running timer leads s_timer_event to its group.
Service == INSTANCE PollService WITH
  Agent    <- Handle,
  Interval <- PollTime,
  members  <- [p \in PollTime |-> Group(p)],
  clocked  <- {p \in PollTime :
                 \E t \in zloop.timers : Find(t.mon_id) \cap Group(p) # {}},
  polled   <- polled

\* The fair daemon implements the service, its fairness included.
ImplementsService == Service!Spec

=============================================================================
