---------------------------- MODULE PollService ----------------------------
(***************************************************************************)
(* What the agent table and its timers promise, without holders, timer ids *)
(* or hand-overs: the agents of one interval form a group, a clock runs    *)
(* for exactly the intervals that have an agent, and when it strikes the   *)
(* whole group is polled at once.  AgentTimers.tla implements it as long   *)
(* as none of its Faults occurs.                                           *)
(***************************************************************************)
CONSTANTS Agent, Interval

VARIABLES
  members,  \* the agents of each interval
  clocked,  \* the intervals for which a clock runs
  polled    \* the agents polled by the last step

vars == <<members, clocked, polled>>

TypeOK ==
  /\ members \in [Interval -> SUBSET Agent]
  /\ clocked \subseteq Interval
  /\ polled \subseteq Agent

Members == UNION {members[p] : p \in Interval}

Init ==
  /\ members = [p \in Interval |-> {}]
  /\ clocked = {}
  /\ polled = {}

\* The groups become m; clocks start and stop with the groups.
Regroup(m) ==
  /\ members' = m
  /\ clocked' = {p \in Interval : m[p] # {}}
  /\ polled' = {}

Join(a, p) ==
  /\ a \notin Members
  /\ Regroup([members EXCEPT ![p] = @ \cup {a}])

Leave(a) ==
  /\ a \in Members
  /\ Regroup([p \in Interval |-> members[p] \ {a}])

Move(a, p) ==
  /\ a \in Members
  /\ Regroup([q \in Interval |->
                IF q = p THEN members[q] \cup {a} ELSE members[q] \ {a}])

Idle == polled' = {} /\ UNCHANGED <<members, clocked>>

Strike(p) ==
  /\ p \in clocked
  /\ polled' = members[p]
  /\ UNCHANGED <<members, clocked>>

Next ==
  \/ \E a \in Agent, p \in Interval : Join(a, p) \/ Move(a, p)
  \/ \E a \in Agent : Leave(a)
  \/ Idle
  \/ \E p \in Interval : Strike(p)

SafeSpec == Init /\ [][Next]_vars

Spec == SafeSpec /\ \A p \in Interval : WF_vars(Strike(p))
=============================================================================
