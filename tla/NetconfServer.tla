---------------------------- MODULE NetconfServer ----------------------------
(***************************************************************************)
(* The daemon as its controllers see it: started as in Startup.tla, it     *)
(* answers requests on a ZeroMQ REP socket, one at a time, while poll      *)
(* timers go on.  s_netconf_socket_event handles a request to its end, so  *)
(* that one action receives it, carries it out and answers it.             *)
(*                                                                         *)
(* Requests come from several clients, each of which waits for its reply.  *)
(* Every agent has one client that starts, changes and stops it, and that  *)
(* names only agents it has been told exist.  What requests do to timers,  *)
(* flow entries, the row tables and the TCAM alarm is in the modules of    *)
(* those; here they start an agent, end it, need it, or look it up.        *)
(***************************************************************************)
EXTENDS Startup

CONSTANTS
  Client,     \* the peers of the REP socket
  MonId,      \* ids of monitoring agents
  Owner,      \* the client that manages each agent
  Ops,        \* the operations the clients ask for
  NoRequest, NoId

\* The operations that name an agent, and those that do not.
AgentOp ==
  {"MON_HELLO", "MON_STOP", "MON_PARAM_CHANGE", "mon_status", "get-1d-hhh",
   "get-2d-hhh", "enable-disable-action", "modify-event-thresholds"}
DeviceOp ==
  {"configure-device-id", "configure-tcam-timer", "fp-entry-threshold",
   "port-threshold", "port-statistics-get", "clear-port-stats",
   "get_field_processor_group_status", "unknown"}

ASSUME ClientAssumption ==
  /\ Owner \in [MonId -> Client]
  /\ Ops \subseteq AgentOp \cup DeviceOp
  /\ NoId \notin MonId
  /\ NoRequest \notin [op : AgentOp \cup DeviceOp, id : MonId \cup {NoId}]

Request ==
  [op : Ops \cap AgentOp, id : MonId] \cup [op : Ops \cap DeviceOp, id : {NoId}]

VARIABLES
  agents,    \* agent_hmap: the ids of the registered agents
  sock,      \* the REP socket: what it can do next, "recv" or "send"
  alive,     \* the process has not died
  pending,   \* the request each client waits for
  believed,  \* the agents that exist according to the replies
  dropped    \* ghost: agents that were discarded while they were polled

serverVars == <<agents, sock, alive, pending, believed, dropped>>
vars == <<startupVars, serverVars>>

TypeOK ==
  /\ StartupTypeOK
  /\ agents \subseteq MonId
  /\ sock \in {"recv", "send"}
  /\ alive \in BOOLEAN
  /\ pending \in [Client -> Request \cup {NoRequest}]
  /\ believed \subseteq MonId
  /\ dropped \subseteq MonId

Up == pc = "serving" /\ bound /\ alive

Init ==
  /\ StartupInit
  /\ agents = {}
  /\ sock = "recv"
  /\ alive = TRUE
  /\ pending = [c \in Client |-> NoRequest]
  /\ believed = {}
  /\ dropped = {}
-----------------------------------------------------------------------------
\* The outcome of a request: the agents it leaves and the reply; "none" if
\* the handler sends none, "dead" if the process does not survive it.
Outcome(ids, reply) == [agents |-> ids, reply |-> reply]

\* Monitoring requests are first given memory, which may fail.
NoMemory == Outcome(agents, "NOK")

\* Seeded faults: after a refused flow the handler does not return; it
\* returns without a reply.
HelloGoesOn(id) ==
  {Outcome(agents \cup {id}, "OK"),
   Outcome(agents \cup {id}, "Flow_Entry_Creation_failed"), NoMemory}

HelloSilent(id) ==
  {Outcome(agents \cup {id}, "OK"), Outcome(agents, "none"), NoMemory}

\* Seeded fault: the memory is needed only after the agent has been ended.
StopBeforeMemory(id) ==
  {IF id \in agents THEN Outcome(agents \ {id}, reply) ELSE Outcome(agents, "dead") :
     reply \in {"OK", "NOK"}}

\* MON_HELLO: the flow may be refused.
MonHello(id) ==
  {Outcome(agents \cup {id}, "OK"),
   Outcome(agents, "Flow_Entry_Creation_failed"), NoMemory}

\* MON_STOP and MON_PARAM_CHANGE use the agent without a check that there is
\* one.
MonStop(id) ==
  {IF id \in agents THEN Outcome(agents \ {id}, "OK") ELSE Outcome(agents, "dead"),
   NoMemory}

MonParamChange(id) ==
  {Outcome(agents, IF id \in agents THEN "OK" ELSE "dead"), NoMemory}

\* An unknown type is not answered.
UnknownType == {Outcome(agents, "none"), NoMemory}

\* mon_status: the last values of the agent, or OK if there is none.
MonStatus(id) == {Outcome(agents, IF id \in agents THEN "mon_status" ELSE "OK")}

\* check_msg_type answers the rest by itself: reports of the switch, and OK
\* to all else, whether or not the agent exists or the switch agrees.
Report(op) == {Outcome(agents, op)}

Setting == {Outcome(agents, "OK")}

\* check_msg_type and validate_mon_activity_params: what kind of request r is.
Outcomes(r) ==
  CASE r.op = "MON_HELLO" -> MonHello(r.id)
    [] r.op = "MON_STOP" -> MonStop(r.id)
    [] r.op = "MON_PARAM_CHANGE" -> MonParamChange(r.id)
    [] r.op = "mon_status" -> MonStatus(r.id)
    [] r.op \in {"port-statistics-get", "get_field_processor_group_status"} ->
         Report(r.op)
    [] r.op = "unknown" -> UnknownType
    [] OTHER -> Setting

\* What the client believes after the reply.
Learns(r, reply) ==
  IF reply # "OK" THEN believed
  ELSE CASE r.op = "MON_HELLO" -> believed \cup {r.id}
         [] r.op = "MON_STOP" -> believed \ {r.id}
         [] OTHER -> believed

\* The requests a client may send, by what it has been told.
MayAsk(c, r) ==
  /\ r.id \in MonId => Owner[r.id] = c
  /\ r.op = "MON_HELLO" => r.id \notin believed
  /\ r.op \in {"MON_STOP", "MON_PARAM_CHANGE"} => r.id \in believed

\* Without a bound REP socket nothing arrives.
Ask(c, r) ==
  /\ pc = "serving" /\ bound
  /\ pending[c] = NoRequest
  /\ MayAsk(c, r)
  /\ pending' = [pending EXCEPT ![c] = r]
  /\ UNCHANGED <<agents, sock, alive, believed, dropped>>

\* s_netconf_socket_event: the poller calls it when the REP socket can
\* receive, which it cannot while it owes a reply.
Serve(c) ==
  /\ Up
  /\ sock = "recv"
  /\ pending[c] # NoRequest
  /\ \E o \in Outcomes(pending[c]) :
       /\ agents' = o.agents
       /\ alive' = (o.reply # "dead")
       /\ sock' = IF o.reply = "none" THEN "send" ELSE "recv"
       /\ pending' = IF o.reply \in {"none", "dead"} THEN pending
                     ELSE [pending EXCEPT ![c] = NoRequest]
       /\ believed' = Learns(pending[c], o.reply)
  /\ UNCHANGED dropped

\* s_timer_event: the flow of an agent's next state is refused.  The agent is
\* freed twice, which the process may or may not survive.
PollDiscards(id) ==
  /\ pc = "serving" /\ alive
  /\ id \in agents
  /\ agents' = agents \ {id}
  /\ dropped' = dropped \cup {id}
  /\ alive' \in BOOLEAN
  /\ UNCHANGED <<sock, pending, believed>>

ServerNext ==
  \/ \E c \in Client, r \in Request : Ask(c, r)
  \/ \E c \in Client : Serve(c)
  \/ \E id \in MonId : PollDiscards(id)

Next ==
  \/ StartupNext /\ UNCHANGED serverVars
  \/ ServerNext /\ UNCHANGED startupVars

Spec == Init /\ [][Next]_vars

\* ZeroMQ takes requests from its peers in turn.
FairSpec == Spec /\ \A c \in Client : WF_vars(Serve(c) /\ UNCHANGED startupVars)
-----------------------------------------------------------------------------
(***************************************************************************)
(* Properties.                                                             *)
(***************************************************************************)

\* The replies are true: the agents the controllers believe in are the
\* registered ones, but for those discarded while they were polled, about
\* which nobody is told.
BeliefMatches == alive => agents = believed \ dropped

\* The daemon dies only over an agent that a poll discards: in that poll, or
\* when a client that has not been told stops or changes the agent.  No
\* sequence of requests that keep to the replies kills it.
DeathOfDropped ==
  alive /\ ~alive' =>
    \/ dropped' # dropped
    \/ \E c \in Client :
         /\ pending[c] # NoRequest
         /\ pending[c].op \in {"MON_STOP", "MON_PARAM_CHANGE"}
         /\ pending[c].id \in believed \cap dropped

DiesOfDropped == [][DeathOfDropped]_vars

Registry == INSTANCE AgentRegistry
  WITH registered <- agents, asked <- pending, down <- ~alive \/ sock = "send"

\* The daemon is an AgentRegistry: a request takes effect when it is answered
\* and only then, and is answered unless one of an unknown type, or about an
\* agent that does not exist, has come before, or the daemon has died of
\* discarding an agent.
ImplementsRegistry == Registry!RegistrySpec

=============================================================================
