------------------------- MODULE NetconfServerProofs -------------------------
(***************************************************************************)
(* Proofs that replies are true, that only an agent discarded between      *)
(* requests can cost the daemon its life, and that the daemon implements   *)
(* the safety part of AgentRegistry, for any clients, agents and requests. *)
(*                                                                         *)
(* BeliefMatches is not inductive: that MON_HELLO adds an agent that is    *)
(* not there, and MON_STOP ends one that is, rests on Keeps - a request    *)
(* that was allowed when it was sent still is when it is served, because   *)
(* only the client that owns an agent changes what is believed about it.   *)
(***************************************************************************)
EXTENDS NetconfServer, StartupProofs

\* A request that waits is one its client may still send.
Keeps ==
  \A c \in Client : pending[c] # NoRequest => MayAsk(c, pending[c])

\* An agent is discarded only once its client believes in it.
DroppedBelieved == dropped \subseteq believed

ServerInv ==
  /\ TypeOK /\ StartupInv
  /\ BeliefMatches /\ Keeps /\ DroppedBelieved
-----------------------------------------------------------------------------
\* What kinds of request there are.
LEMMA RequestFields ==
  ASSUME NEW r \in Request
  PROVE  /\ r \in [op : AgentOp \cup DeviceOp, id : MonId \cup {NoId}]
         /\ r # NoRequest
         /\ r.op \in AgentOp => r.id \in MonId
         /\ r.op \in DeviceOp => r.id = NoId
         /\ r = [op |-> r.op, id |-> r.id]
<1>1. r \in [op : AgentOp \cup DeviceOp, id : MonId \cup {NoId}]
  BY ClientAssumption DEF Request
<1>2. r # NoRequest
  BY <1>1, ClientAssumption
<1>3. CASE r \in [op : Ops \cap AgentOp, id : MonId]
  <2>1. r.op \notin DeviceOp
    BY <1>3 DEF AgentOp, DeviceOp
  <2> QED
    BY <1>1, <1>2, <1>3, <2>1
<1>4. CASE r \in [op : Ops \cap DeviceOp, id : {NoId}]
  <2>1. r.op \notin AgentOp
    BY <1>4 DEF AgentOp, DeviceOp
  <2> QED
    BY <1>1, <1>2, <1>4, <2>1
<1> QED
  BY <1>3, <1>4 DEF Request

\* What a request may lead to: the agents it leaves and the reply, together.
Allowed(r, o) ==
  \/ /\ o.agents = agents /\ o.reply \notin {"dead", "none"}
     /\ o.reply = "OK" => r.op \notin {"MON_HELLO", "MON_STOP"}
  \/ r.op = "MON_HELLO" /\ o.agents = agents \cup {r.id} /\ o.reply = "OK"
  \/ /\ r.op = "MON_STOP" /\ r.id \in agents
     /\ o.agents = agents \ {r.id} /\ o.reply = "OK"
  \/ /\ r.op \in {"MON_STOP", "MON_PARAM_CHANGE"} /\ r.id \notin agents
     /\ o.agents = agents /\ o.reply = "dead"
  \/ r.op = "unknown" /\ o.agents = agents /\ o.reply = "none"

LEMMA OutcomesAllowed ==
  ASSUME NEW r \in Request, NEW o \in Outcomes(r)
  PROVE  Allowed(r, o)
<1> USE DEF Allowed, Outcome, NoMemory
<1>1. CASE r.op = "MON_HELLO"
  <2>1. Outcomes(r) = MonHello(r.id)
    BY <1>1 DEF Outcomes
  <2> QED
    BY <1>1, <2>1 DEF MonHello
<1>2. CASE r.op = "MON_STOP"
  <2>1. Outcomes(r) = MonStop(r.id)
    BY <1>2 DEF Outcomes
  <2> QED
    BY <1>2, <2>1 DEF MonStop
<1>3. CASE r.op = "MON_PARAM_CHANGE"
  <2>1. Outcomes(r) = MonParamChange(r.id)
    BY <1>3 DEF Outcomes
  <2> QED
    BY <1>3, <2>1 DEF MonParamChange
<1>4. CASE r.op = "mon_status"
  <2>1. Outcomes(r) = MonStatus(r.id)
    BY <1>4 DEF Outcomes
  <2> QED
    BY <1>4, <2>1 DEF MonStatus
<1>5. CASE r.op \in {"port-statistics-get", "get_field_processor_group_status"}
  <2>1. Outcomes(r) = Report(r.op)
    BY <1>5 DEF Outcomes
  <2> QED
    BY <1>5, <2>1 DEF Report
<1>6. CASE r.op = "unknown"
  <2>1. Outcomes(r) = UnknownType
    BY <1>6 DEF Outcomes
  <2> QED
    BY <1>6, <2>1 DEF UnknownType
<1>7. CASE r.op \notin {"MON_HELLO", "MON_STOP", "MON_PARAM_CHANGE", "mon_status",
                        "port-statistics-get", "get_field_processor_group_status",
                        "unknown"}
  <2>1. Outcomes(r) = Setting
    BY <1>7 DEF Outcomes
  <2> QED
    BY <1>7, <2>1 DEF Setting
<1> QED
  BY <1>1, <1>2, <1>3, <1>4, <1>5, <1>6, <1>7

\* What serving a request does, by the outcomes that are allowed.
LEMMA ServeEffect ==
  ASSUME NEW c \in Client, TypeOK, Serve(c)
  PROVE  LET r == pending[c]
         IN  /\ r \in Request
             /\ alive /\ sock = "recv" /\ pc = "serving" /\ dropped' = dropped
             /\ \/ /\ agents' = agents /\ alive' = TRUE /\ sock' = "recv"
                   /\ pending' = [pending EXCEPT ![c] = NoRequest]
                   /\ believed' = believed
                \/ /\ r.op = "MON_HELLO" /\ agents' = agents \cup {r.id}
                   /\ alive' = TRUE /\ sock' = "recv"
                   /\ pending' = [pending EXCEPT ![c] = NoRequest]
                   /\ believed' = believed \cup {r.id}
                \/ /\ r.op = "MON_STOP" /\ r.id \in agents
                   /\ agents' = agents \ {r.id}
                   /\ alive' = TRUE /\ sock' = "recv"
                   /\ pending' = [pending EXCEPT ![c] = NoRequest]
                   /\ believed' = believed \ {r.id}
                \/ /\ r.op \in {"MON_STOP", "MON_PARAM_CHANGE"}
                   /\ r.id \notin agents /\ agents' = agents
                   /\ alive' = FALSE /\ sock' = "recv"
                   /\ pending' = pending /\ believed' = believed
                \/ /\ r.op = "unknown" /\ agents' = agents
                   /\ alive' = TRUE /\ sock' = "send"
                   /\ pending' = pending /\ believed' = believed
<1> DEFINE r == pending[c]
<1>1. /\ r \in Request
      /\ alive /\ sock = "recv" /\ pc = "serving" /\ dropped' = dropped
  BY DEF Serve, Up, TypeOK
<1>2. PICK o \in Outcomes(r) :
        /\ agents' = o.agents
        /\ alive' = (o.reply # "dead")
        /\ sock' = IF o.reply = "none" THEN "send" ELSE "recv"
        /\ pending' = IF o.reply \in {"none", "dead"} THEN pending
                      ELSE [pending EXCEPT ![c] = NoRequest]
        /\ believed' = Learns(r, o.reply)
  BY DEF Serve
<1>3. Allowed(r, o)
  BY <1>1, <1>2, OutcomesAllowed
<1>4. CASE /\ o.agents = agents /\ o.reply \notin {"dead", "none"}
           /\ o.reply = "OK" => r.op \notin {"MON_HELLO", "MON_STOP"}
  <2>1. believed' = believed
    BY <1>2, <1>4 DEF Learns
  <2> QED
    BY <1>1, <1>2, <1>4, <2>1
<1>5. CASE r.op = "MON_HELLO" /\ o.agents = agents \cup {r.id} /\ o.reply = "OK"
  <2>1. believed' = believed \cup {r.id}
    BY <1>2, <1>5 DEF Learns
  <2> QED
    BY <1>1, <1>2, <1>5, <2>1
<1>6. CASE /\ r.op = "MON_STOP" /\ r.id \in agents
           /\ o.agents = agents \ {r.id} /\ o.reply = "OK"
  <2>1. believed' = believed \ {r.id}
    BY <1>2, <1>6 DEF Learns
  <2> QED
    BY <1>1, <1>2, <1>6, <2>1
<1>7. CASE /\ r.op \in {"MON_STOP", "MON_PARAM_CHANGE"} /\ r.id \notin agents
           /\ o.agents = agents /\ o.reply = "dead"
  BY <1>1, <1>2, <1>7 DEF Learns
<1>8. CASE r.op = "unknown" /\ o.agents = agents /\ o.reply = "none"
  BY <1>1, <1>2, <1>8 DEF Learns
<1> QED
  BY <1>3, <1>4, <1>5, <1>6, <1>7, <1>8 DEF Allowed
-----------------------------------------------------------------------------
\* MayAsk, of any set b of agents the clients believe in.
May(c, r, b) ==
  /\ r.id \in MonId => Owner[r.id] = c
  /\ r.op = "MON_HELLO" => r.id \notin b
  /\ r.op \in {"MON_STOP", "MON_PARAM_CHANGE"} => r.id \in b

LEMMA KeepsMay ==
  Keeps <=> \A d \in Client : pending[d] # NoRequest => May(d, pending[d], believed)
BY DEF Keeps, MayAsk, May

LEMMA KeepsNext ==
  ASSUME \A d \in Client : pending'[d] # NoRequest => May(d, pending'[d], believed')
  PROVE  Keeps'
BY DEF Keeps, MayAsk, May

LEMMA ServerInit == Init => ServerInv
<1> SUFFICES ASSUME Init PROVE ServerInv
  OBVIOUS
<1>1. StartupInv
  BY StartupInitInv DEF Init
<1>2. TypeOK
  BY <1>1 DEF StartupInv, Init, TypeOK
<1>3. BeliefMatches /\ Keeps /\ DroppedBelieved
  BY DEF Init, BeliefMatches, Keeps, DroppedBelieved
<1> QED
  BY <1>1, <1>2, <1>3 DEF ServerInv

\* A client adds a request it may send.
LEMMA AskStep ==
  ASSUME NEW c \in Client, NEW r \in Request, ServerInv, Ask(c, r),
         StartupInv', StartupTypeOK'
  PROVE  ServerInv'
<1> USE DEF ServerInv
<1>1. /\ pending' = [pending EXCEPT ![c] = r]
      /\ UNCHANGED <<agents, sock, alive, believed, dropped>>
      /\ pending[c] = NoRequest
      /\ MayAsk(c, r) /\ pending \in [Client -> Request \cup {NoRequest}]
  BY DEF Ask, TypeOK
<1>2. TypeOK'
  BY <1>1 DEF TypeOK
<1>3. BeliefMatches' /\ DroppedBelieved'
  BY <1>1 DEF BeliefMatches, DroppedBelieved
<1>4. Keeps'
  <2>1. May(c, r, believed)
    BY <1>1 DEF MayAsk, May
  <2>2. ASSUME NEW d \in Client, pending'[d] # NoRequest
        PROVE  May(d, pending'[d], believed)
    <3>1. CASE d = c
      BY <1>1, <2>1, <3>1
    <3>2. CASE d # c
      <4>1. pending'[d] = pending[d]
        BY <1>1, <3>2
      <4> QED
        BY <2>2, <4>1, KeepsMay
    <3> QED
      BY <3>1, <3>2
  <2> QED
    BY <1>1, <2>2, KeepsNext
<1> QED
  BY <1>2, <1>3, <1>4

\* A poll may end an agent, and the daemon; its client goes on believing in it.
LEMMA PollDiscardsStep ==
  ASSUME NEW id \in MonId, ServerInv, PollDiscards(id), StartupInv', StartupTypeOK'
  PROVE  ServerInv'
<1> USE DEF ServerInv
<1>1. /\ alive /\ id \in agents /\ agents' = agents \ {id}
      /\ dropped' = dropped \cup {id}
      /\ alive' \in BOOLEAN
      /\ UNCHANGED <<sock, pending, believed>>
  BY DEF PollDiscards
<1>2. TypeOK'
  BY <1>1 DEF TypeOK
<1>3. BeliefMatches' /\ DroppedBelieved'
  BY <1>1 DEF BeliefMatches, DroppedBelieved
<1>4. Keeps'
  BY <1>1 DEF Keeps, MayAsk
<1> QED
  BY <1>2, <1>3, <1>4

\* A reply changes what is believed of at most one agent, its client's own.
LEMMA AnswerKeeps ==
  ASSUME NEW c \in Client, TypeOK, Keeps,
         pending' = [pending EXCEPT ![c] = NoRequest],
         \/ believed' = believed
         \/ /\ pending[c].id \in MonId /\ pending[c] # NoRequest
            /\ believed' = believed \cup {pending[c].id}
         \/ /\ pending[c].id \in MonId /\ pending[c] # NoRequest
            /\ believed' = believed \ {pending[c].id}
  PROVE  Keeps'
<1> DEFINE k == pending[c].id
<1>1. ASSUME NEW d \in Client, pending'[d] # NoRequest
      PROVE  May(d, pending'[d], believed')
  <2>1. d # c /\ pending'[d] = pending[d]
    BY <1>1 DEF TypeOK
  <2>2. May(d, pending[d], believed)
    BY <1>1, <2>1, KeepsMay
  <2>3. CASE believed' = believed
    BY <2>1, <2>2, <2>3
  <2>4. CASE believed' # believed
    <3>1. k \in MonId /\ pending[c] # NoRequest
      BY <2>4
    <3>2. Owner[k] = c
      BY <3>1, KeepsMay DEF May
    <3>3. pending[d] \in Request
      BY <1>1, <2>1 DEF TypeOK
    <3>4. /\ pending[d].id \in MonId => pending[d].id # k
          /\ pending[d].op \in AgentOp => pending[d].id \in MonId
      BY <2>1, <2>2, <3>2, <3>3, RequestFields DEF May
    <3>5. pending[d].op \in AgentOp =>
            (pending[d].id \in believed' <=> pending[d].id \in believed)
      BY <3>4
    <3>6. {"MON_HELLO", "MON_STOP", "MON_PARAM_CHANGE"} \subseteq AgentOp
      BY DEF AgentOp
    <3> QED
      BY <2>1, <2>2, <3>5, <3>6 DEF May
  <2> QED
    BY <2>3, <2>4
<1> QED
  BY <1>1, KeepsNext

LEMMA ServeStep ==
  ASSUME NEW c \in Client, ServerInv, Serve(c), StartupInv', StartupTypeOK'
  PROVE  ServerInv'
<1> USE DEF ServerInv
<1> DEFINE r == pending[c]
<1>1. /\ r \in Request /\ r # NoRequest
      /\ alive /\ sock = "recv" /\ dropped' = dropped
      /\ agents \subseteq MonId /\ believed \subseteq MonId /\ dropped \subseteq MonId
      /\ pending \in [Client -> Request \cup {NoRequest}]
  BY ServeEffect, RequestFields DEF TypeOK
<1>2. /\ r.op \in {"MON_HELLO", "MON_STOP", "MON_PARAM_CHANGE"} => r.id \in MonId
      /\ r.op = "MON_HELLO" => r.id \notin believed
      /\ r.op \in {"MON_STOP", "MON_PARAM_CHANGE"} => r.id \in believed
  BY <1>1, RequestFields, KeepsMay DEF May, AgentOp
<1>3. agents = believed \ dropped /\ dropped \subseteq believed
  BY <1>1 DEF BeliefMatches, DroppedBelieved
<1>4. CASE /\ agents' = agents /\ alive' = TRUE /\ sock' = "recv"
           /\ pending' = [pending EXCEPT ![c] = NoRequest]
           /\ believed' = believed
  <2>1. Keeps'
    BY <1>4, AnswerKeeps
  <2>2. TypeOK'
    BY <1>1, <1>4 DEF TypeOK
  <2>3. BeliefMatches' /\ DroppedBelieved'
    BY <1>1, <1>3, <1>4 DEF BeliefMatches, DroppedBelieved
  <2> QED
    BY <2>1, <2>2, <2>3
<1>5. CASE /\ r.op = "MON_HELLO" /\ agents' = agents \cup {r.id}
           /\ alive' = TRUE /\ sock' = "recv"
           /\ pending' = [pending EXCEPT ![c] = NoRequest]
           /\ believed' = believed \cup {r.id}
  <2>1. Keeps'
    BY <1>1, <1>2, <1>5, AnswerKeeps
  <2>2. TypeOK'
    BY <1>1, <1>2, <1>5 DEF TypeOK
  <2>3. BeliefMatches' /\ DroppedBelieved'
    BY <1>1, <1>2, <1>3, <1>5 DEF BeliefMatches, DroppedBelieved
  <2> QED
    BY <2>1, <2>2, <2>3
<1>6. CASE /\ r.op = "MON_STOP" /\ r.id \in agents /\ agents' = agents \ {r.id}
           /\ alive' = TRUE /\ sock' = "recv"
           /\ pending' = [pending EXCEPT ![c] = NoRequest]
           /\ believed' = believed \ {r.id}
  <2>1. Keeps'
    BY <1>1, <1>2, <1>6, AnswerKeeps
  <2>2. TypeOK'
    BY <1>1, <1>2, <1>6 DEF TypeOK
  <2>3. BeliefMatches' /\ DroppedBelieved'
    BY <1>1, <1>2, <1>3, <1>6 DEF BeliefMatches, DroppedBelieved
  <2> QED
    BY <2>1, <2>2, <2>3
<1>7. CASE /\ r.op \in {"MON_STOP", "MON_PARAM_CHANGE"}
           /\ r.id \notin agents /\ agents' = agents
           /\ alive' = FALSE /\ sock' = "recv"
           /\ pending' = pending /\ believed' = believed
  <2>1. Keeps'
    BY <1>7, KeepsMay, KeepsNext
  <2>2. TypeOK'
    BY <1>1, <1>7 DEF TypeOK
  <2>3. BeliefMatches' /\ DroppedBelieved'
    BY <1>1, <1>3, <1>7 DEF BeliefMatches, DroppedBelieved
  <2> QED
    BY <2>1, <2>2, <2>3
<1>8. CASE /\ r.op = "unknown" /\ agents' = agents
           /\ alive' = TRUE /\ sock' = "send"
           /\ pending' = pending /\ believed' = believed
  <2>1. Keeps'
    BY <1>8, KeepsMay, KeepsNext
  <2>2. TypeOK'
    BY <1>1, <1>8 DEF TypeOK
  <2>3. BeliefMatches' /\ DroppedBelieved'
    BY <1>1, <1>3, <1>8 DEF BeliefMatches, DroppedBelieved
  <2> QED
    BY <2>1, <2>2, <2>3
<1> QED
  BY <1>4, <1>5, <1>6, <1>7, <1>8, ServeEffect

LEMMA ServerStep == ServerInv /\ [Next]_vars => ServerInv'
<1> SUFFICES ASSUME ServerInv, [Next]_vars PROVE ServerInv'
  OBVIOUS
<1>1. StartupInv' /\ StartupTypeOK'
  <2>1. [StartupNext]_startupVars
    BY DEF Next, vars
  <2> QED
    BY <2>1, StartupStep DEF ServerInv, StartupInv
<1>2. CASE UNCHANGED serverVars
  BY <1>1, <1>2 DEF ServerInv, TypeOK, BeliefMatches, Keeps, MayAsk,
                    DroppedBelieved, serverVars
<1>3. ASSUME NEW c \in Client, NEW r \in Request, Ask(c, r) PROVE ServerInv'
  BY <1>1, <1>3, AskStep
<1>4. ASSUME NEW c \in Client, Serve(c) PROVE ServerInv'
  BY <1>1, <1>4, ServeStep
<1>5. ASSUME NEW id \in MonId, PollDiscards(id) PROVE ServerInv'
  BY <1>1, <1>5, PollDiscardsStep
<1> QED
  BY <1>2, <1>3, <1>4, <1>5 DEF Next, ServerNext, vars
-----------------------------------------------------------------------------
LEMMA SpecServerInv == Spec => []ServerInv
BY ServerInit, ServerStep, PTL DEF Spec

\* The types, for any clients, agents and operations.
THEOREM SpecTypeOK == Spec => []TypeOK
<1>1. ServerInv => TypeOK
  BY DEF ServerInv
<1> QED
  BY <1>1, SpecServerInv, PTL

\* Wherever configure_test_environment returns, nothing in the switch refers
\* to what was not made or to the uninitialised l3egid.
THEOREM SpecAnchored == Spec => []Anchored
<1>1. ServerInv => Anchored
  BY DEF ServerInv, StartupInv
<1> QED
  BY <1>1, SpecServerInv, PTL

\* The replies of s_netconf_socket_event and check_msg_type are true, but for
\* agents that s_timer_event has discarded.
THEOREM SpecBeliefMatches == Spec => []BeliefMatches
<1>1. ServerInv => BeliefMatches
  BY DEF ServerInv
<1> QED
  BY <1>1, SpecServerInv, PTL

\* A client's MON_STOP or MON_PARAM_CHANGE that finds no agent is about one
\* that was dropped.
LEMMA ServeDeath ==
  ASSUME NEW c \in Client, ServerInv, Serve(c)
  PROVE  DeathOfDropped
<1> DEFINE r == pending[c]
<1> SUFFICES ASSUME alive, ~alive'
             PROVE  /\ r # NoRequest
                    /\ r.op \in {"MON_STOP", "MON_PARAM_CHANGE"}
                    /\ r.id \in believed \cap dropped
  BY DEF DeathOfDropped
<1>1. /\ r \in Request /\ r # NoRequest
      /\ r.op \in {"MON_STOP", "MON_PARAM_CHANGE"} /\ r.id \notin agents
  BY ServeEffect, RequestFields DEF ServerInv
<1>2. r.id \in believed
  BY <1>1, KeepsMay DEF May, ServerInv
<1> QED
  BY <1>1, <1>2 DEF ServerInv, BeliefMatches

LEMMA DiscardDeath ==
  ASSUME NEW id \in MonId, ServerInv, PollDiscards(id)
  PROVE  DeathOfDropped
<1>1. id \notin dropped /\ id \in dropped'
  BY DEF PollDiscards, ServerInv, BeliefMatches
<1> QED
  BY <1>1 DEF DeathOfDropped

\* The missing check for an agent in MON_STOP and MON_PARAM_CHANGE only ever
\* costs the daemon its life over an agent that s_timer_event has discarded;
\* else it dies of freeing one twice.
THEOREM SpecDiesOfDropped == Spec => DiesOfDropped
<1>1. ASSUME ServerInv, [Next]_vars PROVE [DeathOfDropped]_vars
  <2>1. CASE UNCHANGED serverVars
    BY <2>1 DEF serverVars, DeathOfDropped
  <2>2. ASSUME NEW c \in Client, NEW r \in Request, Ask(c, r) PROVE DeathOfDropped
    BY <2>2 DEF Ask, DeathOfDropped
  <2> QED
    BY <1>1, <2>1, <2>2, ServeDeath, DiscardDeath DEF Next, ServerNext, vars
<1> QED
  BY <1>1, SpecServerInv, PTL DEF Spec, DiesOfDropped
-----------------------------------------------------------------------------
(***************************************************************************)
(* The safety part of ImplementsRegistry: each step of the daemon is one   *)
(* of the registry or changes nothing it can see.                          *)
(***************************************************************************)

LEMMA RegistryInitRefined == Init => Registry!RegistryInit
BY DEF Init, Registry!RegistryInit

LEMMA RegistryAsk ==
  ASSUME NEW c \in Client, NEW r \in Request, Ask(c, r)
  PROVE  Registry!Ask(c, r)
BY DEF Ask, Registry!Ask

LEMMA RegistryLose ==
  ASSUME NEW id \in MonId, PollDiscards(id)
  PROVE  Registry!Lose(id)
BY DEF PollDiscards, Registry!Lose

LEMMA RegistryServe ==
  ASSUME NEW c \in Client, ServerInv, Serve(c)
  PROVE  Registry!Answer(c) \/ Registry!GoDown(c)
<1> DEFINE r == pending[c]
<1>1. r \in Request /\ r # NoRequest /\ alive /\ sock = "recv"
  BY ServeEffect, RequestFields DEF ServerInv
<1>2. CASE /\ alive' = TRUE /\ sock' = "recv"
           /\ pending' = [pending EXCEPT ![c] = NoRequest]
           /\ \/ agents' = agents
              \/ r.op = "MON_HELLO" /\ agents' = agents \cup {r.id}
              \/ r.op = "MON_STOP" /\ agents' = agents \ {r.id}
  BY <1>1, <1>2 DEF Registry!Answer
<1>3. CASE /\ agents' = agents /\ pending' = pending
           /\ ~alive' \/ sock' = "send"
           /\ \/ r.op = "unknown"
              \/ /\ r.op \in {"MON_STOP", "MON_PARAM_CHANGE"}
                 /\ r.id \notin agents
  BY <1>1, <1>3 DEF Registry!GoDown
<1> QED
  BY <1>2, <1>3, ServeEffect DEF ServerInv

\* Requests take effect when they are answered, once, and the daemon goes
\* down only over an unknown request, one about an agent it does not have, or
\* together with an agent it loses.
THEOREM RegistrySafety ==
  Spec => Registry!RegistryInit /\ [][Registry!RegistryNext]_Registry!registryVars
<1>1. ASSUME ServerInv, [Next]_vars
      PROVE  [Registry!RegistryNext]_Registry!registryVars
  <2>1. CASE UNCHANGED serverVars
    BY <2>1 DEF serverVars, Registry!registryVars
  <2>2. CASE ServerNext
    BY <1>1, <2>2, RegistryAsk, RegistryServe, RegistryLose
       DEF ServerNext, Registry!RegistryNext
  <2> QED
    BY <1>1, <2>1, <2>2 DEF Next, vars
<1> QED
  BY <1>1, RegistryInitRefined, SpecServerInv, PTL DEF Spec
=============================================================================
