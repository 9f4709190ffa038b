---------------------------- MODULE AgentRegistry ----------------------------
(***************************************************************************)
(* What the daemon promises to the controllers it serves: a registry of    *)
(* monitoring agents.  Each request takes effect at most once, at the      *)
(* moment it is answered, and every request is answered as long as the     *)
(* daemon is up.  It may lose agents, but only in between requests.  It    *)
(* may go down only over a request it does not know, over one that stops   *)
(* or changes an agent it does not have, or together with an agent it      *)
(* loses.                                                                  *)
(***************************************************************************)
CONSTANTS Client, MonId, Request, NoRequest

VARIABLES
  registered,  \* the agents
  asked,       \* the request each client waits for, or NoRequest
  down         \* the daemon serves no one any more

registryVars == <<registered, asked, down>>

RegistryInit ==
  /\ registered = {}
  /\ asked = [c \in Client |-> NoRequest]
  /\ down = FALSE

Ask(c, r) ==
  /\ asked[c] = NoRequest
  /\ asked' = [asked EXCEPT ![c] = r]
  /\ UNCHANGED <<registered, down>>

\* A request may be refused; otherwise MON_HELLO and MON_STOP do what they say.
Answer(c) ==
  /\ ~down
  /\ asked[c] # NoRequest
  /\ asked' = [asked EXCEPT ![c] = NoRequest]
  /\ \/ registered' = registered
     \/ asked[c].op = "MON_HELLO" /\ registered' = registered \cup {asked[c].id}
     \/ asked[c].op = "MON_STOP" /\ registered' = registered \ {asked[c].id}
  /\ UNCHANGED down

GoDown(c) ==
  /\ asked[c] # NoRequest
  /\ \/ asked[c].op = "unknown"
     \/ /\ asked[c].op \in {"MON_STOP", "MON_PARAM_CHANGE"}
        /\ asked[c].id \notin registered
  /\ down' = TRUE
  /\ UNCHANGED <<registered, asked>>

Lose(id) ==
  /\ id \in registered
  /\ registered' = registered \ {id}
  /\ down' \in {down, TRUE}
  /\ UNCHANGED asked

RegistryNext ==
  \/ \E c \in Client : (\E r \in Request : Ask(c, r)) \/ Answer(c) \/ GoDown(c)
  \/ \E id \in MonId : Lose(id)

RegistrySpec ==
  /\ RegistryInit /\ [][RegistryNext]_registryVars
  /\ \A c \in Client : WF_registryVars(Answer(c))

=============================================================================
