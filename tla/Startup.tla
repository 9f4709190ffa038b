------------------------------- MODULE Startup -------------------------------
(***************************************************************************)
(* What main does before the reactor starts: it initialises the switch's   *)
(* driver, sets up routing for a test network (bcm_application_init,       *)
(* configure_test_environment), creates the field group that holds all     *)
(* flow entries (mon_fp_stats_group_create) and opens the sockets.         *)
(*                                                                         *)
(* One action is one step of that sequence, with every outcome its calls   *)
(* of the switch may have.  A failure in the routing set-up ends the       *)
(* set-up, not the program, and nothing is undone.                         *)
(***************************************************************************)
EXTENDS Integers

CONSTANT PresetVlans  \* sets of sides whose VLAN the switch may already have

Side == {"in", "out"}

ASSUME PresetAssumption == PresetVlans \subseteq SUBSET Side

\* What the set-up makes in the switch: objects of a kind and a side, or of
\* a kind and the egress object they lead to.
Object == {"mode", "vlan", "member", "intf", "l2", "egress", "host",
           "default", "subnet"} \X (Side \cup {"stray"})

VARIABLES
  pc,                 \* the next step of main
  sw,                 \* the objects in the switch
  l3egid,             \* local of configure_test_environment: egress object
  fp_mon_stats_grps,  \* the field group; -1 for none
  bound,              \* the REP socket is bound to its port
  preset              \* ghost: the sides whose VLAN was there before

startupVars == <<pc, sw, l3egid, fp_mon_stats_grps, bound, preset>>

\* The steps of configure_test_environment, each with the one that follows.
Follows ==
  [mode |-> "intf_in", intf_in |-> "intf_out", intf_out |-> "l2_in",
   l2_in |-> "l2_out", l2_out |-> "l3_egress", l3_egress |-> "host",
   host |-> "default", default |-> "subnet", subnet |-> "group"]

Step == {"driver", "stat", "group", "sockets", "serving", "exited"}
          \cup DOMAIN Follows

StartupTypeOK ==
  /\ pc \in Step
  /\ sw \subseteq Object
  /\ l3egid \in Side \cup {"stray"}
  /\ fp_mon_stats_grps \in {-1, 0}
  /\ bound \in BOOLEAN
  /\ preset \in PresetVlans

StartupInit ==
  /\ pc = "driver"
  /\ preset \in PresetVlans
  /\ sw = {"vlan"} \X preset
  /\ l3egid = "stray"
  /\ fp_mon_stats_grps = -1
  /\ bound = FALSE
-----------------------------------------------------------------------------
(***************************************************************************)
(* The helpers, as the set of possible outcomes on the switch's state x.   *)
(***************************************************************************)

\* A call that makes the object o, or fails.
Makes(x, o) == {[sw |-> x \cup {o}, rc |-> "NONE"], [sw |-> x, rc |-> "FAILED"]}

\* example_vlan_port_add returns before the port is added when the VLAN
\* cannot be created, also when it cannot because it exists.
VlanPortAdd(x, side) ==
  {[sw |-> x, rc |-> IF <<"vlan", side>> \in x THEN "EXISTS" ELSE "FAILED"]}
  \cup IF <<"vlan", side>> \in x THEN {}
       ELSE Makes(x \cup {<<"vlan", side>>}, <<"member", side>>)

\* example_create_l3_intf goes on after EXISTS.
CreateL3Intf(x, side) ==
  UNION {IF v.rc = "FAILED" THEN {v} ELSE Makes(v.sw, <<"intf", side>>) :
           v \in VlanPortAdd(x, side)}

\* Seeded fault: failures are logged and the set-up goes on.
ConfigureRegardless(step, outcomes) ==
  /\ pc = step
  /\ \E o \in outcomes : sw' = o.sw
  /\ pc' = Follows[step]

\* Each step returns from configure_test_environment when it fails; neither
\* bcm_application_init nor main looks at the result.
Configure(step, outcomes) ==
  /\ pc = step
  /\ \E o \in outcomes :
       /\ sw' = o.sw
       /\ pc' = IF o.rc = "NONE" THEN Follows[step] ELSE "group"
-----------------------------------------------------------------------------
InitOpenNsl ==
  /\ pc = "driver"
  /\ pc' \in {"stat", "exited"}
  /\ UNCHANGED <<sw, l3egid, fp_mon_stats_grps, bound, preset>>

\* bcm_application_init: without port statistics there is no set-up.
StatInit ==
  /\ pc = "stat"
  /\ pc' \in {"mode", "group"}
  /\ UNCHANGED <<sw, l3egid, fp_mon_stats_grps, bound, preset>>

\* The interfaces and addresses of the test network.
ConfigureInterfaces ==
  /\ \/ Configure("mode", Makes(sw, <<"mode", "out">>))
     \/ Configure("intf_in", CreateL3Intf(sw, "in"))
     \/ Configure("intf_out", CreateL3Intf(sw, "out"))
     \/ Configure("l2_in", Makes(sw, <<"l2", "in">>))
     \/ Configure("l2_out", Makes(sw, <<"l2", "out">>))
  /\ UNCHANGED <<l3egid, fp_mon_stats_grps, bound, preset>>

\* example_create_l3_egress stores the new object's id only if there is one.
CreateL3Egress ==
  /\ Configure("l3_egress", Makes(sw, <<"egress", "out">>))
  /\ l3egid' = IF <<"egress", "out">> \in sw' THEN "out" ELSE l3egid
  /\ UNCHANGED <<fp_mon_stats_grps, bound, preset>>

\* The host and the two routes lead to the egress object l3egid.
ConfigureRoutes ==
  /\ \/ Configure("host", Makes(sw, <<"host", l3egid>>))
     \/ Configure("default", Makes(sw, <<"default", l3egid>>))
     \/ Configure("subnet", Makes(sw, <<"subnet", l3egid>>))
  /\ UNCHANGED <<l3egid, fp_mon_stats_grps, bound, preset>>

\* Seeded fault: the result is taken for the group.
CreateGroupFromResult ==
  /\ pc = "group"
  /\ \E rc \in {1, -1} : fp_mon_stats_grps' = rc
  /\ pc' = "sockets"
  /\ UNCHANGED <<sw, l3egid, bound, preset>>

\* mon_fp_stats_group_create returns true, or the negative code of either of
\* its calls; main exits if the result is zero.
CreateGroup ==
  /\ pc = "group"
  /\ \E made \in BOOLEAN, rc \in {1, -1} :
       /\ rc = 1 => made
       /\ fp_mon_stats_grps' = IF made THEN 0 ELSE -1
       /\ pc' = IF rc = 0 THEN "exited" ELSE "sockets"
  /\ UNCHANGED <<sw, l3egid, bound, preset>>

\* Without a publisher main returns; a REP socket that cannot be bound is
\* logged.
OpenSockets ==
  /\ pc = "sockets"
  /\ \/ pc' = "exited" /\ UNCHANGED bound
     \/ pc' = "serving" /\ bound' \in BOOLEAN
  /\ UNCHANGED <<sw, l3egid, fp_mon_stats_grps, preset>>

StartupNext ==
  \/ InitOpenNsl
  \/ StatInit
  \/ ConfigureInterfaces
  \/ CreateL3Egress
  \/ ConfigureRoutes
  \/ CreateGroup
  \/ OpenSockets
-----------------------------------------------------------------------------
(***************************************************************************)
(* Properties.                                                             *)
(***************************************************************************)

\* What an object in the switch refers to or must be preceded by.  "With
\* ALPM enabled, switch expects a default route to be installed before".
Needs(o) ==
  CASE o[1] \in {"member", "l2"} -> {<<"vlan", o[2]>>}
    [] o[1] = "intf" -> {"vlan", IF o[2] \in preset THEN "vlan" ELSE "member"}
                          \X {o[2]}
    [] o[1] = "egress" -> {<<"mode", "out">>, <<"intf", o[2]>>}
    [] o[1] \in {"host", "default"} -> {<<"egress", o[2]>>}
    [] o[1] = "subnet" -> {<<"egress", o[2]>>, <<"default", o[2]>>}
    [] OTHER -> {}

\* Wherever the set-up breaks off, nothing in the switch refers to an object
\* that was not made, or to the uninitialised id of one; and the port of a
\* router interface is in its VLAN, unless that VLAN was there before.
Anchored == \A o \in sw : Needs(o) \subseteq sw

=============================================================================
