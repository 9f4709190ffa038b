---------------------------- MODULE StartupProofs ----------------------------
(***************************************************************************)
(* Proofs that a start-up keeps its types and that it leaves nothing       *)
(* dangling in the switch, wherever the routing set-up breaks off.  The    *)
(* steps refer to each other by what they leave behind; Laid says what     *)
(* each of them finds.                                                     *)
(***************************************************************************)
EXTENDS Startup, TLAPS

\* Anchored, of any state x of the switch.
AnchoredIn(x) == \A o \in x : Needs(o) \subseteq x

\* The steps from p on, in the order of configure_test_environment.
From2 == {"l2_in", "l2_out", "l3_egress", "host", "default", "subnet"}
From1 == {"intf_out"} \cup From2
From0 == {"intf_in"} \cup From1

\* What the steps before pc have left in the switch.
Laid ==
  /\ pc \in From0 => <<"mode", "out">> \in sw
  /\ pc \in From1 => <<"vlan", "in">> \in sw
  /\ pc \in From2 => <<"vlan", "out">> \in sw /\ <<"intf", "out">> \in sw
  /\ pc \in {"host", "default", "subnet"} =>
       l3egid = "out" /\ <<"egress", "out">> \in sw
  /\ pc = "subnet" => <<"default", "out">> \in sw

\* A VLAN that is there before its step was there from the start.
Fresh ==
  /\ pc \in {"driver", "stat", "mode", "intf_in"} =>
       (<<"vlan", "in">> \in sw => "in" \in preset)
  /\ pc \in {"driver", "stat", "mode", "intf_in", "intf_out"} =>
       (<<"vlan", "out">> \in sw => "out" \in preset)

StartupInv == StartupTypeOK /\ Anchored /\ Laid /\ Fresh
-----------------------------------------------------------------------------
\* What a switch without dangling objects accepts: an object all of whose
\* needs it has.
LEMMA AddAnchored ==
  ASSUME NEW x, NEW o, AnchoredIn(x), Needs(o) \subseteq x
  PROVE  AnchoredIn(x \cup {o})
BY DEF AnchoredIn

\* The outcomes of a single call.
LEMMA MakesOutcome ==
  ASSUME NEW x, NEW o, NEW m \in Makes(x, o), AnchoredIn(x),
         Needs(o) \subseteq x
  PROVE  /\ AnchoredIn(m.sw)
         /\ m.sw = x \/ m.sw = x \cup {o}
         /\ m.rc = "NONE" => m.sw = x \cup {o}
         /\ m.rc \in {"NONE", "FAILED"}
BY AddAnchored DEF Makes

\* What an outcome of the work on one side's interface adds to x.
Parts(s) == {<<"vlan", s>>, <<"member", s>>, <<"intf", s>>}

\* A VLAN that exists is accepted without its port; one that is made gets it.
LEMMA VlanPortOutcome ==
  ASSUME NEW x, NEW s \in Side, NEW v \in VlanPortAdd(x, s), AnchoredIn(x),
         <<"vlan", s>> \in x => s \in preset
  PROVE  /\ AnchoredIn(v.sw)
         /\ x \subseteq v.sw /\ v.sw \subseteq x \cup Parts(s)
         /\ v.rc \in {"NONE", "EXISTS", "FAILED"}
         /\ v.rc # "FAILED" => Needs(<<"intf", s>>) \subseteq v.sw
<1> DEFINE o == <<"vlan", s>>
           p == <<"member", s>>
<1>1. Needs(o) = {} /\ Needs(p) = {o}
  BY DEF Needs
<1>2. Needs(<<"intf", s>>) = {IF s \in preset THEN o ELSE p} \cup {o}
  BY DEF Needs
<1>3. CASE v = [sw |-> x, rc |-> IF o \in x THEN "EXISTS" ELSE "FAILED"]
  BY <1>2, <1>3 DEF Parts
<1>4. CASE o \notin x /\ v \in Makes(x \cup {o}, p)
  <2>1. AnchoredIn(x \cup {o})
    BY <1>1, AddAnchored
  <2>2. Needs(p) \subseteq x \cup {o}
    BY <1>1
  <2>3. /\ AnchoredIn(v.sw)
        /\ v.sw = x \cup {o} \/ v.sw = (x \cup {o}) \cup {p}
        /\ v.rc = "NONE" => v.sw = (x \cup {o}) \cup {p}
        /\ v.rc \in {"NONE", "FAILED"}
    BY <1>4, <2>1, <2>2, MakesOutcome
  <2> QED
    BY <2>3, <1>2 DEF Parts
<1> QED
  BY <1>3, <1>4 DEF VlanPortAdd

\* The interface of a side is made in its VLAN, or the step has failed.
LEMMA IntfOutcome ==
  ASSUME NEW x, NEW s \in Side, NEW v \in CreateL3Intf(x, s), AnchoredIn(x),
         <<"vlan", s>> \in x => s \in preset
  PROVE  /\ AnchoredIn(v.sw)
         /\ x \subseteq v.sw /\ v.sw \subseteq x \cup Parts(s)
         /\ v.rc = "NONE" => <<"vlan", s>> \in v.sw /\ <<"intf", s>> \in v.sw
<1>1. PICK w \in VlanPortAdd(x, s) :
        v \in IF w.rc = "FAILED" THEN {w} ELSE Makes(w.sw, <<"intf", s>>)
  BY DEF CreateL3Intf
<1>2. /\ AnchoredIn(w.sw)
      /\ x \subseteq w.sw /\ w.sw \subseteq x \cup Parts(s)
      /\ w.rc \in {"NONE", "EXISTS", "FAILED"}
      /\ w.rc # "FAILED" => Needs(<<"intf", s>>) \subseteq w.sw
  BY VlanPortOutcome
<1>3. CASE w.rc = "FAILED"
  BY <1>1, <1>2, <1>3
<1>4. CASE w.rc # "FAILED"
  <2>1. /\ AnchoredIn(v.sw)
        /\ v.sw = w.sw \/ v.sw = w.sw \cup {<<"intf", s>>}
        /\ v.rc = "NONE" => v.sw = w.sw \cup {<<"intf", s>>}
    BY <1>1, <1>2, <1>4, MakesOutcome
  <2>2. <<"vlan", s>> \in Needs(<<"intf", s>>)
    BY DEF Needs
  <2> QED
    BY <1>2, <1>4, <2>1, <2>2 DEF Parts
<1> QED
  BY <1>3, <1>4
-----------------------------------------------------------------------------
\* The switch is set up from a state without dangling objects.
LEMMA StartupInitInv == StartupInit => StartupInv
<1> SUFFICES ASSUME StartupInit PROVE StartupInv
  OBVIOUS
<1>1. StartupTypeOK
  BY PresetAssumption DEF StartupInit, StartupTypeOK, Step, Object
<1>2. Anchored
  BY DEF StartupInit, Anchored, Needs
<1>3. Laid
  BY DEF StartupInit, Laid, From0, From1, From2
<1>4. Fresh
  BY DEF StartupInit, Fresh
<1> QED
  BY <1>1, <1>2, <1>3, <1>4 DEF StartupInv

\* The step that follows in configure_test_environment, or the group.
LEMMA StepAfter ==
  ASSUME NEW p \in DOMAIN Follows
  PROVE  Follows[p] \in Step
BY DEF Follows, Step

\* Needs depends on nothing that moves.
LEMMA AnchoredNext ==
  ASSUME preset' = preset, AnchoredIn(sw')
  PROVE  Anchored'
<1>1. ASSUME NEW o PROVE Needs(o)' = Needs(o)
  BY DEF Needs
<1> QED
  BY <1>1 DEF Anchored, AnchoredIn

\* A step that leaves the switch alone and lays nothing for a later one.
LEMMA QuietStep ==
  ASSUME StartupInv, UNCHANGED <<sw, l3egid, preset>>, pc' \in Step,
         fp_mon_stats_grps' \in {-1, 0}, bound' \in BOOLEAN,
         \/ pc' = pc
         \/ pc' \notin From0 /\ (pc' = "mode" => pc \in {"driver", "stat"})
                             /\ (pc' = "stat" => pc = "driver")
                             /\ pc' # "driver"
  PROVE  StartupInv'
<1> USE DEF StartupInv
<1>1. StartupTypeOK'
  BY DEF StartupTypeOK
<1>2. Anchored'
  BY AnchoredNext DEF Anchored, AnchoredIn
<1>3. Laid'
  BY DEF Laid, From0, From1, From2
<1>4. Fresh'
  BY DEF Fresh, From0, From1, From2
<1> QED
  BY <1>1, <1>2, <1>3, <1>4

\* A single call of the set-up: it makes o, all of whose needs are there.
LEMMA MakingStep ==
  ASSUME NEW p \in DOMAIN Follows, NEW o \in Object, StartupInv,
         Configure(p, Makes(sw, o)), Needs(o) \subseteq sw, o[1] # "vlan",
         UNCHANGED <<fp_mon_stats_grps, bound, preset>>,
         l3egid' \in Side \cup {"stray"}
  PROVE  /\ StartupTypeOK' /\ Anchored' /\ sw \subseteq sw'
         /\ \A s \in Side : <<"vlan", s>> \in sw' => <<"vlan", s>> \in sw
         /\ pc = p
         /\ pc' = "group" \/ (pc' = Follows[p] /\ o \in sw')
<1>1. PICK v \in Makes(sw, o) :
        sw' = v.sw /\ pc' = IF v.rc = "NONE" THEN Follows[p] ELSE "group"
  BY DEF Configure
<1>2. AnchoredIn(sw)
  BY DEF StartupInv, Anchored, AnchoredIn
<1>3. /\ AnchoredIn(v.sw)
      /\ v.sw = sw \/ v.sw = sw \cup {o}
      /\ v.rc = "NONE" => v.sw = sw \cup {o}
      /\ v.rc \in {"NONE", "FAILED"}
  BY <1>2, MakesOutcome
<1>4. Anchored'
  BY <1>1, <1>3, AnchoredNext
<1>5. pc' \in Step
  BY <1>1, StepAfter DEF Step
<1>6. StartupTypeOK'
  BY <1>1, <1>3, <1>5 DEF StartupInv, StartupTypeOK
<1>7. \A s \in Side : <<"vlan", s>> # o
  OBVIOUS
<1>8. \A s \in Side : <<"vlan", s>> \in sw' => <<"vlan", s>> \in sw
  <2>1. sw' = sw \/ sw' = sw \cup {o}
    BY <1>1, <1>3
  <2> QED
    BY <2>1, <1>7
<1>9. pc = p /\ sw \subseteq sw'
  BY <1>1, <1>3 DEF Configure
<1>10. pc' = "group" \/ (pc' = Follows[p] /\ o \in sw')
  BY <1>1, <1>3
<1> QED
  BY <1>4, <1>6, <1>8, <1>9, <1>10

\* The set-up of one side's interface.
LEMMA IntfStep ==
  ASSUME NEW p \in DOMAIN Follows, NEW s \in Side, StartupInv,
         Configure(p, CreateL3Intf(sw, s)), <<"vlan", s>> \in sw => s \in preset,
         UNCHANGED <<l3egid, fp_mon_stats_grps, bound, preset>>
  PROVE  /\ StartupTypeOK' /\ Anchored' /\ sw \subseteq sw'
         /\ sw' \subseteq sw \cup Parts(s)
         /\ pc = p
         /\ \/ pc' = "group"
            \/ pc' = Follows[p] /\ {<<"vlan", s>>, <<"intf", s>>} \subseteq sw'
<1>1. PICK v \in CreateL3Intf(sw, s) :
        sw' = v.sw /\ pc' = IF v.rc = "NONE" THEN Follows[p] ELSE "group"
  BY DEF Configure
<1>2. AnchoredIn(sw)
  BY DEF StartupInv, Anchored, AnchoredIn
<1>3. /\ AnchoredIn(v.sw)
      /\ sw \subseteq v.sw /\ v.sw \subseteq sw \cup Parts(s)
      /\ v.rc = "NONE" => <<"vlan", s>> \in v.sw /\ <<"intf", s>> \in v.sw
  BY <1>2, IntfOutcome
<1>4. Anchored'
  BY <1>1, <1>3, AnchoredNext
<1>5. pc' \in Step
  BY <1>1, StepAfter DEF Step
<1>6. Parts(s) \subseteq Object
  BY DEF Parts, Object
<1>7. StartupTypeOK'
  BY <1>1, <1>3, <1>5, <1>6 DEF StartupInv, StartupTypeOK
<1> QED
  BY <1>1, <1>3, <1>4, <1>7 DEF Configure

\* The order of the steps.
LEMMA Order ==
  /\ DOMAIN Follows = From0 \cup {"mode"}
  /\ Follows["mode"] = "intf_in" /\ Follows["intf_in"] = "intf_out"
  /\ Follows["intf_out"] = "l2_in" /\ Follows["l2_in"] = "l2_out"
  /\ Follows["l2_out"] = "l3_egress" /\ Follows["l3_egress"] = "host"
  /\ Follows["host"] = "default" /\ Follows["default"] = "subnet"
  /\ Follows["subnet"] = "group"
BY DEF Follows, From0, From1, From2

\* What the objects of the set-up need.
LEMMA NeedsOf ==
  /\ Needs(<<"mode", "out">>) = {}
  /\ \A s \in Side : Needs(<<"l2", s>>) = {<<"vlan", s>>}
  /\ Needs(<<"egress", "out">>) = {<<"mode", "out">>, <<"intf", "out">>}
  /\ Needs(<<"host", "out">>) = {<<"egress", "out">>}
  /\ Needs(<<"default", "out">>) = {<<"egress", "out">>}
  /\ Needs(<<"subnet", "out">>) = {<<"egress", "out">>, <<"default", "out">>}
BY DEF Needs

LEMMA InterfacesStep == StartupInv /\ ConfigureInterfaces => StartupInv'
<1> SUFFICES ASSUME StartupInv, ConfigureInterfaces PROVE StartupInv'
  OBVIOUS
<1>0. /\ l3egid' = l3egid /\ fp_mon_stats_grps' = fp_mon_stats_grps
      /\ bound' = bound /\ preset' = preset /\ l3egid \in Side \cup {"stray"}
  BY DEF ConfigureInterfaces, StartupInv, StartupTypeOK
<1>1. CASE Configure("mode", Makes(sw, <<"mode", "out">>))
  <2>1. <<"mode", "out">> \in Object /\ "mode" \in DOMAIN Follows
    BY Order DEF Object, Side
  <2>2. /\ StartupTypeOK' /\ Anchored' /\ sw \subseteq sw'
        /\ \A s \in Side : <<"vlan", s>> \in sw' => <<"vlan", s>> \in sw
        /\ pc = "mode"
        /\ pc' = "group" \/ (pc' = "intf_in" /\ <<"mode", "out">> \in sw')
    BY <1>0, <1>1, <2>1, NeedsOf, MakingStep, Order
  <2>3. Laid'
    BY <1>0, <2>2 DEF StartupInv, Laid, From0, From1, From2
  <2>4. Fresh'
    BY <1>0, <2>2 DEF StartupInv, Fresh, Side
  <2> QED
    BY <2>2, <2>3, <2>4 DEF StartupInv
<1>2. CASE Configure("intf_in", CreateL3Intf(sw, "in"))
  <2>1. "intf_in" \in DOMAIN Follows /\ "in" \in Side
    BY Order DEF Side, From0
  <2>2. pc = "intf_in" /\ (<<"vlan", "in">> \in sw => "in" \in preset)
    BY <1>2 DEF Configure, StartupInv, Fresh
  <2>3. /\ StartupTypeOK' /\ Anchored' /\ sw \subseteq sw'
        /\ sw' \subseteq sw \cup Parts("in")
        /\ \/ pc' = "group"
           \/ pc' = "intf_out" /\ {<<"vlan", "in">>, <<"intf", "in">>} \subseteq sw'
    BY <1>0, <1>2, <2>1, <2>2, IntfStep, Order
  <2>4. Laid'
    BY <1>0, <2>2, <2>3 DEF StartupInv, Laid, From0, From1, From2
  <2>5. Fresh'
    BY <1>0, <2>2, <2>3 DEF StartupInv, Fresh, Parts
  <2> QED
    BY <2>3, <2>4, <2>5 DEF StartupInv
<1>3. CASE Configure("intf_out", CreateL3Intf(sw, "out"))
  <2>1. "intf_out" \in DOMAIN Follows /\ "out" \in Side
    BY Order DEF Side, From0, From1
  <2>2. pc = "intf_out" /\ (<<"vlan", "out">> \in sw => "out" \in preset)
    BY <1>3 DEF Configure, StartupInv, Fresh
  <2>3. /\ StartupTypeOK' /\ Anchored' /\ sw \subseteq sw'
        /\ \/ pc' = "group"
           \/ pc' = "l2_in" /\ {<<"vlan", "out">>, <<"intf", "out">>} \subseteq sw'
    BY <1>0, <1>3, <2>1, <2>2, IntfStep, Order
  <2>4. Laid'
    BY <1>0, <2>2, <2>3 DEF StartupInv, Laid, From0, From1, From2
  <2>5. Fresh'
    BY <1>0, <2>3 DEF Fresh
  <2> QED
    BY <2>3, <2>4, <2>5 DEF StartupInv
<1>4. ASSUME NEW s \in Side, NEW p \in {"l2_in", "l2_out"},
             s = (IF p = "l2_in" THEN "in" ELSE "out"),
             Configure(p, Makes(sw, <<"l2", s>>))
      PROVE  StartupInv'
  <2>1. <<"l2", s>> \in Object /\ p \in DOMAIN Follows
    BY Order DEF Object, From0, From1, From2
  <2>2. pc = p
    BY <1>4 DEF Configure
  <2>3. Needs(<<"l2", s>>) \subseteq sw
    BY <1>4, <2>2, NeedsOf DEF StartupInv, Laid, From0, From1, From2
  <2>4. /\ StartupTypeOK' /\ Anchored' /\ sw \subseteq sw'
        /\ pc' = "group" \/ pc' = Follows[p]
    BY <1>0, <1>4, <2>1, <2>3, MakingStep
  <2>5. Follows[p] \in {"l2_out", "l3_egress"}
    BY Order
  <2>6. Laid'
    BY <1>0, <2>2, <2>4, <2>5 DEF StartupInv, Laid, From0, From1, From2
  <2>7. Fresh'
    BY <1>0, <2>4, <2>5 DEF Fresh
  <2> QED
    BY <2>4, <2>6, <2>7 DEF StartupInv
<1> QED
  BY <1>1, <1>2, <1>3, <1>4 DEF ConfigureInterfaces, Side

\* The id the routes lead to is the egress object's.
LEMMA EgressStep == StartupInv /\ CreateL3Egress => StartupInv'
<1> SUFFICES ASSUME StartupInv, CreateL3Egress PROVE StartupInv'
  OBVIOUS
<1> DEFINE o == <<"egress", "out">>
<1>0. /\ fp_mon_stats_grps' = fp_mon_stats_grps
      /\ bound' = bound /\ preset' = preset
      /\ Configure("l3_egress", Makes(sw, o))
      /\ l3egid' = IF o \in sw' THEN "out" ELSE l3egid
      /\ l3egid' \in Side \cup {"stray"}
  BY DEF CreateL3Egress, StartupInv, StartupTypeOK, Side
<1>1. o \in Object /\ "l3_egress" \in DOMAIN Follows
  BY Order DEF Object, Side, From0, From1, From2
<1>2. pc = "l3_egress"
  BY <1>0 DEF Configure
<1>3. Needs(o) \subseteq sw
  BY <1>2, NeedsOf DEF StartupInv, Laid, From0, From1, From2
<1>4. /\ StartupTypeOK' /\ Anchored' /\ sw \subseteq sw'
      /\ pc' = "group" \/ (pc' = "host" /\ o \in sw')
  BY <1>0, <1>1, <1>3, MakingStep, Order
<1>5. Laid'
  BY <1>0, <1>2, <1>4 DEF StartupInv, Laid, From0, From1, From2
<1>6. Fresh'
  BY <1>4 DEF Fresh
<1> QED
  BY <1>4, <1>5, <1>6 DEF StartupInv

\* A host or a route is added only once there is an object it leads to.
LEMMA RoutesStep == StartupInv /\ ConfigureRoutes => StartupInv'
<1> SUFFICES ASSUME StartupInv, ConfigureRoutes PROVE StartupInv'
  OBVIOUS
<1>0. /\ l3egid' = l3egid /\ fp_mon_stats_grps' = fp_mon_stats_grps
      /\ bound' = bound /\ preset' = preset /\ l3egid \in Side \cup {"stray"}
  BY DEF ConfigureRoutes, StartupInv, StartupTypeOK
<1>1. PICK p \in {"host", "default", "subnet"} :
        Configure(p, Makes(sw, <<p, l3egid>>))
  BY DEF ConfigureRoutes
<1>2. pc = p
  BY <1>1 DEF Configure
<1>3. l3egid = "out" /\ <<"egress", "out">> \in sw
  BY <1>2 DEF StartupInv, Laid
<1>4. <<p, "out">> \in Object /\ p \in DOMAIN Follows
  BY Order DEF Object, Side, From0, From1, From2
<1>5. Needs(<<p, "out">>) \subseteq sw
  BY <1>2, <1>3, NeedsOf DEF StartupInv, Laid
<1>6. /\ StartupTypeOK' /\ Anchored' /\ sw \subseteq sw'
      /\ pc' = "group" \/ (pc' = Follows[p] /\ <<p, "out">> \in sw')
  <2>1. Configure(p, Makes(sw, <<p, "out">>))
    BY <1>1, <1>3
  <2> QED
    BY <1>0, <1>4, <1>5, <2>1, MakingStep
<1>7. Follows[p] = CASE p = "host" -> "default" [] p = "default" -> "subnet"
                     [] p = "subnet" -> "group"
  BY Order
<1>8. pc' \in {"group", "default", "subnet"} /\ (pc' = "subnet" => p = "default")
  BY <1>6, <1>7
<1>9. Laid'
  BY <1>0, <1>2, <1>3, <1>6, <1>8 DEF StartupInv, Laid, From0, From1, From2
<1>10. Fresh'
  BY <1>8 DEF Fresh
<1> QED
  BY <1>6, <1>9, <1>10 DEF StartupInv

\* Every step of main before the reactor keeps the invariant.
LEMMA StartupStep == StartupInv /\ [StartupNext]_startupVars => StartupInv'
<1> SUFFICES ASSUME StartupInv, [StartupNext]_startupVars PROVE StartupInv'
  OBVIOUS
<1>0. /\ pc \in Step /\ fp_mon_stats_grps \in {-1, 0} /\ bound \in BOOLEAN
  BY DEF StartupInv, StartupTypeOK
<1>1. CASE InitOpenNsl
  BY <1>0, <1>1, QuietStep DEF InitOpenNsl, Step, From0, From1, From2
<1>2. CASE StatInit
  <2>1. CASE pc' = "mode"
    BY <1>0, <1>2, <2>1, QuietStep DEF StatInit, Step, Follows, From0, From1, From2
  <2>2. CASE pc' = "group"
    BY <1>0, <1>2, <2>2, QuietStep DEF StatInit, Step, From0, From1, From2
  <2> QED
    BY <1>2, <2>1, <2>2 DEF StatInit
<1>3. CASE ConfigureInterfaces
  BY <1>3, InterfacesStep
<1>4. CASE CreateL3Egress
  BY <1>4, EgressStep
<1>5. CASE ConfigureRoutes
  BY <1>5, RoutesStep
<1>6. CASE CreateGroup
  <2>1. fp_mon_stats_grps' \in {-1, 0} /\ pc' \in {"exited", "sockets"}
    BY <1>6 DEF CreateGroup
  <2> QED
    BY <1>0, <1>6, <2>1, QuietStep DEF CreateGroup, Step, From0, From1, From2
<1>7. CASE OpenSockets
  <2>1. bound' \in BOOLEAN /\ pc' \in {"exited", "serving"}
    BY <1>0, <1>7 DEF OpenSockets
  <2> QED
    BY <1>0, <1>7, <2>1, QuietStep DEF OpenSockets, Step, From0, From1, From2
<1>8. CASE UNCHANGED startupVars
  BY <1>0, <1>8, QuietStep DEF startupVars
<1> QED
  BY <1>1, <1>2, <1>3, <1>4, <1>5, <1>6, <1>7, <1>8 DEF StartupNext
=============================================================================
