------------------------ MODULE FlowEntriesExactProofs ------------------------
(***************************************************************************)
(* Proofs about FlowEntries on a switch that may only refuse to create an  *)
(* entry, with the code the daemon looks for: the flows in the switch are  *)
(* exactly those of the agents' current rows.                              *)
(***************************************************************************)
EXTENDS FlowEntriesProofs

\* The only failure is an entry that is refused with -1.
OnlyRefused == Failing \subseteq {"create"} /\ ErrorCode \subseteq {-1}

\* What the entry e of agent h looks like once the flow f is installed and
\* counted by s.
Installed(h, f, s) == [owner |-> h, flow |-> f, stat |-> s, installed |-> TRUE]

Created(h, f) == [owner |-> h, flow |-> f, stat |-> 0, installed |-> FALSE]

Counted(u, s) == [u EXCEPT !.stat = s, !.installed = TRUE]

\* In x, agent h holds an entry e for the flow f counted by s, and no other;
\* or nothing, if f is no flow.
Holds(x, h, f, e, s) ==
  /\ f = NoFlow => e = 0 /\ s = 0
  /\ f # NoFlow => e \in EntryId /\ s \in x.stats /\ x.entry[e] = Installed(h, f, s)
  /\ \A d \in EntryId : x.entry[d].owner = h => d = e

\* In x there is what the agents in A hold, and nothing else.
Tidy(x, A) ==
  /\ \A g \in A : Holds(x, g, CurrentRow(g).flow, flow_entry_id[g], stat_id[g])
  /\ \A e \in EntryId : x.entry[e].owner \in A \cup {Nobody}
  /\ \A s \in x.stats : \E g \in A : stat_id[g] = s

\* y is x with a new entry e and a new statistics object s of agent h.
Grown(x, y, h, f, e, s) ==
  /\ e \in Free(x) /\ s \in StatId \ x.stats
  /\ y = [entry |-> [x.entry EXCEPT ![e] = Installed(h, f, s)],
          stats |-> x.stats \cup {s}]

\* y is x without the entry e and the statistics object s.
Shrunk(x, y, e, s) ==
  y = [entry |-> [x.entry EXCEPT ![e] = Blank], stats |-> x.stats \ {s}]
-----------------------------------------------------------------------------
(***************************************************************************)
(* What the functions of the daemon do, exactly.                           *)
(***************************************************************************)

LEMMA NothingElseFails ==
  ASSUME OnlyRefused, NEW op \in Operation \ {"create"}, NEW outcomes
  PROVE  IfFails(op, outcomes) = {}
BY DEF OnlyRefused, IfFails

\* mon_fp_stats_feature_entry_create makes an entry, or is refused.
LEMMA EntryCreateExact ==
  ASSUME OnlyRefused, NEW x, x \in Hw, NEW h, NEW f,
         NEW c \in EntryCreate(x, h, f)
  PROVE  \/ c.hw = x /\ c.rc = -1
         \/ /\ c.rc \in Free(x) /\ c.rc # -1
            /\ c.hw = [entry |-> [x.entry EXCEPT ![c.rc] = Created(h, f)], stats |-> x.stats]
<1>1. IfFails("qualify", {[hw |-> FieldEntryCreate(x, e, h, f), rc |-> k] :
                            e \in Free(x), k \in ErrorCode}) = {}
  BY NothingElseFails DEF Operation
<1>2. \/ c \in {[hw |-> FieldEntryCreate(x, e, h, f), rc |-> e] : e \in Free(x)}
      \/ c \in {[hw |-> x, rc |-> k] : k \in ErrorCode}
  BY <1>1 DEF EntryCreate, IfFails
<1>3. CASE c \in {[hw |-> x, rc |-> k] : k \in ErrorCode}
  BY <1>3 DEF OnlyRefused
<1>4. CASE c \in {[hw |-> FieldEntryCreate(x, e, h, f), rc |-> e] : e \in Free(x)}
  <2>1. PICK e \in Free(x) : c = [hw |-> FieldEntryCreate(x, e, h, f), rc |-> e]
    BY <1>4
  <2>2. c.rc = e /\ c.hw = FieldEntryCreate(x, e, h, f)
    BY <2>1
  <2>3. e # -1
    BY ConstantsAssumption DEF Free
  <2> QED
    BY <2>2, <2>3 DEF FieldEntryCreate, Hw, Created
<1> QED
  BY <1>2, <1>3, <1>4

LEMMA AttachExact ==
  ASSUME NEW x, x \in Hw, NEW e \in EntryId, NEW s,
         NEW d, d = [x.entry[e] EXCEPT !.stat = s],
         NEW y, y = FieldEntryStatAttach(x, e, s)
  PROVE  y = [entry |-> [x.entry EXCEPT ![e] = d], stats |-> x.stats]
BY DEF FieldEntryStatAttach, Hw

LEMMA InstallExact ==
  ASSUME NEW x, x \in Hw, NEW e \in EntryId,
         NEW d, d = [x.entry[e] EXCEPT !.installed = TRUE],
         NEW y, y = FieldEntryInstall(x, e)
  PROVE  y = [entry |-> [x.entry EXCEPT ![e] = d], stats |-> x.stats]
BY DEF FieldEntryInstall, Hw

\* mon_fp_feature_stat_attach_entry_install succeeds on an entry.
LEMMA StatAttachInstallExact ==
  ASSUME OnlyRefused, NEW x, x \in Hw, NEW e \in EntryId,
         NEW d \in StatAttachInstall(x, e)
  PROVE  /\ d.rc \in StatId \ x.stats
         /\ d.hw = [entry |-> [x.entry EXCEPT ![e] = Counted(x.entry[e], d.rc)],
                    stats |-> x.stats \cup {d.rc}]
<1> DEFINE made(s) == FieldStatCreate(x, s)
           attached(s) == FieldEntryStatAttach(made(s), e, s)
<1>1. /\ \A s : IfFails("attach", {[hw |-> made(s), rc |-> -1]}) = {}
      /\ \A s : IfFails("install", {[hw |-> attached(s), rc |-> -1]}) = {}
      /\ IfFails("stat_create", {[hw |-> x, rc |-> -1]}) = {}
  BY NothingElseFails DEF Operation
<1> HIDE DEF made, attached
<1>2. \E s \in StatId \ x.stats : d = [hw |-> FieldEntryInstall(attached(s), e), rc |-> s]
  BY <1>1 DEF StatAttachInstall, made, attached
<1>3. PICK s \in StatId \ x.stats : d = [hw |-> FieldEntryInstall(attached(s), e), rc |-> s]
  BY <1>2
<1>4. PICK m : m = made(s)
  OBVIOUS
<1>5. PICK a : a = FieldEntryStatAttach(m, e, s)
  OBVIOUS
<1>6. PICK y : y = FieldEntryInstall(a, e)
  OBVIOUS
<1>7. d.rc = s /\ d.hw = y
  BY <1>3, <1>4, <1>5, <1>6 DEF attached
<1>8. m = [entry |-> x.entry, stats |-> x.stats \cup {s}] /\ m \in Hw
  BY <1>4 DEF made, FieldStatCreate, Hw
<1>9. PICK u : u = [x.entry[e] EXCEPT !.stat = s]
  OBVIOUS
<1>16. PICK v : v = Counted(x.entry[e], s)
  OBVIOUS
<1>10. u \in Entry /\ [u EXCEPT !.installed = TRUE] = [x.entry[e] EXCEPT !.stat = s, !.installed = TRUE]
  BY <1>9 DEF Hw, Entry
<1>11. u \in Entry /\ v = [u EXCEPT !.installed = TRUE]
  BY <1>10, <1>16 DEF Counted
<1>12. a = [entry |-> [m.entry EXCEPT ![e] = u], stats |-> m.stats]
  BY <1>5, <1>8, <1>9, AttachExact
<1>13. a \in Hw /\ a.entry[e] = u
  BY <1>8, <1>11, <1>12 DEF Hw
<1>14. y = [entry |-> [a.entry EXCEPT ![e] = v], stats |-> a.stats]
  BY <1>6, <1>11, <1>13, InstallExact
<1>15. y = [entry |-> [x.entry EXCEPT ![e] = v], stats |-> x.stats \cup {s}]
  BY <1>8, <1>12, <1>14 DEF Hw
<1> QED
  BY <1>3, <1>7, <1>15, <1>16

\* start_flow_stats_state_machine installs the row's flow, if it has one, or
\* is refused and has done nothing.
LEMMA StartFlowExact ==
  ASSUME OnlyRefused, NEW x, Sound(x), NEW h \in Handle, NEW row \in Row,
         NEW entry, NEW stat, NEW o \in StartFlow(x, h, row, entry, stat)
  PROVE  \/ row.flow = NoFlow /\ o = [hw |-> x, entry |-> entry, stat |-> stat, rc |-> 0]
         \/ row.flow # NoFlow /\ o.rc = -1 /\ o.hw = x
         \/ /\ row.flow # NoFlow /\ o.rc = 0
            /\ Grown(x, o.hw, h, row.flow, o.entry, o.stat)
<1>1. CASE row.flow = NoFlow
  BY <1>1 DEF StartFlow
<1>2. CASE row.flow # NoFlow
  <2>1. row.flow \in Flow /\ x \in Hw
    BY <1>2 DEF Row, Sound
  <2>2. PICK c \in EntryCreate(x, h, row.flow) :
          \/ c.rc = -1 /\ o = [hw |-> c.hw, entry |-> entry, stat |-> stat, rc |-> -1]
          \/ /\ c.rc # -1
             /\ \E d \in StatAttachInstall(c.hw, c.rc) :
                  o = [hw |-> d.hw, entry |-> c.rc,
                       stat |-> IF d.rc = -1 THEN stat ELSE d.rc, rc |-> 0]
    BY <1>2 DEF StartFlow
  <2>3. \/ c.hw = x /\ c.rc = -1
        \/ /\ c.rc \in Free(x) /\ c.rc # -1
           /\ c.hw = [entry |-> [x.entry EXCEPT ![c.rc] = Created(h, row.flow)],
                      stats |-> x.stats]
    BY <2>1, EntryCreateExact
  <2>4. CASE c.rc = -1
    <3>1. c.hw = x
      BY <2>4, <2>3
    <3> QED
      BY <1>2, <2>2, <2>4, <3>1
  <2>5. CASE c.rc # -1
    <3>1. PICK b : b = Created(h, row.flow)
      OBVIOUS
    <3>2. PICK e : e = c.rc
      OBVIOUS
    <3>3. /\ e \in Free(x)
          /\ c.hw = [entry |-> [x.entry EXCEPT ![e] = b], stats |-> x.stats]
      BY <2>5, <2>3, <3>1, <3>2
    <3>4. b \in Entry /\ e \in EntryId
      BY <2>1, <3>1, <3>3 DEF Entry, Free, Created
    <3>5. c.hw \in Hw /\ c.hw.entry[e] = b /\ c.hw.stats = x.stats
      BY <2>1, <3>3, <3>4 DEF Hw
    <3>6. PICK d \in StatAttachInstall(c.hw, e) :
            o = [hw |-> d.hw, entry |-> e,
                 stat |-> IF d.rc = -1 THEN stat ELSE d.rc, rc |-> 0]
      BY <2>2, <2>5, <3>2
    <3>7. PICK v : v = Counted(b, d.rc)
      OBVIOUS
    <3>8. /\ d.rc \in StatId \ x.stats
          /\ d.hw = [entry |-> [c.hw.entry EXCEPT ![e] = v], stats |-> x.stats \cup {d.rc}]
      BY <3>4, <3>5, <3>6, <3>7, StatAttachInstallExact
    <3>9. d.rc # -1 /\ o.rc = 0 /\ o.hw = d.hw /\ o.entry = e /\ o.stat = d.rc
      BY <3>6, <3>8, Ids
    <3>10. v = Installed(h, row.flow, d.rc)
      BY <3>1, <3>7 DEF Counted, Created, Installed
    <3>11. d.hw = [entry |-> [x.entry EXCEPT ![e] = v], stats |-> x.stats \cup {d.rc}]
      BY <2>1, <3>3, <3>8 DEF Hw
    <3> QED
      BY <1>2, <3>3, <3>8, <3>9, <3>10, <3>11 DEF Grown
  <2> QED
    BY <2>4, <2>5
<1> QED
  BY <1>1, <1>2

\* mon_fp_stats_feature_entry_destroy removes an entry with its statistics
\* object; without an entry it does nothing.
LEMMA DestroyExact ==
  ASSUME OnlyRefused, NEW x, x \in Hw, NEW e, NEW s, NEW y \in Destroy(x, e, s)
  PROVE  /\ e \notin EntryId => y = x
         /\ e \in EntryId /\ s \in StatId /\ x.entry[e].stat = s => Shrunk(x, y, e, s)
<1>1. CASE e \notin EntryId
  BY <1>1 DEF Destroy
<1>2. CASE e \in EntryId /\ s \in StatId /\ x.entry[e].stat = s
  <2>1. PICK a : a = FieldEntryStatDetach(x, e)
    OBVIOUS
  <2>2. PICK b : b = FieldStatDestroy(a, s)
    OBVIOUS
  <2>3. /\ IfFails("detach", {x}) = {} /\ IfFails("stat_destroy", {a}) = {}
        /\ IfFails("destroy", {b}) = {}
    BY NothingElseFails DEF Operation
  <2>4. y = FieldEntryDestroy(b, e)
    BY <1>2, <2>1, <2>2, <2>3 DEF Destroy
  <2>5. PICK u : u = [x.entry[e] EXCEPT !.stat = 0]
    OBVIOUS
  <2>6. a = [entry |-> [x.entry EXCEPT ![e] = u], stats |-> x.stats]
    BY <1>2, <2>1, <2>5 DEF FieldEntryStatDetach, Hw
  <2>7. u \in Entry
    BY <1>2, <2>5 DEF Hw, Entry
  <2>8. a \in Hw
    BY <2>6, <2>7 DEF Hw
  <2>9. b = [entry |-> a.entry, stats |-> a.stats \ {s}] /\ b \in Hw
    BY <2>2, <2>8 DEF FieldStatDestroy, Hw
  <2>10. y = [entry |-> [b.entry EXCEPT ![e] = Blank], stats |-> b.stats]
    BY <1>2, <2>4, <2>9 DEF FieldEntryDestroy, Hw
  <2>11. [b.entry EXCEPT ![e] = Blank] = [x.entry EXCEPT ![e] = Blank]
    BY <2>6, <2>9 DEF Hw
  <2> QED
    BY <1>2, <2>6, <2>9, <2>10, <2>11 DEF Shrunk
<1> QED
  BY <1>1, <1>2
-----------------------------------------------------------------------------
(***************************************************************************)
(* The switch stays tidy.                                                  *)
(***************************************************************************)

\* Destroying the flow of h leaves what the other agents hold.
LEMMA DestroyTidy ==
  ASSUME OnlyRefused, Inv, Tidy(hw, agents), NEW h \in agents,
         NEW y \in Destroy(hw, flow_entry_id[h], stat_id[h])
  PROVE  Sound(y) /\ Tidy(y, agents \ {h})
<1> DEFINE e == flow_entry_id[h]
           s == stat_id[h]
           f == CurrentRow(h).flow
<1>1. Sound(hw) /\ hw \in Hw /\ h \in Handle /\ agents \subseteq Handle
  BY InvFacts DEF Sound
<1>2. Holds(hw, h, f, e, s)
  BY DEF Tidy
<1>3. Sound(y)
  BY <1>1, DestroySound
<1> HIDE DEF e, s, f
<1>4. y \in Destroy(hw, e, s)
  BY DEF e, s
<1>5. CASE f = NoFlow
  <2>1. e = 0 /\ s = 0 /\ 0 \notin EntryId /\ 0 \notin StatId
    BY <1>2, <1>5, Ids DEF Holds
  <2>2. y = hw
    BY <1>1, <1>4, <2>1, DestroyExact
  <2>3. \A d \in EntryId : hw.entry[d].owner # h
    BY <1>2, <2>1 DEF Holds
  <2>4. \A d \in EntryId : hw.entry[d].owner \in (agents \ {h}) \cup {Nobody}
    BY <2>3 DEF Tidy
  <2>5. \A t \in hw.stats : \E g \in agents \ {h} : stat_id[g] = t
    BY <1>1, <2>1 DEF Tidy, Hw, s
  <2> QED
    BY <1>3, <2>2, <2>4, <2>5 DEF Tidy
<1>6. CASE f # NoFlow
  <2>1. /\ e \in EntryId /\ s \in StatId /\ hw.entry[e] = Installed(h, f, s)
        /\ \A d \in EntryId : hw.entry[d].owner = h => d = e
    BY <1>1, <1>2, <1>6 DEF Holds, Hw
  <2>2. hw.entry[e].stat = s /\ hw.entry[e].owner = h
    BY <2>1 DEF Installed
  <2>3. Shrunk(hw, y, e, s)
    BY <1>1, <1>4, <2>1, <2>2, DestroyExact
  <2>4. /\ y.stats = hw.stats \ {s} /\ y.entry[e] = Blank
        /\ \A d \in EntryId \ {e} : y.entry[d] = hw.entry[d]
    BY <1>1, <2>1, <2>3 DEF Shrunk, Hw
  <2>5. Blank.owner = Nobody /\ Nobody \notin Handle
    BY Ids DEF Blank
  <2>6. ASSUME NEW g \in agents \ {h}
        PROVE  Holds(y, g, CurrentRow(g).flow, flow_entry_id[g], stat_id[g])
    <3>1. Holds(hw, g, CurrentRow(g).flow, flow_entry_id[g], stat_id[g])
      BY DEF Tidy
    <3>2. \A d \in EntryId : y.entry[d].owner = g => d = flow_entry_id[g]
      BY <1>1, <2>4, <2>5, <3>1 DEF Holds
    <3>3. CASE CurrentRow(g).flow = NoFlow
      BY <3>1, <3>2, <3>3 DEF Holds
    <3>4. CASE CurrentRow(g).flow # NoFlow
      <4> DEFINE d == flow_entry_id[g]
      <4>1. /\ d \in EntryId /\ stat_id[g] \in hw.stats
            /\ hw.entry[d] = Installed(g, CurrentRow(g).flow, stat_id[g])
        BY <3>1, <3>4 DEF Holds
      <4> HIDE DEF d
      <4>2. hw.entry[d].owner = g /\ hw.entry[d].stat = stat_id[g]
        BY <4>1 DEF Installed
      <4>3. d # e
        BY <2>2, <4>2
      <4>4. stat_id[g] # s
        BY <1>1, <2>1, <2>2, <4>1, <4>2, <4>3, Ids DEF Sound, AttachedOnce
      <4> QED
        BY <2>4, <3>2, <3>4, <4>1, <4>3, <4>4 DEF Holds, d
    <3> QED
      BY <3>3, <3>4
  <2>7. \A d \in EntryId : y.entry[d].owner \in (agents \ {h}) \cup {Nobody}
    BY <2>1, <2>4, <2>5 DEF Tidy
  <2>8. \A t \in y.stats : \E g \in agents \ {h} : stat_id[g] = t
    BY <2>4 DEF Tidy, s
  <2> QED
    BY <1>3, <2>6, <2>7, <2>8 DEF Tidy
<1> QED
  BY <1>5, <1>6

\* What h has after start_flow_stats_state_machine, and what the others keep.
LEMMA StartFlowTidy ==
  ASSUME OnlyRefused, NEW x, Sound(x), NEW A \in SUBSET Handle, Tidy(x, A),
         NEW h \in Handle \ A, NEW row \in Row,
         NEW entry, NEW stat, row.flow = NoFlow => entry = 0 /\ stat = 0,
         NEW o \in StartFlow(x, h, row, entry, stat)
  PROVE  /\ o.rc = -1 => o.hw = x
         /\ o.rc # -1 =>
              /\ Holds(o.hw, h, row.flow, o.entry, o.stat)
              /\ \A g \in A :
                   Holds(o.hw, g, CurrentRow(g).flow, flow_entry_id[g], stat_id[g])
              /\ \A e \in EntryId : o.hw.entry[e].owner \in A \cup {h, Nobody}
              /\ \A s \in o.hw.stats : s = o.stat \/ \E g \in A : stat_id[g] = s
<1>0. Nobody \notin Handle
  BY Ids
<1>1. CASE o.rc = -1
  BY <1>1, StartFlowExact
<1>2. CASE row.flow = NoFlow
  <2>1. o = [hw |-> x, entry |-> entry, stat |-> stat, rc |-> 0]
    BY <1>2, StartFlowExact
  <2>2. o.hw = x /\ o.entry = 0 /\ o.stat = 0
    BY <1>2, <2>1
  <2>3. \A d \in EntryId : x.entry[d].owner # h
    BY <1>0 DEF Tidy
  <2>4. o.rc = 0
    BY <2>1
  <2> QED
    BY <1>2, <2>2, <2>3, <2>4 DEF Tidy, Holds
<1>3. CASE row.flow # NoFlow /\ o.rc # -1
  <2> DEFINE e == o.entry
             s == o.stat
             y == o.hw
  <2>1. Grown(x, y, h, row.flow, e, s)
    BY <1>3, StartFlowExact
  <2> HIDE DEF e, s, y
  <2>2. /\ e \in EntryId /\ x.entry[e].owner = Nobody /\ s \in y.stats
        /\ y.entry[e] = Installed(h, row.flow, s)
        /\ \A d \in EntryId \ {e} : y.entry[d] = x.entry[d]
        /\ y.stats = x.stats \cup {s}
    BY <2>1 DEF Grown, Free, Sound, Hw
  <2>3. y.entry[e].owner = h
    BY <2>2 DEF Installed
  <2>4. \A d \in EntryId : x.entry[d].owner # h
    BY <1>0 DEF Tidy
  <2>5. Holds(y, h, row.flow, e, s)
    BY <1>3, <2>2, <2>4 DEF Holds
  <2>6. ASSUME NEW g \in A
        PROVE  Holds(y, g, CurrentRow(g).flow, flow_entry_id[g], stat_id[g])
    <3>1. Holds(x, g, CurrentRow(g).flow, flow_entry_id[g], stat_id[g])
      BY DEF Tidy
    <3>2. \A d \in EntryId : y.entry[d].owner = g => d = flow_entry_id[g]
      BY <2>2, <2>3, <3>1 DEF Holds
    <3>3. CASE CurrentRow(g).flow = NoFlow
      BY <3>1, <3>2, <3>3 DEF Holds
    <3>4. CASE CurrentRow(g).flow # NoFlow
      <4>1. /\ flow_entry_id[g] \in EntryId /\ stat_id[g] \in x.stats
            /\ x.entry[flow_entry_id[g]] = Installed(g, CurrentRow(g).flow, stat_id[g])
        BY <3>1, <3>4 DEF Holds
      <4>2. x.entry[flow_entry_id[g]].owner = g
        BY <4>1 DEF Installed
      <4>3. flow_entry_id[g] # e
        BY <1>0, <2>2, <4>2
      <4> QED
        BY <2>2, <3>2, <3>4, <4>1, <4>3 DEF Holds
    <3> QED
      BY <3>3, <3>4
  <2>7. \A d \in EntryId : y.entry[d].owner \in A \cup {h, Nobody}
    BY <2>2, <2>3 DEF Tidy
  <2>8. \A t \in y.stats : t = s \/ \E g \in A : stat_id[g] = t
    BY <2>2 DEF Tidy
  <2> QED
    BY <1>3, <2>5, <2>6, <2>7, <2>8 DEF e, s, y
<1> QED
  BY <1>1, <1>2, <1>3

\* Freeing the object of an agent that holds nothing.
LEMMA ForgetNothing ==
  ASSUME NEW x, Sound(x), NEW h, \A e \in EntryId : x.entry[e].owner # h
  PROVE  Forget(x, h) = x
<1>1. [e \in EntryId |-> IF x.entry[e].owner = h THEN [x.entry[e] EXCEPT !.owner = Leaked]
                         ELSE x.entry[e]] = x.entry
  BY DEF Sound, Hw
<1> QED
  BY <1>1 DEF Forget, Sound, Hw
-----------------------------------------------------------------------------
(***************************************************************************)
(* The steps of an agent.                                                  *)
(***************************************************************************)

\* The inductive invariant, on top of Inv: the switch holds the flows of the
\* current rows of the agents, and nothing else.
Neat == Tidy(hw, agents)

\* The fields of agents other than h stay as they are.
OtherFields(h) ==
  \A g \in agents \ {h} :
    /\ table'[g] = table[g] /\ current_state'[g] = current_state[g]
    /\ flow_entry_id'[g] = flow_entry_id[g] /\ stat_id'[g] = stat_id[g]

LEMMA OthersHold ==
  ASSUME NEW h, OtherFields(h), NEW x,
         \A g \in agents \ {h} : Holds(x, g, CurrentRow(g).flow, flow_entry_id[g], stat_id[g]),
         hw' = x, NEW g \in agents \ {h}
  PROVE  Holds(hw, g, CurrentRow(g).flow, flow_entry_id[g], stat_id[g])'
<1>1. CurrentRow(g)' = CurrentRow(g)
  BY DEF OtherFields, CurrentRow
<1>2. flow_entry_id'[g] = flow_entry_id[g] /\ stat_id'[g] = stat_id[g]
  BY DEF OtherFields
<1>3. Holds(x, g, CurrentRow(g).flow, flow_entry_id[g], stat_id[g])
  OBVIOUS
<1> QED
  BY <1>1, <1>2, <1>3 DEF Holds

\* h has gone, and with it all it held.
LEMMA LeaveTidy ==
  ASSUME Inv, NEW h \in Handle, NEW x, Sound(x), Tidy(x, agents \ {h}), Discard(h, x)
  PROVE  Neat'
<1>0. Nobody \notin Handle
  BY Ids
<1>1. hw' = x
  BY <1>0, ForgetNothing DEF Discard, Tidy
<1>2. agents' = agents \ {h} /\ OtherFields(h)
  BY DEF Discard, OtherFields, Inv, TypeOK
<1>3. \A g \in agents' : Holds(hw, g, CurrentRow(g).flow, flow_entry_id[g], stat_id[g])'
  BY <1>1, <1>2, OthersHold DEF Tidy
<1>4. /\ \A e \in EntryId : hw'.entry[e].owner \in agents' \cup {Nobody}
      /\ \A s \in hw'.stats : \E g \in agents' : stat_id'[g] = s
  BY <1>1, <1>2 DEF Tidy, OtherFields
<1> QED
  BY <1>3, <1>4 DEF Neat, Tidy

\* h has come, or moved, and holds what belongs to its row.
LEMMA HereTidy ==
  ASSUME NEW h, NEW x, OtherFields(h), agents' = (agents \ {h}) \cup {h}, hw' = x,
         Holds(x, h, CurrentRow(h)'.flow, flow_entry_id'[h], stat_id'[h]),
         \A g \in agents \ {h} : Holds(x, g, CurrentRow(g).flow, flow_entry_id[g], stat_id[g]),
         \A e \in EntryId : x.entry[e].owner \in (agents \ {h}) \cup {h, Nobody},
         \A s \in x.stats : s = stat_id'[h] \/ \E g \in agents \ {h} : stat_id[g] = s
  PROVE  Neat'
<1>1. \A g \in agents \ {h} : Holds(hw, g, CurrentRow(g).flow, flow_entry_id[g], stat_id[g])'
  BY OthersHold
<1>2. Holds(hw', h, CurrentRow(h)'.flow, flow_entry_id'[h], stat_id'[h])
  OBVIOUS
<1>3. /\ \A e \in EntryId : hw'.entry[e].owner \in agents' \cup {Nobody}
      /\ \A s \in hw'.stats : \E g \in agents' : stat_id'[g] = s
  BY DEF OtherFields
<1> QED
  BY <1>1, <1>2, <1>3 DEF Neat, Tidy

LEMMA MonHelloTidy ==
  ASSUME OnlyRefused, Inv, Neat, NEW h \in Handle, NEW t \in StoredTables, MonHello(h, t)
  PROVE  Neat'
<1>0. 1 \in 1..NoNextState
  BY DEF NoNextState
<1>1. /\ Sound(hw) /\ agents \in SUBSET Handle /\ h \in Handle \ agents
      /\ agents \ {h} = agents /\ RowOf(t, 1) \in Row
  BY <1>0, InvFacts, RowFound DEF MonHello
<1>2. PICK o \in StartFlow(hw, h, RowOf(t, 1), 0, 0) :
        \/ o.rc = -1 /\ Discard(h, o.hw)
        \/ /\ o.rc # -1
           /\ agents' = agents \cup {h}
           /\ table' = [table EXCEPT ![h] = t]
           /\ current_state' = [current_state EXCEPT ![h] = 1]
           /\ flow_entry_id' = [flow_entry_id EXCEPT ![h] = o.entry]
           /\ stat_id' = [stat_id EXCEPT ![h] = o.stat]
           /\ hw' = o.hw
  BY DEF MonHello
<1>3. /\ o.rc = -1 => o.hw = hw
      /\ o.rc # -1 =>
           /\ Holds(o.hw, h, RowOf(t, 1).flow, o.entry, o.stat)
           /\ \A g \in agents :
                Holds(o.hw, g, CurrentRow(g).flow, flow_entry_id[g], stat_id[g])
           /\ \A e \in EntryId : o.hw.entry[e].owner \in agents \cup {h, Nobody}
           /\ \A s \in o.hw.stats : s = o.stat \/ \E g \in agents : stat_id[g] = s
  BY <1>1, <1>2, StartFlowTidy DEF Neat
<1>4. CASE o.rc = -1
  BY <1>1, <1>2, <1>3, <1>4, LeaveTidy DEF Neat
<1>5. CASE o.rc # -1
  <2>1. OtherFields(h)
    BY <1>2, <1>5 DEF OtherFields, Inv, TypeOK
  <2>2. /\ table'[h] = t /\ current_state'[h] = 1
        /\ flow_entry_id'[h] = o.entry /\ stat_id'[h] = o.stat
    BY <1>2, <1>5 DEF Inv, TypeOK
  <2>3. CurrentRow(h)' = RowOf(t, 1)
    BY <2>2 DEF CurrentRow
  <2>4. agents' = (agents \ {h}) \cup {h} /\ hw' = o.hw
    BY <1>2, <1>5
  <2> QED
    BY <1>1, <1>3, <1>5, <2>1, <2>2, <2>3, <2>4, HereTidy
<1> QED
  BY <1>4, <1>5

LEMMA MonStopTidy ==
  ASSUME OnlyRefused, Inv, Neat, NEW h \in Handle, MonStop(h)
  PROVE  Neat'
<1>1. h \in agents
  BY DEF MonStop
<1>2. PICK y \in Destroy(hw, flow_entry_id[h], stat_id[h]) : Discard(h, y)
  BY DEF MonStop
<1>3. Sound(y) /\ Tidy(y, agents \ {h})
  BY <1>1, <1>2, DestroyTidy DEF Neat
<1> QED
  BY <1>2, <1>3, LeaveTidy

\* In a uniform table an agent moves to a row without a flow only from one,
\* and holds nothing then.
LEMMA GotoNextStateTidy ==
  ASSUME OnlyRefused, Uniform, Inv, Neat, NEW h \in Handle, GotoNextState(h)
  PROVE  Neat'
<1> DEFINE next == CurrentRow(h).next_state
           A == agents \ {h}
           row == RowOf(table[h], next)
<1>1. /\ h \in agents /\ agents \subseteq Handle /\ table[h] \in StoredTables
      /\ next \in 1..NoNextState /\ current_state[h] \in 1..NoNextState
  BY InvFacts DEF GotoNextState
<1>2. PICK y \in Destroy(hw, flow_entry_id[h], stat_id[h]) :
      \E o \in StartFlow(y, h, RowOf(table[h], next), flow_entry_id[h], stat_id[h]) :
        \/ o.rc = -1 /\ Discard(h, o.hw)
        \/ /\ o.rc # -1
           /\ current_state' = [current_state EXCEPT ![h] = next]
           /\ flow_entry_id' = [flow_entry_id EXCEPT ![h] = o.entry]
           /\ stat_id' = [stat_id EXCEPT ![h] = o.stat]
           /\ hw' = o.hw
           /\ UNCHANGED <<agents, table>>
  BY DEF GotoNextState
<1> HIDE DEF next
<1>3. PICK o \in StartFlow(y, h, row, flow_entry_id[h], stat_id[h]) :
        \/ o.rc = -1 /\ Discard(h, o.hw)
        \/ /\ o.rc # -1
           /\ current_state' = [current_state EXCEPT ![h] = next]
           /\ flow_entry_id' = [flow_entry_id EXCEPT ![h] = o.entry]
           /\ stat_id' = [stat_id EXCEPT ![h] = o.stat]
           /\ hw' = o.hw
           /\ UNCHANGED <<agents, table>>
  BY <1>2
<1>4. Sound(y) /\ Tidy(y, A)
  BY <1>1, DestroyTidy DEF Neat
<1>5. row \in Row /\ (row.flow = NoFlow => CurrentRow(h) = row)
  BY <1>1, RowFound DEF CurrentRow
<1>6. row.flow = NoFlow => flow_entry_id[h] = 0 /\ stat_id[h] = 0
  <2>1. Holds(hw, h, CurrentRow(h).flow, flow_entry_id[h], stat_id[h])
    BY <1>1 DEF Neat, Tidy
  <2> QED
    BY <1>5, <2>1 DEF Holds
<1>7. A \in SUBSET Handle /\ h \in Handle \ A
  BY <1>1
<1> HIDE DEF A, row
<1>8. /\ o.rc = -1 => o.hw = y
      /\ o.rc # -1 =>
           /\ Holds(o.hw, h, row.flow, o.entry, o.stat)
           /\ \A g \in A : Holds(o.hw, g, CurrentRow(g).flow, flow_entry_id[g], stat_id[g])
           /\ \A e \in EntryId : o.hw.entry[e].owner \in A \cup {h, Nobody}
           /\ \A s \in o.hw.stats : s = o.stat \/ \E g \in A : stat_id[g] = s
  BY <1>3, <1>4, <1>5, <1>6, <1>7, StartFlowTidy
<1>9. CASE o.rc = -1
  BY <1>3, <1>4, <1>8, <1>9, LeaveTidy DEF A
<1>10. CASE o.rc # -1
  <2>1. OtherFields(h)
    BY <1>3, <1>10 DEF OtherFields, Inv, TypeOK
  <2>2. /\ table'[h] = table[h] /\ current_state'[h] = next
        /\ flow_entry_id'[h] = o.entry /\ stat_id'[h] = o.stat
    BY <1>3, <1>10 DEF Inv, TypeOK
  <2>3. CurrentRow(h)' = row
    BY <2>2 DEF CurrentRow, row
  <2>4. agents' = (agents \ {h}) \cup {h} /\ hw' = o.hw
    BY <1>1, <1>3, <1>10
  <2> QED
    BY <1>8, <1>10, <2>1, <2>2, <2>3, <2>4, HereTidy DEF A
<1> QED
  BY <1>9, <1>10
-----------------------------------------------------------------------------
(***************************************************************************)
(* The theorems.                                                           *)
(***************************************************************************)

LEMMA NeatAlways ==
  ASSUME OnlyRefused, Uniform
  PROVE  Spec => []Neat
<1>1. Init => Neat
  <2>1. Blank.owner = Nobody
    BY DEF Blank
  <2> QED
    BY <2>1 DEF Init, Neat, Tidy
<1>2. ASSUME Inv, Neat, [Next]_vars
      PROVE  Neat'
  <2>1. CASE Next
    BY <1>2, <2>1, MonHelloTidy, MonStopTidy, GotoNextStateTidy DEF Next, Step
  <2>2. CASE UNCHANGED vars
    BY <1>2, <2>2 DEF vars, Neat, Tidy, Holds, CurrentRow
  <2> QED
    BY <1>2, <2>1, <2>2
<1> QED
  BY <1>1, <1>2, InvAlways, PTL DEF Spec

\* If the switch refuses entries with -1 only and fails in nothing else, an
\* agent has the flow of its current row installed and counted, through every
\* MON_HELLO and GOTO_NXT_STATE.
THEOREM FlowInstalledTheorem ==
  ASSUME OnlyRefused, Uniform
  PROVE  Spec => []FlowInstalled
<1>1. Neat => FlowInstalled
  BY DEF Neat, Tidy, Holds, FlowInstalled, Installed
<1> QED
  BY <1>1, NeatAlways, PTL

\* Under the same conditions neither MON_STOP, GOTO_NXT_STATE nor a refused
\* MON_HELLO leaves a flow entry behind.
THEOREM NoEntryLeakTheorem ==
  ASSUME OnlyRefused, Uniform
  PROVE  Spec => []NoEntryLeak
<1>1. Neat => NoEntryLeak
  BY DEF Neat, Tidy, Holds, NoEntryLeak
<1> QED
  BY <1>1, NeatAlways, PTL

\* Nor do they leave a statistics object behind.
THEOREM NoStatLeakTheorem ==
  ASSUME OnlyRefused, Uniform
  PROVE  Spec => []NoStatLeak
<1>1. Neat => NoStatLeak
  BY DEF Neat, Tidy, NoStatLeak
<1> QED
  BY <1>1, NeatAlways, PTL
=============================================================================
