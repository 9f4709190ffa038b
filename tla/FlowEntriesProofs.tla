-------------------------- MODULE FlowEntriesProofs --------------------------
(***************************************************************************)
(* Proofs about FlowEntries, whatever operations of the switch fail:       *)
(* types, and that an agent only ever holds and touches its own entries.   *)
(***************************************************************************)
EXTENDS FlowEntries, TLAPS

\* In a table sent by the controller all rows have a flow, or there is only
\* one row.
Uniform ==
  \A t \in Tables : Len(t) = 1 \/ \A i \in DOMAIN t : t[i].flow # NoFlow

Hw == [entry : [EntryId -> Entry], stats : SUBSET StatId]

\* A statistics object attached to an entry exists, and is attached to no
\* other entry.
AttachedOnce(x) ==
  \A e, f \in EntryId : x.entry[e].stat # 0 =>
    /\ x.entry[e].stat \in x.stats
    /\ x.entry[f].stat = x.entry[e].stat => f = e

Sound(x) == x \in Hw /\ AttachedOnce(x)

\* From x to y, nothing has happened to the entries of agents other than h.
OthersKept(x, y, h) ==
  \A e \in EntryId : x.entry[e].owner \in Handle \ {h} =>
    /\ y.entry[e] = x.entry[e]
    /\ x.entry[e].stat \in x.stats => x.entry[e].stat \in y.stats

\* The statistics object of d, if it has one, is free for entry e.
Attachable(x, e, d) ==
  d.stat # 0 => /\ d.stat \in x.stats
                /\ \A f \in EntryId \ {e} : x.entry[f].stat # d.stat

Owns(x, h, e) == e \in EntryId => x.entry[e].owner = h
-----------------------------------------------------------------------------
(***************************************************************************)
(* Tables.                                                                 *)
(***************************************************************************)

\* Storing a table keeps its length and its next states, and each row's flow
\* unless it has none.
LEMMA StoredTable ==
  ASSUME NEW u \in StoredTables
  PROVE  /\ u \in Seq(Row) /\ Len(u) >= 1
         /\ Uniform => Len(u) = 1 \/ \A i \in DOMAIN u : u[i].flow # NoFlow
<1>1. PICK t \in Tables : u \in Stored(t)
  BY DEF StoredTables
<1>2. PICK S \in SUBSET {i \in DOMAIN t : t[i].flow = NoFlow} :
        u = [i \in DOMAIN t |-> IF i \in S THEN [t[i] EXCEPT !.flow = StrayFlow] ELSE t[i]]
  BY <1>1 DEF Stored
<1>3. t \in Seq(Row) /\ Len(t) \in Nat /\ Len(t) >= 1 /\ DOMAIN t = 1..Len(t)
  BY ConstantsAssumption
<1>4. ASSUME NEW i \in 1..Len(t)
      PROVE  t[i] \in Row /\ u[i] \in Row
  <2>1. t[i] \in Row
    BY <1>3
  <2>2. [t[i] EXCEPT !.flow = StrayFlow] \in Row
    BY <2>1, ConstantsAssumption DEF Row
  <2>3. u[i] \in {t[i], [t[i] EXCEPT !.flow = StrayFlow]}
    BY <1>2, <1>3
  <2> QED
    BY <2>1, <2>2, <2>3
<1>5. u \in Seq(Row) /\ Len(u) = Len(t)
  BY <1>2, <1>3, <1>4
<1>6. ASSUME Uniform
      PROVE  Len(u) = 1 \/ \A i \in DOMAIN u : u[i].flow # NoFlow
  <2>1. \A i \in 1..Len(t) : t[i].flow # NoFlow => u[i] = t[i]
    BY <1>2, <1>3
  <2> QED
    BY <1>2, <1>3, <1>5, <1>6, <2>1 DEF Uniform
<1> QED
  BY <1>3, <1>5, <1>6

\* get_row_of_state_machine finds a row.  In a uniform table either all
\* states have a flow or all states have the same row.
LEMMA RowFound ==
  ASSUME NEW u \in StoredTables, NEW i \in 1..NoNextState
  PROVE  /\ RowOf(u, i) \in Row
         /\ Uniform => \A j \in 1..NoNextState :
              RowOf(u, i).flow = NoFlow => RowOf(u, j) = RowOf(u, i)
<1>1. /\ u \in Seq(Row) /\ Len(u) >= 1 /\ Len(u) \in Nat /\ DOMAIN u = 1..Len(u)
      /\ Uniform => Len(u) = 1 \/ \A k \in DOMAIN u : u[k].flow # NoFlow
  BY StoredTable
<1>2. \A k \in 1..NoNextState : \E n \in 1..Len(u) :
        RowOf(u, k) = u[n] /\ (Len(u) = 1 => n = 1)
  BY <1>1 DEF RowOf, NoNextState
<1> QED
  BY <1>1, <1>2
-----------------------------------------------------------------------------
(***************************************************************************)
(* The operations of the switch.                                           *)
(***************************************************************************)

LEMMA Ids ==
  /\ -1 \notin StatId /\ 0 \notin StatId /\ 0 \notin EntryId
  /\ EntryId \cap ErrorCode = {}
  /\ Nobody \notin Handle /\ Leaked \notin Handle
BY ConstantsAssumption

LEMMA OthersKeptTransitive ==
  ASSUME NEW x, NEW y, NEW z, NEW h,
         OthersKept(x, y, h), OthersKept(y, z, h)
  PROVE  OthersKept(x, z, h)
BY DEF OthersKept

\* Overwriting one entry.  Its new statistics object, if it gets one, exists
\* and is attached to no other entry.
LEMMA PutKeeps ==
  ASSUME NEW x, Sound(x), NEW h,
         NEW e \in EntryId, x.entry[e].owner \notin Handle \ {h},
         NEW d \in Entry,
         Attachable(x, e, d),
         NEW y, y = [entry |-> [x.entry EXCEPT ![e] = d], stats |-> x.stats]
  PROVE  Sound(y) /\ OthersKept(x, y, h) /\ y.entry[e] = d
<1>1. x \in Hw /\ y \in Hw
  BY DEF Sound, Hw
<1>2. y.entry[e] = d /\ \A f \in EntryId : f # e => y.entry[f] = x.entry[f]
  BY <1>1 DEF Hw
<1>3. AttachedOnce(y)
  BY <1>2 DEF Sound, AttachedOnce, Attachable
<1>4. OthersKept(x, y, h)
  BY <1>2 DEF OthersKept
<1> QED
  BY <1>1, <1>2, <1>3, <1>4 DEF Sound

LEMMA FieldEntryCreateKeeps ==
  ASSUME NEW x, Sound(x), NEW h \in Handle, NEW f \in Flow, NEW e \in Free(x),
         NEW y, y = FieldEntryCreate(x, e, h, f)
  PROVE  Sound(y) /\ OthersKept(x, y, h) /\ y.entry[e].owner = h
<1> DEFINE d == [owner |-> h, flow |-> f, stat |-> 0, installed |-> FALSE]
<1>1. e \in EntryId /\ x.entry[e].owner \notin Handle \ {h}
  BY Ids DEF Free
<1>2. d \in Entry
  BY DEF Entry
<1>6. d.stat = 0 /\ d.owner = h
  OBVIOUS
<1> HIDE DEF d
<1>3. y = [entry |-> [x.entry EXCEPT ![e] = d], stats |-> x.stats]
  BY <1>1 DEF FieldEntryCreate, Sound, Hw, d
<1>4. Attachable(x, e, d)
  BY <1>6 DEF Attachable
<1>5. Sound(y) /\ OthersKept(x, y, h)
  BY <1>1, <1>2, <1>3, <1>4, PutKeeps
<1>7. y.entry[e] = d
  BY <1>1, <1>3 DEF Sound, Hw
<1> QED
  BY <1>5, <1>6, <1>7

LEMMA FieldStatCreateKeeps ==
  ASSUME NEW x, Sound(x), NEW h, NEW s \in StatId \ x.stats,
         NEW y, y = FieldStatCreate(x, s)
  PROVE  /\ Sound(y) /\ OthersKept(x, y, h) /\ y.entry = x.entry
         /\ s \in y.stats /\ \A f \in EntryId : y.entry[f].stat # s
<1>1. y = [entry |-> x.entry, stats |-> x.stats \cup {s}] /\ y \in Hw
  BY DEF FieldStatCreate, Sound, Hw
<1>2. \A f \in EntryId : x.entry[f].stat # s
  BY Ids DEF Sound, AttachedOnce
<1> QED
  BY <1>1, <1>2 DEF Sound, AttachedOnce, OthersKept

LEMMA FieldEntryStatAttachKeeps ==
  ASSUME NEW x, Sound(x), NEW h \in Handle,
         NEW e \in EntryId, x.entry[e].owner = h,
         NEW s \in x.stats, \A f \in EntryId : x.entry[f].stat # s,
         NEW y, y = FieldEntryStatAttach(x, e, s)
  PROVE  Sound(y) /\ OthersKept(x, y, h) /\ y.entry[e].owner = h
<1> DEFINE d == [x.entry[e] EXCEPT !.stat = s]
<1>1. d \in Entry /\ d.stat = s /\ d.owner = h
  BY DEF Sound, Hw, Entry
<1> HIDE DEF d
<1>2. y = [entry |-> [x.entry EXCEPT ![e] = d], stats |-> x.stats]
  BY DEF FieldEntryStatAttach, Sound, Hw, d
<1>3. Attachable(x, e, d)
  BY <1>1 DEF Attachable
<1> QED
  BY <1>1, <1>2, <1>3, PutKeeps

LEMMA FieldEntryInstallKeeps ==
  ASSUME NEW x, Sound(x), NEW h \in Handle,
         NEW e \in EntryId, x.entry[e].owner = h,
         NEW y, y = FieldEntryInstall(x, e)
  PROVE  Sound(y) /\ OthersKept(x, y, h) /\ y.entry[e].owner = h
<1> DEFINE d == [x.entry[e] EXCEPT !.installed = TRUE]
<1>1. d \in Entry /\ d.stat = x.entry[e].stat /\ d.owner = h
  BY DEF Sound, Hw, Entry
<1>2. Attachable(x, e, d)
  BY DEF Sound, AttachedOnce, Attachable
<1> HIDE DEF d
<1>3. y = [entry |-> [x.entry EXCEPT ![e] = d], stats |-> x.stats]
  BY DEF FieldEntryInstall, Sound, Hw, d
<1> QED
  BY <1>1, <1>2, <1>3, PutKeeps

\* After detaching, no entry has the statistics object any more.
LEMMA FieldEntryStatDetachKeeps ==
  ASSUME NEW x, Sound(x), NEW h,
         NEW e \in EntryId, x.entry[e].owner = h,
         x.entry[e].stat # 0,
         NEW y, y = FieldEntryStatDetach(x, e)
  PROVE  /\ Sound(y) /\ OthersKept(x, y, h) /\ y.entry[e].owner = h
         /\ \A f \in EntryId : y.entry[f].stat # x.entry[e].stat
<1> DEFINE d == [x.entry[e] EXCEPT !.stat = 0]
<1>1. d \in Entry
  BY DEF Sound, Hw, Entry
<1>7. d.stat = 0 /\ d.owner = h
  BY DEF Sound, Hw, Entry
<1> HIDE DEF d
<1>2. y = [entry |-> [x.entry EXCEPT ![e] = d], stats |-> x.stats]
  BY DEF FieldEntryStatDetach, Sound, Hw, d
<1>5. Attachable(x, e, d)
  BY <1>7 DEF Attachable
<1>3. Sound(y) /\ OthersKept(x, y, h)
  BY <1>1, <1>2, <1>5, PutKeeps
<1>6. y.entry[e] = d
  BY <1>2 DEF Sound, Hw
<1>4. \A f \in EntryId \ {e} : y.entry[f].stat # x.entry[e].stat
  BY <1>2 DEF Sound, Hw, AttachedOnce
<1> QED
  BY <1>3, <1>4, <1>6, <1>7

LEMMA FieldStatDestroyKeeps ==
  ASSUME NEW x, Sound(x), NEW h,
         NEW s, \A f \in EntryId : x.entry[f].stat # s,
         NEW y, y = FieldStatDestroy(x, s)
  PROVE  Sound(y) /\ OthersKept(x, y, h) /\ y.entry = x.entry
<1>1. y = [entry |-> x.entry, stats |-> x.stats \ {s}] /\ y \in Hw
  BY DEF FieldStatDestroy, Sound, Hw
<1> QED
  BY <1>1 DEF Sound, AttachedOnce, OthersKept

LEMMA FieldEntryDestroyKeeps ==
  ASSUME NEW x, Sound(x), NEW h,
         NEW e \in EntryId, x.entry[e].owner = h,
         NEW y, y = FieldEntryDestroy(x, e)
  PROVE  Sound(y) /\ OthersKept(x, y, h)
<1>1. Blank \in Entry /\ Blank.stat = 0
  BY DEF Entry, Blank
<1>2. y = [entry |-> [x.entry EXCEPT ![e] = Blank], stats |-> x.stats]
  BY DEF FieldEntryDestroy, Sound, Hw
<1>3. Attachable(x, e, Blank)
  BY <1>1 DEF Attachable
<1> QED
  BY <1>1, <1>2, <1>3, PutKeeps
-----------------------------------------------------------------------------
(***************************************************************************)
(* The functions of the daemon.                                            *)
(***************************************************************************)

\* mon_fp_stats_feature_entry_create takes a free entry, or none.
LEMMA EntryCreateKeeps ==
  ASSUME NEW x, Sound(x), NEW h \in Handle, NEW f \in Flow,
         NEW c \in EntryCreate(x, h, f)
  PROVE  /\ Sound(c.hw) /\ OthersKept(x, c.hw, h)
         /\ c.rc \in EntryId \cup ErrorCode /\ Owns(c.hw, h, c.rc)
<1>1. \/ c.hw = x /\ c.rc \in ErrorCode
      \/ \E e \in Free(x) : /\ c.hw = FieldEntryCreate(x, e, h, f)
                            /\ c.rc = e \/ c.rc \in ErrorCode
  BY DEF EntryCreate, IfFails
<1>2. CASE c.hw = x /\ c.rc \in ErrorCode
  BY <1>2, Ids DEF OthersKept, Owns
<1>3. ASSUME NEW e \in Free(x), c.hw = FieldEntryCreate(x, e, h, f),
             c.rc = e \/ c.rc \in ErrorCode
      PROVE  /\ Sound(c.hw) /\ OthersKept(x, c.hw, h)
             /\ c.rc \in EntryId \cup ErrorCode /\ Owns(c.hw, h, c.rc)
  <2>1. Sound(c.hw) /\ OthersKept(x, c.hw, h) /\ c.hw.entry[e].owner = h
    BY <1>3, FieldEntryCreateKeeps
  <2> QED
    BY <1>3, <2>1, Ids DEF Owns, Free
<1> QED
  BY <1>1, <1>2, <1>3

\* mon_fp_feature_stat_attach_entry_install changes an entry of h at most.
LEMMA StatAttachInstallKeeps ==
  ASSUME NEW x, Sound(x), NEW h \in Handle, NEW e, Owns(x, h, e),
         NEW d \in StatAttachInstall(x, e)
  PROVE  /\ Sound(d.hw) /\ OthersKept(x, d.hw, h)
         /\ d.rc \in StatId \cup {-1} /\ Owns(d.hw, h, e)
<1>1. \/ d.hw = x /\ d.rc = -1
      \/ \E s \in StatId \ x.stats :
           /\ d.rc \in {-1, s}
           /\ \/ d.hw = FieldStatCreate(x, s)
              \/ /\ e \in EntryId
                 /\ d.hw = FieldEntryStatAttach(FieldStatCreate(x, s), e, s)
              \/ /\ e \in EntryId
                 /\ d.hw = FieldEntryInstall(
                             FieldEntryStatAttach(FieldStatCreate(x, s), e, s), e)
  BY DEF StatAttachInstall, IfFails
<1>2. CASE d.hw = x /\ d.rc = -1
  BY <1>2 DEF OthersKept
<1>3. ASSUME NEW s \in StatId \ x.stats, d.rc \in {-1, s},
             NEW m, m = FieldStatCreate(x, s),
             \/ d.hw = m
             \/ e \in EntryId /\ d.hw = FieldEntryStatAttach(m, e, s)
             \/ e \in EntryId /\ d.hw = FieldEntryInstall(FieldEntryStatAttach(m, e, s), e)
      PROVE  /\ Sound(d.hw) /\ OthersKept(x, d.hw, h)
             /\ d.rc \in StatId \cup {-1} /\ Owns(d.hw, h, e)
  <2>1. /\ Sound(m) /\ OthersKept(x, m, h) /\ m.entry = x.entry
        /\ s \in m.stats /\ \A f \in EntryId : m.entry[f].stat # s
    BY <1>3, FieldStatCreateKeeps
  <2>2. d.rc \in StatId \cup {-1}
    BY <1>3
  <2>3. CASE d.hw = m
    BY <2>1, <2>2, <2>3 DEF Owns
  <2>4. ASSUME e \in EntryId, NEW a, a = FieldEntryStatAttach(m, e, s)
        PROVE  Sound(a) /\ OthersKept(x, a, h) /\ a.entry[e].owner = h
    <3>1. m.entry[e].owner = h
      BY <2>1, <2>4 DEF Owns
    <3>2. Sound(a) /\ OthersKept(m, a, h) /\ a.entry[e].owner = h
      BY <2>1, <2>4, <3>1, FieldEntryStatAttachKeeps
    <3> QED
      BY <2>1, <3>2, OthersKeptTransitive
  <2>5. CASE e \in EntryId /\ d.hw = FieldEntryStatAttach(m, e, s)
    BY <2>2, <2>4, <2>5 DEF Owns
  <2>6. ASSUME e \in EntryId, NEW a, a = FieldEntryStatAttach(m, e, s),
               d.hw = FieldEntryInstall(a, e)
        PROVE  Sound(d.hw) /\ OthersKept(x, d.hw, h) /\ Owns(d.hw, h, e)
    <3>1. Sound(a) /\ OthersKept(x, a, h) /\ a.entry[e].owner = h
      BY <2>4, <2>6
    <3>2. Sound(d.hw) /\ OthersKept(a, d.hw, h) /\ d.hw.entry[e].owner = h
      BY <2>6, <3>1, FieldEntryInstallKeeps
    <3> QED
      BY <3>1, <3>2, OthersKeptTransitive DEF Owns
  <2> QED
    BY <1>3, <2>2, <2>3, <2>5, <2>6
<1> QED
  BY <1>1, <1>2, <1>3

\* mon_fp_stats_feature_entry_destroy, whichever step it stops at.
LEMMA DestroyKeeps ==
  ASSUME NEW x, Sound(x), NEW h, NEW e, NEW s, Owns(x, h, e),
         NEW y \in Destroy(x, e, s)
  PROVE  Sound(y) /\ OthersKept(x, y, h)
<1>1. CASE y = x
  BY <1>1 DEF OthersKept
<1>2. CASE y # x
  <2>1. e \in EntryId /\ s \in StatId /\ x.entry[e].stat = s
    BY <1>2 DEF Destroy
  <2>2. PICK a : a = FieldEntryStatDetach(x, e)
    OBVIOUS
  <2>3. PICK b : b = FieldStatDestroy(a, s)
    OBVIOUS
  <2>4. y \in {a, b, FieldEntryDestroy(b, e)}
    BY <1>2, <2>1, <2>2, <2>3 DEF Destroy, IfFails
  <2>5. /\ Sound(a) /\ OthersKept(x, a, h) /\ a.entry[e].owner = h
        /\ \A f \in EntryId : a.entry[f].stat # s
    BY <2>1, <2>2, Ids, FieldEntryStatDetachKeeps DEF Owns
  <2>6. Sound(b) /\ OthersKept(a, b, h) /\ b.entry = a.entry
    BY <2>3, <2>5, FieldStatDestroyKeeps
  <2>7. OthersKept(x, b, h)
    BY <2>5, <2>6, OthersKeptTransitive
  <2>8. ASSUME y = FieldEntryDestroy(b, e)
        PROVE  Sound(y) /\ OthersKept(x, y, h)
    <3>1. Sound(y) /\ OthersKept(b, y, h)
      BY <2>1, <2>5, <2>6, <2>8, FieldEntryDestroyKeeps
    <3> QED
      BY <2>7, <3>1, OthersKeptTransitive
  <2> QED
    BY <2>4, <2>5, <2>6, <2>7, <2>8
<1> QED
  BY <1>1, <1>2

\* start_flow_stats_state_machine, for a row and an agent h that owns its
\* saved entry if it has saved one.
LEMMA StartFlowKeeps ==
  ASSUME NEW x, Sound(x), NEW h \in Handle, NEW row \in Row,
         NEW entry \in EntryId \cup ErrorCode \cup {0},
         NEW stat \in StatId \cup {0},
         NEW o \in StartFlow(x, h, row, entry, stat)
  PROVE  /\ Sound(o.hw) /\ OthersKept(x, o.hw, h)
         /\ o.entry \in EntryId \cup ErrorCode \cup {0}
         /\ o.stat \in StatId \cup {0}
         /\ o.rc \in {0, -1}
         /\ row.flow # NoFlow /\ o.rc # -1 => Owns(o.hw, h, o.entry) /\ o.entry # 0
         /\ row.flow = NoFlow =>
              o = [hw |-> x, entry |-> entry, stat |-> stat, rc |-> 0]
<1>1. CASE row.flow = NoFlow
  <2>1. o = [hw |-> x, entry |-> entry, stat |-> stat, rc |-> 0]
    BY <1>1 DEF StartFlow
  <2> QED
    BY <1>1, <2>1 DEF OthersKept
<1>2. CASE row.flow # NoFlow
  <2>1. row.flow \in Flow
    BY <1>2 DEF Row
  <2>2. PICK c \in EntryCreate(x, h, row.flow) :
          \/ c.rc = -1 /\ o = [hw |-> c.hw, entry |-> entry, stat |-> stat, rc |-> -1]
          \/ \E d \in StatAttachInstall(c.hw, c.rc) :
               o = [hw |-> d.hw, entry |-> c.rc,
                    stat |-> IF d.rc = -1 THEN stat ELSE d.rc, rc |-> 0]
    BY <1>2 DEF StartFlow
  <2>3. /\ Sound(c.hw) /\ OthersKept(x, c.hw, h)
        /\ c.rc \in EntryId \cup ErrorCode /\ Owns(c.hw, h, c.rc)
    BY <2>1, <2>2, EntryCreateKeeps
  <2>4. CASE o = [hw |-> c.hw, entry |-> entry, stat |-> stat, rc |-> -1]
    BY <1>2, <2>3, <2>4
  <2>5. ASSUME NEW d \in StatAttachInstall(c.hw, c.rc),
               o = [hw |-> d.hw, entry |-> c.rc,
                    stat |-> IF d.rc = -1 THEN stat ELSE d.rc, rc |-> 0]
        PROVE  /\ Sound(o.hw) /\ OthersKept(x, o.hw, h)
               /\ o.entry \in EntryId \cup ErrorCode
               /\ o.stat \in StatId \cup {0}
               /\ o.rc = 0 /\ Owns(o.hw, h, o.entry)
    <3>1. /\ Sound(d.hw) /\ OthersKept(c.hw, d.hw, h)
          /\ d.rc \in StatId \cup {-1} /\ Owns(d.hw, h, c.rc)
      BY <2>3, <2>5, StatAttachInstallKeeps
    <3>2. OthersKept(x, d.hw, h)
      BY <2>3, <3>1, OthersKeptTransitive
    <3> QED
      BY <2>3, <2>5, <3>1, <3>2
  <2>6. 0 \notin EntryId \cup ErrorCode
    BY ConstantsAssumption
  <2> QED
    BY <1>2, <2>2, <2>4, <2>5, <2>6
<1> QED
  BY <1>1, <1>2

\* Freeing an agent's object does nothing to the switch.
LEMMA ForgetKeeps ==
  ASSUME NEW x, Sound(x), NEW h,
         NEW y, y = Forget(x, h)
  PROVE  Sound(y) /\ OthersKept(x, y, h)
<1>1. y.stats = x.stats /\ y = [entry |-> y.entry, stats |-> y.stats]
  BY DEF Forget, Sound, Hw
<1>2. ASSUME NEW e \in EntryId
      PROVE  /\ y.entry[e] \in Entry /\ y.entry[e].stat = x.entry[e].stat
             /\ x.entry[e].owner # h => y.entry[e] = x.entry[e]
  BY DEF Forget, Sound, Hw, Entry
<1>3. y.entry = [e \in EntryId |-> y.entry[e]]
  BY DEF Forget, Sound, Hw
<1>4. y \in Hw
  BY <1>1, <1>2, <1>3 DEF Sound, Hw
<1> QED
  BY <1>1, <1>2, <1>4 DEF Sound, AttachedOnce, OthersKept

LEMMA DestroySound ==
  ASSUME NEW x, Sound(x), NEW e, NEW s, NEW y \in Destroy(x, e, s)
  PROVE  Sound(y)
<1>1. CASE e \in EntryId
  <2>1. Owns(x, x.entry[e].owner, e)
    BY DEF Owns
  <2> QED
    BY <2>1, DestroyKeeps
<1>2. CASE e \notin EntryId
  BY <1>2 DEF Destroy
<1> QED
  BY <1>1, <1>2
-----------------------------------------------------------------------------
(***************************************************************************)
(* The inductive invariants.                                               *)
(***************************************************************************)

Inv ==
  /\ TypeOK
  /\ AttachedOnce(hw)
  /\ \A h \in agents : table[h] \in StoredTables

\* Besides HeldIsOwn: an agent in a row without a flow has never had one.
Own ==
  /\ HeldIsOwn
  /\ \A h \in agents : CurrentRow(h).flow = NoFlow => flow_entry_id[h] = 0

LEMMA InvFacts ==
  ASSUME Inv
  PROVE  /\ Sound(hw)
         /\ \A h \in agents :
              /\ h \in Handle /\ table[h] \in StoredTables
              /\ current_state[h] \in 1..NoNextState
              /\ CurrentRow(h) \in Row /\ CurrentRow(h).next_state \in 1..NoNextState
              /\ flow_entry_id[h] \in EntryId \cup ErrorCode \cup {0}
              /\ stat_id[h] \in StatId \cup {0}
<1>1. Sound(hw)
  BY DEF Inv, TypeOK, Sound, Hw
<1>2. ASSUME NEW h \in agents
      PROVE  /\ h \in Handle /\ table[h] \in StoredTables
             /\ current_state[h] \in 1..NoNextState
             /\ flow_entry_id[h] \in EntryId \cup ErrorCode \cup {0}
             /\ stat_id[h] \in StatId \cup {0}
  BY DEF Inv, TypeOK
<1>3. ASSUME NEW h \in agents
      PROVE  CurrentRow(h) \in Row
  BY <1>2, RowFound DEF CurrentRow
<1> QED
  BY <1>1, <1>2, <1>3 DEF Row

LEMMA DiscardType ==
  ASSUME Inv, NEW h \in Handle, NEW x, Sound(x), Discard(h, x)
  PROVE  Inv' /\ OthersKept(x, hw', h)
<1>1. Sound(hw') /\ OthersKept(x, hw', h)
  BY ForgetKeeps DEF Discard
<1>2. 1 \in 1..NoNextState
  BY DEF NoNextState
<1>3. /\ agents' \subseteq Handle
      /\ table' \in [Handle -> StoredTables \cup {<<>>}]
      /\ current_state' \in [Handle -> 1..NoNextState]
      /\ flow_entry_id' \in [Handle -> EntryId \cup ErrorCode \cup {0}]
      /\ stat_id' \in [Handle -> StatId \cup {0}]
  BY <1>2 DEF Discard, Inv, TypeOK
<1>4. \A g \in agents' : table'[g] \in StoredTables
  BY DEF Discard, Inv, TypeOK
<1> QED
  BY <1>1, <1>3, <1>4 DEF Inv, TypeOK, Sound, Hw

\* A step of agent h keeps the types.
LEMMA StepType ==
  ASSUME Inv, NEW h \in Handle, Step(h)
  PROVE  Inv'
<1> USE InvFacts
<1>1. ASSUME NEW t \in StoredTables, MonHello(h, t)
      PROVE  Inv'
  <2>0. 1 \in 1..NoNextState
    BY DEF NoNextState
  <2>1. RowOf(t, 1) \in Row
    BY <2>0, RowFound
  <2>2. PICK o \in StartFlow(hw, h, RowOf(t, 1), 0, 0) :
          \/ Discard(h, o.hw)
          \/ /\ agents' = agents \cup {h}
             /\ table' = [table EXCEPT ![h] = t]
             /\ current_state' = [current_state EXCEPT ![h] = 1]
             /\ flow_entry_id' = [flow_entry_id EXCEPT ![h] = o.entry]
             /\ stat_id' = [stat_id EXCEPT ![h] = o.stat]
             /\ hw' = o.hw
    BY <1>1 DEF MonHello
  <2>3. /\ Sound(o.hw)
        /\ o.entry \in EntryId \cup ErrorCode \cup {0}
        /\ o.stat \in StatId \cup {0}
    BY <2>1, <2>2, StartFlowKeeps
  <2>4. CASE Discard(h, o.hw)
    BY <2>3, <2>4, DiscardType
  <2>5. CASE ~Discard(h, o.hw)
    <3>1. TypeOK /\ \A g \in agents : table[g] \in StoredTables
      BY DEF Inv
    <3>5. /\ agents' = agents \cup {h}
          /\ table' = [table EXCEPT ![h] = t]
          /\ current_state' = [current_state EXCEPT ![h] = 1]
      BY <2>2, <2>5
    <3>6. /\ agents' \subseteq Handle
          /\ table' \in [Handle -> StoredTables \cup {<<>>}]
      BY <3>1, <3>5 DEF TypeOK
    <3>2. current_state' \in [Handle -> 1..NoNextState]
      BY <2>0, <3>1, <3>5 DEF TypeOK
    <3>3. /\ flow_entry_id' \in [Handle -> EntryId \cup ErrorCode \cup {0}]
          /\ stat_id' \in [Handle -> StatId \cup {0}]
      BY <2>2, <2>3, <2>5, <3>1 DEF TypeOK
    <3>4. \A g \in agents' : table'[g] \in StoredTables
      BY <2>2, <2>5, <3>1 DEF TypeOK
    <3> QED
      BY <2>2, <2>3, <2>5, <3>2, <3>3, <3>4, <3>6 DEF Inv, TypeOK, Sound, Hw
  <2> QED
    BY <2>4, <2>5
<1>2. CASE MonStop(h)
  <2>1. PICK x \in Destroy(hw, flow_entry_id[h], stat_id[h]) : Discard(h, x)
    BY <1>2 DEF MonStop
  <2>2. Sound(x)
    BY DestroySound
  <2> QED
    BY <2>1, <2>2, DiscardType
<1>3. CASE GotoNextState(h)
  <2> DEFINE next == CurrentRow(h).next_state
  <2>1. h \in agents
    BY <1>3 DEF GotoNextState
  <2>2. PICK x \in Destroy(hw, flow_entry_id[h], stat_id[h]) :
        \E o \in StartFlow(x, h, RowOf(table[h], next), flow_entry_id[h], stat_id[h]) :
          \/ Discard(h, o.hw)
          \/ /\ current_state' = [current_state EXCEPT ![h] = next]
             /\ flow_entry_id' = [flow_entry_id EXCEPT ![h] = o.entry]
             /\ stat_id' = [stat_id EXCEPT ![h] = o.stat]
             /\ hw' = o.hw
             /\ UNCHANGED <<agents, table>>
    BY <1>3 DEF GotoNextState
  <2>3. PICK o \in StartFlow(x, h, RowOf(table[h], next), flow_entry_id[h], stat_id[h]) :
          \/ Discard(h, o.hw)
          \/ /\ current_state' = [current_state EXCEPT ![h] = next]
             /\ flow_entry_id' = [flow_entry_id EXCEPT ![h] = o.entry]
             /\ stat_id' = [stat_id EXCEPT ![h] = o.stat]
             /\ hw' = o.hw
             /\ UNCHANGED <<agents, table>>
    BY <2>2
  <2>4. next \in 1..NoNextState
    BY <2>1
  <2> HIDE DEF next
  <2>5. Sound(x) /\ RowOf(table[h], next) \in Row
    BY <2>1, <2>4, DestroySound, RowFound
  <2>6. /\ Sound(o.hw)
        /\ o.entry \in EntryId \cup ErrorCode \cup {0}
        /\ o.stat \in StatId \cup {0}
    BY <2>1, <2>5, StartFlowKeeps
  <2>7. CASE Discard(h, o.hw)
    BY <2>6, <2>7, DiscardType
  <2>8. CASE ~Discard(h, o.hw)
    BY <2>3, <2>4, <2>6, <2>8 DEF Inv, TypeOK, Sound, Hw
  <2> QED
    BY <2>7, <2>8
<1> QED
  BY <1>1, <1>2, <1>3 DEF Step

\* h is the only agent that comes, goes or changes.
OthersSame(h) ==
  /\ agents' \ {h} = agents \ {h}
  /\ \A g \in agents \ {h} :
       /\ table'[g] = table[g] /\ current_state'[g] = current_state[g]
       /\ flow_entry_id'[g] = flow_entry_id[g]

\* Own, of h after the step.
OwnAfter(h) ==
  /\ flow_entry_id'[h] \in EntryId => hw'.entry[flow_entry_id'[h]].owner = h
  /\ RowOf(table'[h], current_state'[h]).flow = NoFlow => flow_entry_id'[h] = 0

LEMMA OwnKept ==
  ASSUME Inv, Own, NEW h \in Handle,
         OthersSame(h), OthersKept(hw, hw', h), h \in agents' => OwnAfter(h)
  PROVE  Own'
<1>1. ASSUME NEW g \in agents'
      PROVE  OwnAfter(g)
  <2>1. CASE g = h
    BY <1>1, <2>1
  <2>2. CASE g # h
    <3>1. g \in agents /\ g \in Handle \ {h}
      BY <1>1, <2>2, InvFacts DEF OthersSame
    <3>2. /\ table'[g] = table[g] /\ current_state'[g] = current_state[g]
          /\ flow_entry_id'[g] = flow_entry_id[g]
      BY <2>2, <3>1 DEF OthersSame
    <3>3. flow_entry_id[g] \in EntryId => hw.entry[flow_entry_id[g]].owner = g
      BY <3>1 DEF Own, HeldIsOwn
    <3>4. flow_entry_id[g] \in EntryId => hw'.entry[flow_entry_id[g]].owner = g
      BY <3>1, <3>3 DEF OthersKept
    <3>5. RowOf(table[g], current_state[g]).flow = NoFlow => flow_entry_id[g] = 0
      BY <3>1 DEF Own, CurrentRow
    <3> QED
      BY <3>2, <3>4, <3>5 DEF OwnAfter
  <2> QED
    BY <2>1, <2>2
<1> QED
  BY <1>1 DEF OwnAfter, Own, HeldIsOwn, CurrentRow

LEMMA DiscardOwn ==
  ASSUME Inv, Own, NEW h \in Handle,
         NEW x, Sound(x), OthersKept(hw, x, h), Discard(h, x)
  PROVE  Own' /\ OthersKept(hw, hw', h)
<1>1. OthersKept(hw, hw', h)
  BY DiscardType, OthersKeptTransitive
<1>2. OthersSame(h) /\ h \notin agents'
  BY DEF Discard, OthersSame, Inv, TypeOK
<1> QED
  BY <1>1, <1>2, OwnKept

\* A step of agent h leaves it with an entry of its own, if any, and does
\* nothing to the entries of others.
LEMMA StepOwn ==
  ASSUME Uniform, Inv, Own, NEW h \in Handle, Step(h)
  PROVE  Own' /\ OthersKept(hw, hw', h)
<1> USE InvFacts
<1>1. ASSUME NEW t \in StoredTables, MonHello(h, t)
      PROVE  Own' /\ OthersKept(hw, hw', h)
  <2>0. 1 \in 1..NoNextState /\ 0 \notin EntryId
    BY ConstantsAssumption DEF NoNextState
  <2>1. RowOf(t, 1) \in Row
    BY <2>0, RowFound
  <2>2. PICK o \in StartFlow(hw, h, RowOf(t, 1), 0, 0) :
          \/ Discard(h, o.hw)
          \/ /\ o.rc # -1
             /\ agents' = agents \cup {h}
             /\ table' = [table EXCEPT ![h] = t]
             /\ current_state' = [current_state EXCEPT ![h] = 1]
             /\ flow_entry_id' = [flow_entry_id EXCEPT ![h] = o.entry]
             /\ hw' = o.hw
    BY <1>1 DEF MonHello
  <2>3. /\ Sound(o.hw) /\ OthersKept(hw, o.hw, h)
        /\ RowOf(t, 1).flow # NoFlow /\ o.rc # -1 => Owns(o.hw, h, o.entry) /\ o.entry # 0
        /\ RowOf(t, 1).flow = NoFlow => o.entry = 0
    BY <2>1, <2>2, StartFlowKeeps
  <2>4. CASE Discard(h, o.hw)
    BY <2>3, <2>4, DiscardOwn
  <2>5. CASE ~Discard(h, o.hw)
    <3>1. OthersSame(h)
      BY <2>2, <2>5 DEF OthersSame, Inv, TypeOK
    <3>2. /\ table'[h] = t /\ current_state'[h] = 1
          /\ flow_entry_id'[h] = o.entry /\ hw' = o.hw
      BY <2>2, <2>5 DEF Inv, TypeOK
    <3>3. OwnAfter(h)
      BY <2>0, <2>2, <2>3, <2>5, <3>2 DEF OwnAfter, Owns
    <3> QED
      BY <2>3, <3>1, <3>2, <3>3, OwnKept
  <2> QED
    BY <2>4, <2>5
<1>2. CASE MonStop(h)
  <2>1. PICK x \in Destroy(hw, flow_entry_id[h], stat_id[h]) : Discard(h, x)
    BY <1>2 DEF MonStop
  <2>2. Owns(hw, h, flow_entry_id[h])
    BY <1>2 DEF MonStop, Own, HeldIsOwn, Owns
  <2>3. Sound(x) /\ OthersKept(hw, x, h)
    BY <2>2, DestroyKeeps
  <2> QED
    BY <2>1, <2>3, DiscardOwn
<1>3. CASE GotoNextState(h)
  <2> DEFINE next == CurrentRow(h).next_state
  <2>1. h \in agents
    BY <1>3 DEF GotoNextState
  <2>2. PICK x \in Destroy(hw, flow_entry_id[h], stat_id[h]) :
        \E o \in StartFlow(x, h, RowOf(table[h], next), flow_entry_id[h], stat_id[h]) :
          \/ Discard(h, o.hw)
          \/ /\ o.rc # -1
             /\ current_state' = [current_state EXCEPT ![h] = next]
             /\ flow_entry_id' = [flow_entry_id EXCEPT ![h] = o.entry]
             /\ hw' = o.hw
             /\ UNCHANGED <<agents, table>>
    BY <1>3 DEF GotoNextState
  <2>3. PICK o \in StartFlow(x, h, RowOf(table[h], next), flow_entry_id[h], stat_id[h]) :
          \/ Discard(h, o.hw)
          \/ /\ o.rc # -1
             /\ current_state' = [current_state EXCEPT ![h] = next]
             /\ flow_entry_id' = [flow_entry_id EXCEPT ![h] = o.entry]
             /\ hw' = o.hw
             /\ UNCHANGED <<agents, table>>
    BY <2>2
  <2>4. next \in 1..NoNextState
    BY <2>1
  <2> HIDE DEF next
  <2>5. Owns(hw, h, flow_entry_id[h])
    BY <2>1 DEF Own, HeldIsOwn, Owns
  <2>6. Sound(x) /\ OthersKept(hw, x, h) /\ RowOf(table[h], next) \in Row
    BY <2>1, <2>4, <2>5, DestroyKeeps, RowFound
  <2>7. /\ Sound(o.hw) /\ OthersKept(x, o.hw, h)
        /\ RowOf(table[h], next).flow # NoFlow /\ o.rc # -1 =>
             Owns(o.hw, h, o.entry) /\ o.entry # 0
        /\ RowOf(table[h], next).flow = NoFlow => o.entry = flow_entry_id[h]
    BY <2>1, <2>6, StartFlowKeeps
  <2>8. OthersKept(hw, o.hw, h)
    BY <2>6, <2>7, OthersKeptTransitive
  <2>9. CASE Discard(h, o.hw)
    BY <2>7, <2>8, <2>9, DiscardOwn
  <2>10. CASE ~Discard(h, o.hw)
    <3>1. OthersSame(h) /\ hw' = o.hw
      BY <2>3, <2>10 DEF OthersSame, Inv, TypeOK
    <3>2. /\ table'[h] = table[h] /\ current_state'[h] = next
          /\ flow_entry_id'[h] = o.entry
      BY <2>1, <2>3, <2>10 DEF Inv, TypeOK
    <3>3. CASE RowOf(table[h], next).flow # NoFlow
      BY <2>3, <2>7, <2>10, <3>1, <3>2, <3>3, OwnKept, <2>8 DEF OwnAfter, Owns
    <3>4. CASE RowOf(table[h], next).flow = NoFlow
      <4>1. CurrentRow(h).flow = NoFlow
        BY <2>1, <2>4, <3>4, RowFound DEF CurrentRow
      <4>2. flow_entry_id[h] = 0 /\ 0 \notin EntryId
        BY <2>1, <4>1, ConstantsAssumption DEF Own
      <4>3. OwnAfter(h)
        BY <2>7, <3>2, <3>4, <4>2 DEF OwnAfter
      <4> QED
        BY <2>8, <3>1, <4>3, OwnKept
    <3> QED
      BY <2>8, <3>1, <3>3, <3>4
  <2> QED
    BY <2>9, <2>10
<1> QED
  BY <1>1, <1>2, <1>3 DEF Step
-----------------------------------------------------------------------------
(***************************************************************************)
(* The theorems.                                                           *)
(***************************************************************************)

LEMMA InvInitially ==
  ASSUME Init
  PROVE  Inv /\ Own
<1>1. Blank \in Entry /\ Blank.stat = 0 /\ Blank.owner = Nobody
  BY DEF Blank, Entry
<1>2. 1 \in 1..NoNextState
  BY DEF NoNextState
<1>3. TypeOK
  BY <1>1, <1>2 DEF Init, TypeOK
<1>4. AttachedOnce(hw)
  BY <1>1 DEF Init, AttachedOnce
<1> QED
  BY <1>3, <1>4 DEF Init, Inv, Own, HeldIsOwn

LEMMA InvAlways == Spec => []Inv
<1>1. Init => Inv
  BY InvInitially
<1>2. ASSUME Inv, [Next]_vars
      PROVE  Inv'
  <2>1. CASE Next
    BY <1>2, <2>1, StepType DEF Next
  <2>2. CASE UNCHANGED vars
    BY <1>2, <2>2 DEF vars, Inv, TypeOK
  <2> QED
    BY <1>2, <2>1, <2>2
<1> QED
  BY <1>1, <1>2, PTL DEF Spec

\* The program keeps its types, whatever fails in the switch.
THEOREM TypeCorrect == Spec => []TypeOK
<1>1. Inv => TypeOK
  BY DEF Inv
<1> QED
  BY <1>1, InvAlways, PTL

LEMMA OwnAlways ==
  ASSUME Uniform
  PROVE  Spec => []Own
<1>1. Init => Own
  BY InvInitially
<1>2. ASSUME Inv, Own, [Next]_vars
      PROVE  Own'
  <2>1. CASE Next
    BY <1>2, <2>1, StepOwn DEF Next
  <2>2. CASE UNCHANGED vars
    BY <1>2, <2>2 DEF vars, Own, HeldIsOwn, CurrentRow
  <2> QED
    BY <1>2, <2>1, <2>2
<1> QED
  BY <1>1, <1>2, InvAlways, PTL DEF Spec

\* With uniform tables, whatever fails in the switch, an agent only ever
\* holds entries it has created itself.
THEOREM HeldIsOwnTheorem ==
  ASSUME Uniform
  PROVE  Spec => []HeldIsOwn
<1>1. Own => HeldIsOwn
  BY DEF Own
<1> QED
  BY <1>1, OwnAlways, PTL

\* With uniform tables, whatever fails in the switch, an agent does nothing
\* to the entries and the statistics objects of other agents.
THEOREM OwnEntriesTheorem ==
  ASSUME Uniform
  PROVE  Spec => OnlyOwnEntries
<1> DEFINE A == \A h \in Handle : Step(h) =>
                 \A e \in EntryId : hw.entry[e].owner \in agents \ {h} =>
                   /\ hw'.entry[e] = hw.entry[e]
                   /\ hw.entry[e].stat \in hw.stats => hw.entry[e].stat \in hw'.stats
<1>1. ASSUME Inv, Own
      PROVE  A
  <2>1. \A h \in Handle : Step(h) => OthersKept(hw, hw', h)
    BY <1>1, StepOwn
  <2> QED
    BY <1>1, <2>1, InvFacts DEF OthersKept
<1>2. Inv /\ Own => [A]_vars
  BY <1>1
<1> HIDE DEF A
<1>3. Spec => [][A]_vars
  BY <1>2, InvAlways, OwnAlways, PTL
<1> QED
  BY <1>3 DEF OnlyOwnEntries, A
=============================================================================
