-------------------------- MODULE StateTableProofs --------------------------
(***************************************************************************)
(* The parser of StateTable.  While it reads a sound document its state is *)
(* a function of the document and of the reader's place in it.  ParserInv  *)
(* says which, variable by variable; what is in the table at each place    *)
(* (RowAt) and what the file has there (NodesAre) are closed forms, so     *)
(* that each step is compared with the place after the node it reads.      *)
(* TypeInv is what is left for documents that are not sound.               *)
(***************************************************************************)
EXTENDS StateTable, SequenceTheorems, TLAPS

(***************************************************************************)
(* The nodes of a document.                                                *)
(***************************************************************************)

Events(r) == Len(r.events)

Listed(r) == Len(r.actions)

Size(r) == 15 + Events(r) + Listed(r)

\* The node that stands for the field f of the flow of the row r.
FieldNode(r, f) == IF f \in DOMAIN r.flow THEN Node(f, r.flow[f]) ELSE Ignored

\* What the assumption says of one document, and of one row of it.
LEMMA DocumentTyped ==
  ASSUME NEW d \in Documents
  PROVE  /\ d.params \in [Param -> Value] /\ d.rows \in Seq(RowOfDocument)
         /\ d.total_states \in Nat
         /\ Len(d.rows) \in Nat /\ DOMAIN d.rows = 1..Len(d.rows)
  BY DocumentsAssumption

LEMMA DocumentFacts ==
  ASSUME NEW d \in Sound
  PROVE  /\ d \in Documents
         /\ d.params \in [Param -> Value] /\ d.rows \in Seq(RowOfDocument)
         /\ d.total_states \in Nat /\ d.total_states >= Len(d.rows)
         /\ Len(d.rows) \in Nat /\ DOMAIN d.rows = 1..Len(d.rows)
<1>1. d \in Documents /\ Len(d.rows) <= d.total_states
  BY DEF Sound
<1> QED
  BY <1>1, DocumentTyped

\* A row of a sound document.
Complete ==
  {r \in RowOfDocument : /\ r.num_of_actions \in 1..Listed(r)
                         /\ r.num_of_actions <= OneDigit
                         /\ Events(r) <= r.num_of_row_evnts}

LEMMA RowCounts ==
  ASSUME NEW r \in RowOfDocument
  PROVE  Events(r) \in Nat /\ Listed(r) \in Nat
<1>1. r.events \in Seq(Value) /\ r.actions \in Seq(Act)
  BY DEF RowOfDocument
<1> QED
  BY <1>1 DEF Events, Listed

LEMMA RowFacts ==
  ASSUME NEW r \in Complete
  PROVE  /\ r \in RowOfDocument
         /\ Events(r) \in Nat /\ Listed(r) \in Nat
         /\ r.num_of_actions \in 1..Listed(r) /\ r.num_of_actions <= OneDigit
         /\ r.num_of_row_evnts \in Nat /\ Events(r) <= r.num_of_row_evnts
<1>1. /\ r \in RowOfDocument /\ r.num_of_actions \in 1..Listed(r)
      /\ r.num_of_actions <= OneDigit /\ Events(r) <= r.num_of_row_evnts
  BY DEF Complete
<1>2. Events(r) \in Nat /\ Listed(r) \in Nat /\ r.num_of_row_evnts \in Nat
  BY <1>1 DEF RowOfDocument, Events, Listed
<1> QED
  BY <1>1, <1>2

LEMMA DocumentRows ==
  ASSUME NEW d \in Sound, NEW i \in 1..Len(d.rows)
  PROVE  d.rows[i] \in Complete
<1>1. d.rows[i] \in RowOfDocument
  BY DocumentFacts
<1>2. /\ d.rows[i].num_of_actions \in 1..Listed(d.rows[i])
      /\ d.rows[i].num_of_actions <= OneDigit
      /\ Events(d.rows[i]) <= d.rows[i].num_of_row_evnts
  BY DocumentFacts DEF Sound, Listed, Events
<1> QED
  BY <1>1, <1>2 DEF Complete

\* The nodes of a row, place by place.
NodesAre(s, r) ==
  /\ s[1] = Node("state-table-row-entries", Absent)
  /\ s[2] = Node("state", r.state)
  /\ s[3] = Node("input-events", Absent)
  /\ s[4] = Node("num_of_row_evnts", r.num_of_row_evnts)
  /\ \A j \in 5..4 + Events(r) : s[j] = Node("event", r.events[j - 4])
  /\ s[5 + Events(r)] = Optional("threshold", r.threshold)
  /\ s[6 + Events(r)] =
       IF DOMAIN r.flow = {} THEN Ignored ELSE Node("flow_to_install", Absent)
  /\ \A j \in 7 + Events(r)..11 + Events(r) :
       s[j] = FieldNode(r, FlowFields[j - 6 - Events(r)])
  /\ s[12 + Events(r)] = Node("num_of_actions", r.num_of_actions)
  /\ s[13 + Events(r)] = Node("action", Absent)
  /\ \A j \in 14 + Events(r)..13 + Events(r) + Listed(r) :
       s[j] = Node("A", [index |-> j - 13 - Events(r),
                         act |-> r.actions[j - 13 - Events(r)]])
  /\ s[14 + Events(r) + Listed(r)] = Node("next-state", r.next_state)
  /\ s[15 + Events(r) + Listed(r)] = Node("/state-table-row-entries", Absent)

LEMMA RowNodesAre ==
  ASSUME NEW r \in RowOfDocument
  PROVE  Len(RowNodes(r)) = Size(r) /\ NodesAre(RowNodes(r), r)
<1> DEFINE e == Events(r)
           a == Listed(r)
           s1 == <<Node("state-table-row-entries", Absent), Node("state", r.state),
                   Node("input-events", Absent),
                   Node("num_of_row_evnts", r.num_of_row_evnts)>>
           s2 == [i \in DOMAIN r.events |-> Node("event", r.events[i])]
           s3 == <<Optional("threshold", r.threshold),
                   IF DOMAIN r.flow = {} THEN Ignored ELSE Node("flow_to_install", Absent)>>
           s4 == [i \in DOMAIN FlowFields |-> FieldNode(r, FlowFields[i])]
           s5 == <<Node("num_of_actions", r.num_of_actions), Node("action", Absent)>>
           s6 == [i \in DOMAIN r.actions |->
                    Node("A", [index |-> i, act |-> r.actions[i]])]
           s7 == <<Node("next-state", r.next_state),
                   Node("/state-table-row-entries", Absent)>>
           S == {s1[k] : k \in 1..4} \cup {s2[k] : k \in 1..e} \cup {s3[k] : k \in 1..2}
                \cup {s4[k] : k \in 1..5} \cup {s5[k] : k \in 1..2}
                \cup {s6[k] : k \in 1..a} \cup {s7[k] : k \in 1..2}
<1>1. /\ e \in Nat /\ a \in Nat
      /\ DOMAIN r.events = 1..e /\ DOMAIN r.actions = 1..a
  BY DEF RowOfDocument, Events, Listed
<1>2. DOMAIN FlowFields = 1..5
  BY DEF FlowFields
<1>3. Len(s1) = 4 /\ Len(s3) = 2 /\ Len(s5) = 2 /\ Len(s7) = 2
  OBVIOUS
<1>4. s1 \in Seq(S) /\ s3 \in Seq(S) /\ s5 \in Seq(S) /\ s7 \in Seq(S)
  <2>1. \A k \in 1..4 : s1[k] \in S
    OBVIOUS
  <2>2. \A k \in 1..2 : s3[k] \in S /\ s5[k] \in S /\ s7[k] \in S
    OBVIOUS
  <2> HIDE DEF S
  <2> QED
    BY <2>1, <2>2
<1>5. s2 \in Seq(S) /\ Len(s2) = e
  <2>1. s2 \in [1..e -> S]
    BY <1>1
  <2> HIDE DEF s2, S, e
  <2> QED
    BY <1>1, <2>1, LenProperties
<1>6. s6 \in Seq(S) /\ Len(s6) = a
  <2>1. s6 \in [1..a -> S]
    BY <1>1
  <2> HIDE DEF s6, S, a
  <2> QED
    BY <1>1, <2>1, LenProperties
<1>7. s4 \in Seq(S) /\ Len(s4) = 5
  <2> DEFINE n == 5
  <2>1. n \in Nat /\ s4 \in [1..n -> S]
    BY <1>2
  <2> HIDE DEF s4, S, n
  <2>2. s4 \in Seq(S) /\ Len(s4) = n
    BY <2>1, LenProperties
  <2> QED
    BY <2>2 DEF n
<1>8. RowNodes(r) = s1 \o s2 \o s3 \o s4 \o s5 \o s6 \o s7
  BY DEF RowNodes, Events, FieldNode
<1> HIDE DEF s1, s2, s3, s4, s5, s6, s7, S, e, a
<1> DEFINE t2 == s1 \o s2
           t3 == t2 \o s3
           t4 == t3 \o s4
           t5 == t4 \o s5
           t6 == t5 \o s6
           t7 == t6 \o s7
<1>12. /\ t2 \in Seq(S) /\ Len(t2) = 4 + e
       /\ \A k \in 1..4 + e : t2[k] = IF k <= 4 THEN s1[k] ELSE s2[k - 4]
  <2>1. s1 \in Seq(S) /\ s2 \in Seq(S)
    BY <1>4, <1>5
  <2>2. /\ t2 \in Seq(S) /\ Len(t2) = Len(s1) + Len(s2)
        /\ \A k \in 1..Len(s1) + Len(s2) :
             t2[k] = IF k <= Len(s1) THEN s1[k] ELSE s2[k - Len(s1)]
    BY <2>1, ConcatProperties
  <2>3. Len(s1) = 4 /\ Len(s1) + Len(s2) = 4 + e
    BY <1>1, <1>3, <1>5
  <2> QED
    BY <2>2, <2>3
<1> HIDE DEF t2
<1>13. /\ t3 \in Seq(S) /\ Len(t3) = 6 + e
       /\ \A k \in 1..6 + e : t3[k] = IF k <= 4 + e THEN t2[k] ELSE s3[k - (4 + e)]
  <2>1. t2 \in Seq(S) /\ s3 \in Seq(S)
    BY <1>12, <1>4
  <2>2. /\ t3 \in Seq(S) /\ Len(t3) = Len(t2) + Len(s3)
        /\ \A k \in 1..Len(t2) + Len(s3) :
             t3[k] = IF k <= Len(t2) THEN t2[k] ELSE s3[k - Len(t2)]
    BY <2>1, ConcatProperties
  <2>3. Len(t2) = 4 + e /\ Len(t2) + Len(s3) = 6 + e
    BY <1>1, <1>12, <1>3
  <2> QED
    BY <2>2, <2>3
<1> HIDE DEF t3
<1>14. /\ t4 \in Seq(S) /\ Len(t4) = 11 + e
       /\ \A k \in 1..11 + e : t4[k] = IF k <= 6 + e THEN t3[k] ELSE s4[k - (6 + e)]
  <2>1. t3 \in Seq(S) /\ s4 \in Seq(S)
    BY <1>13, <1>7
  <2>2. /\ t4 \in Seq(S) /\ Len(t4) = Len(t3) + Len(s4)
        /\ \A k \in 1..Len(t3) + Len(s4) :
             t4[k] = IF k <= Len(t3) THEN t3[k] ELSE s4[k - Len(t3)]
    BY <2>1, ConcatProperties
  <2>3. Len(t3) = 6 + e /\ Len(t3) + Len(s4) = 11 + e
    BY <1>1, <1>13, <1>7
  <2> QED
    BY <2>2, <2>3
<1> HIDE DEF t4
<1>15. /\ t5 \in Seq(S) /\ Len(t5) = 13 + e
       /\ \A k \in 1..13 + e : t5[k] = IF k <= 11 + e THEN t4[k] ELSE s5[k - (11 + e)]
  <2>1. t4 \in Seq(S) /\ s5 \in Seq(S)
    BY <1>14, <1>4
  <2>2. /\ t5 \in Seq(S) /\ Len(t5) = Len(t4) + Len(s5)
        /\ \A k \in 1..Len(t4) + Len(s5) :
             t5[k] = IF k <= Len(t4) THEN t4[k] ELSE s5[k - Len(t4)]
    BY <2>1, ConcatProperties
  <2>3. Len(t4) = 11 + e /\ Len(t4) + Len(s5) = 13 + e
    BY <1>1, <1>14, <1>3
  <2> QED
    BY <2>2, <2>3
<1> HIDE DEF t5
<1>16. /\ t6 \in Seq(S) /\ Len(t6) = 13 + e + a
       /\ \A k \in 1..13 + e + a : t6[k] = IF k <= 13 + e THEN t5[k] ELSE s6[k - (13 + e)]
  <2>1. t5 \in Seq(S) /\ s6 \in Seq(S)
    BY <1>15, <1>6
  <2>2. /\ t6 \in Seq(S) /\ Len(t6) = Len(t5) + Len(s6)
        /\ \A k \in 1..Len(t5) + Len(s6) :
             t6[k] = IF k <= Len(t5) THEN t5[k] ELSE s6[k - Len(t5)]
    BY <2>1, ConcatProperties
  <2>3. Len(t5) = 13 + e /\ Len(t5) + Len(s6) = 13 + e + a
    BY <1>1, <1>15, <1>6
  <2> QED
    BY <2>2, <2>3
<1> HIDE DEF t6
<1>17. /\ t7 \in Seq(S) /\ Len(t7) = 15 + e + a
       /\ \A k \in 1..15 + e + a : t7[k] = IF k <= 13 + e + a THEN t6[k] ELSE s7[k - (13 + e + a)]
  <2>1. t6 \in Seq(S) /\ s7 \in Seq(S)
    BY <1>16, <1>4
  <2>2. /\ t7 \in Seq(S) /\ Len(t7) = Len(t6) + Len(s7)
        /\ \A k \in 1..Len(t6) + Len(s7) :
             t7[k] = IF k <= Len(t6) THEN t6[k] ELSE s7[k - Len(t6)]
    BY <2>1, ConcatProperties
  <2>3. Len(t6) = 13 + e + a /\ Len(t6) + Len(s7) = 15 + e + a
    BY <1>1, <1>16, <1>3
  <2> QED
    BY <2>2, <2>3
<1> HIDE DEF t7
<1>18. RowNodes(r) = t7
  BY <1>8 DEF t2, t3, t4, t5, t6, t7
<1>20. /\ s1[1] = Node("state-table-row-entries", Absent)
       /\ s1[2] = Node("state", r.state)
       /\ s1[3] = Node("input-events", Absent)
       /\ s1[4] = Node("num_of_row_evnts", r.num_of_row_evnts)
  BY DEF s1
<1>21. \A k \in 1..e : s2[k] = Node("event", r.events[k])
  BY <1>1 DEF s2
<1>22. /\ s3[1] = Optional("threshold", r.threshold)
       /\ s3[2] = IF DOMAIN r.flow = {} THEN Ignored ELSE Node("flow_to_install", Absent)
  BY DEF s3
<1>23. \A k \in 1..5 : s4[k] = FieldNode(r, FlowFields[k])
  BY <1>2 DEF s4
<1>24. s5[1] = Node("num_of_actions", r.num_of_actions) /\ s5[2] = Node("action", Absent)
  BY DEF s5
<1>25. \A k \in 1..a : s6[k] = Node("A", [index |-> k, act |-> r.actions[k]])
  BY <1>1 DEF s6
<1>26. /\ s7[1] = Node("next-state", r.next_state)
       /\ s7[2] = Node("/state-table-row-entries", Absent)
  BY DEF s7
<1>27. \A k \in 1..13 + e + a : t7[k] = t6[k]
  BY <1>1, <1>17
<1>28. \A k \in 1..13 + e : t7[k] = t5[k]
  BY <1>1, <1>16, <1>27
<1>29. \A k \in 1..11 + e : t7[k] = t4[k]
  BY <1>1, <1>15, <1>28
<1>30. \A k \in 1..6 + e : t7[k] = t3[k]
  BY <1>1, <1>14, <1>29
<1>31. \A k \in 1..4 + e : t7[k] = t2[k]
  BY <1>1, <1>13, <1>30
<1>32. \A k \in 1..4 : t7[k] = s1[k]
  BY <1>1, <1>12, <1>31
<1>33. \A k \in 5..4 + e : t7[k] = s2[k - 4]
  BY <1>1, <1>12, <1>31
<1>34. \A k \in 5 + e..6 + e : t7[k] = s3[k - (4 + e)]
  BY <1>1, <1>13, <1>30
<1>35. \A k \in 7 + e..11 + e : t7[k] = s4[k - (6 + e)]
  BY <1>1, <1>14, <1>29
<1>36. \A k \in 12 + e..13 + e : t7[k] = s5[k - (11 + e)]
  BY <1>1, <1>15, <1>28
<1>37. \A k \in 14 + e..13 + e + a : t7[k] = s6[k - (13 + e)]
  BY <1>1, <1>16, <1>27
<1>38. \A k \in 14 + e + a..15 + e + a : t7[k] = s7[k - (13 + e + a)]
  BY <1>1, <1>17
<1>40. Len(t7) = 15 + e + a
  BY <1>17
<1> HIDE DEF s1, s2, s3, s4, s5, s6, s7
<1>41. t7[1] = s1[1] /\ t7[2] = s1[2] /\ t7[3] = s1[3] /\ t7[4] = s1[4]
  BY <1>32
<1>42. \A j \in 5..4 + e : t7[j] = Node("event", r.events[j - 4])
  BY <1>1, <1>33, <1>21
<1>43. t7[5 + e] = s3[1] /\ t7[6 + e] = s3[2]
  <2>1. 5 + e - (4 + e) = 1 /\ 6 + e - (4 + e) = 2
        /\ 5 + e \in 5 + e..6 + e /\ 6 + e \in 5 + e..6 + e
    BY <1>1
  <2>2. t7[5 + e] = s3[5 + e - (4 + e)] /\ t7[6 + e] = s3[6 + e - (4 + e)]
    BY <1>1, <1>34, <2>1
  <2> QED
    BY <2>1, <2>2
<1>44. \A j \in 7 + e..11 + e : t7[j] = FieldNode(r, FlowFields[j - 6 - e])
  BY <1>1, <1>35, <1>23
<1>45. t7[12 + e] = s5[1] /\ t7[13 + e] = s5[2]
  <2>1. 12 + e - (11 + e) = 1 /\ 13 + e - (11 + e) = 2
        /\ 12 + e \in 12 + e..13 + e /\ 13 + e \in 12 + e..13 + e
    BY <1>1
  <2>2. t7[12 + e] = s5[12 + e - (11 + e)] /\ t7[13 + e] = s5[13 + e - (11 + e)]
    BY <1>1, <1>36, <2>1
  <2> QED
    BY <2>1, <2>2
<1>46. \A j \in 14 + e..13 + e + a :
         t7[j] = Node("A", [index |-> j - 13 - e, act |-> r.actions[j - 13 - e]])
  BY <1>1, <1>37, <1>25
<1>47. t7[14 + e + a] = s7[1] /\ t7[15 + e + a] = s7[2]
  <2>1. 14 + e + a - (13 + e + a) = 1 /\ 15 + e + a - (13 + e + a) = 2
    BY <1>1
  <2> QED
    BY <1>1, <1>38, <2>1
<1> QED
  BY <1>18, <1>20, <1>22, <1>24, <1>26, <1>40, <1>41, <1>42, <1>43, <1>44, <1>45,
     <1>46, <1>47 DEF NodesAre, Size, e, a

LEMMA HeaderIs ==
  ASSUME NEW d \in Documents
  PROVE  /\ Len(Params) \in Nat /\ DOMAIN Params = 1..Len(Params)
         /\ Len(Header(d)) = Len(Params) + 1
         /\ \A j \in 1..Len(Params) :
              Header(d)[j] = Node(Params[j], d.params[Params[j]])
         /\ Header(d)[Len(Params) + 1] = Node("TotalStates", d.total_states)
<1> DEFINE n == Len(Params)
           s == [i \in DOMAIN Params |-> Node(Params[i], d.params[Params[i]])]
           t == <<Node("TotalStates", d.total_states)>>
           S == {s[k] : k \in 1..n} \cup {t[1]}
<1>1. n \in Nat /\ DOMAIN Params = 1..n
  BY DocumentsAssumption
<1>2. s \in Seq(S) /\ Len(s) = n
  <2>1. s \in [1..n -> S]
    BY <1>1
  <2> HIDE DEF s, S, n
  <2> QED
    BY <1>1, <2>1, LenProperties
<1>3. t \in Seq(S) /\ Len(t) = 1
  <2>1. t[1] \in S
    OBVIOUS
  <2> HIDE DEF S
  <2> QED
    BY <2>1
<1>4. /\ Len(s \o t) = n + 1
      /\ \A k \in 1..n + 1 : (s \o t)[k] = IF k <= n THEN s[k] ELSE t[k - n]
  <2>1. /\ Len(s \o t) = Len(s) + Len(t)
        /\ \A k \in 1..Len(s) + Len(t) :
             (s \o t)[k] = IF k <= Len(s) THEN s[k] ELSE t[k - Len(s)]
    <3> HIDE DEF s, t, S
    <3>1. s \in Seq(S) /\ t \in Seq(S)
      BY <1>2, <1>3
    <3> QED
      BY <3>1, ConcatProperties
  <2> HIDE DEF s, t, S, n
  <2>2. Len(s) = n /\ Len(s) + Len(t) = n + 1
    BY <1>1, <1>2, <1>3
  <2> QED
    BY <2>1, <2>2
<1>5. Header(d) = s \o t
  BY DEF Header
<1>6. ASSUME NEW j \in 1..n PROVE (s \o t)[j] = s[j]
  <2> HIDE DEF s, t, n
  <2> QED
    BY <1>1, <1>4
<1>7. (s \o t)[n + 1] = t[1]
  <2> HIDE DEF s, t, n
  <2>1. n + 1 \in 1..n + 1 /\ ~(n + 1 <= n) /\ n + 1 - n = 1
    BY <1>1
  <2>2. (s \o t)[n + 1] = IF n + 1 <= n THEN s[n + 1] ELSE t[n + 1 - n]
    BY <1>1, <1>4
  <2> QED
    BY <1>1, <2>1, <2>2
<1> QED
  BY <1>1, <1>4, <1>5, <1>6, <1>7

(***************************************************************************)
(* The parser's state at each place of the reader.                         *)
(***************************************************************************)

\* The reader, before node j of section i, has read node p of section k.
Seen(i, j, k, p) == k < i \/ (k = i /\ p < j)

\* The events, and the flow, of the row r that have been read before node j.
EventsRead(r, j) ==
  IF j <= 5 THEN 0 ELSE IF j <= 5 + Events(r) THEN j - 5 ELSE Events(r)

FlowRead(r, j) ==
  LET Has(f, k) == j > 6 + Events(r) + k /\ f \in DOMAIN r.flow
  IN  [src_ip |-> IF Has("src_ip", 1) THEN r.flow["src_ip"] ELSE Stray,
       src_mac |-> IF Has("src_mac_mask", 4) THEN r.flow["src_mac_mask"] ELSE Stray,
       dst_mac |-> IF Has("dst_mac_mask", 5) THEN r.flow["dst_mac_mask"]
                   ELSE IF Has("dst_mac", 3) THEN r.flow["dst_mac"] ELSE Stray,
       src_mac_mask |-> Stray, dst_mac_mask |-> Stray]

ActionsRead(r, j) ==
  IF j <= 12 + Events(r) THEN <<>>
  ELSE [m \in 1..r.num_of_actions |->
          IF 13 + Events(r) + m < j THEN r.actions[m] ELSE Stray]

\* The row of the table for r when the nodes of r before node j are read.
RowRead(r, j) ==
  LET e == Events(r)
  IN  [state |-> IF j > 2 THEN r.state ELSE Stray,
       num_of_row_evnts |-> IF j > 4 THEN r.num_of_row_evnts ELSE Stray,
       events |-> [m \in 1..EventsRead(r, j) |-> r.events[m]],
       event |-> EventsRead(r, j),
       port_threshold_exists |-> IF EventsRead(r, j) > 0 THEN TRUE ELSE Stray,
       packet_threshold_exists |->
         IF j > 5 + e /\ r.threshold # Absent THEN TRUE ELSE Stray,
       threshold |-> IF j > 5 + e /\ r.threshold # Absent THEN r.threshold ELSE Stray,
       flow_exists |-> IF j > 6 + e /\ DOMAIN r.flow # {} THEN TRUE ELSE Stray,
       flow |-> FlowRead(r, j),
       num_of_actions |-> IF j > 12 + e THEN r.num_of_actions ELSE Stray,
       action |-> ActionsRead(r, j),
       next_state |-> IF j > 14 + e + Listed(r) THEN r.next_state ELSE Stray]

\* What all of r leaves in its row: the fields of RowFor(r), the place behind the
\* last event of the list, and a flow without the source MAC address, which is
\* not stored, and with each mask in the place of its address.
FlowStored(g) ==
  LET Of(f) == IF f \in DOMAIN g THEN g[f] ELSE Stray
  IN  [src_ip |-> Of("src_ip"), src_mac |-> Of("src_mac_mask"),
       dst_mac |-> IF "dst_mac_mask" \in DOMAIN g THEN g["dst_mac_mask"] ELSE Of("dst_mac"),
       src_mac_mask |-> Stray, dst_mac_mask |-> Stray]

RowStored(r) ==
  [state |-> r.state, num_of_row_evnts |-> r.num_of_row_evnts,
   events |-> r.events, event |-> Len(r.events),
   port_threshold_exists |-> IF r.events = <<>> THEN Stray ELSE TRUE,
   packet_threshold_exists |-> IF r.threshold = Absent THEN Stray ELSE TRUE,
   threshold |-> IF r.threshold = Absent THEN Stray ELSE r.threshold,
   flow_exists |-> IF DOMAIN r.flow = {} THEN Stray ELSE TRUE,
   flow |-> FlowStored(r.flow),
   num_of_actions |-> r.num_of_actions,
   action |-> SubSeq(r.actions, 1, r.num_of_actions),
   next_state |-> r.next_state]

\* The k-th row of the table, and the table.
RowAt(d, i, j, k) ==
  IF k >= Len(d.rows) \/ k >= i THEN StrayRow
  ELSE IF k = i - 1 THEN RowRead(d.rows[i], j) ELSE RowStored(d.rows[k + 1])

TableAt(d, i, j) ==
  IF i = 0 \/ (i = 1 /\ j = 1) THEN <<>>
  ELSE [k \in 0..d.total_states - 1 |-> RowAt(d, i, j, k)]

LoopAt(d, i, j) ==
  IF i \notin 1..Len(d.rows) \/ j <= 3 THEN "document"
  ELSE IF j \in 14 + Events(d.rows[i])..13 + Events(d.rows[i]) + d.rows[i].num_of_actions
  THEN "actions" ELSE "events"

\* The count goes up before the end of the row.
CountAt(d, i, j) ==
  IF i = 0 \/ (i \in 1..Len(d.rows) /\ j = Size(d.rows[i])) THEN i ELSE i - 1

\* x is among the announced actions of the rows as far as they are read.
ActionSeen(d, i, j, x) ==
  \E k \in 1..Len(d.rows) : \E m \in 1..d.rows[k].num_of_actions :
    d.rows[k].actions[m] = x /\ Seen(i, j, k, 13 + Events(d.rows[k]) + m)

\* The row k has a source address, which has been read.
SourceSeen(d, i, j, k) ==
  "src_ip" \in DOMAIN d.rows[k].flow /\ Seen(i, j, k, 7 + Events(d.rows[k]))

\* The number of nodes of a section.
NodesOf(d, i) == IF i = 0 THEN Len(Params) + 1 ELSE Size(d.rows[i])

Placed ==
  /\ document \in Documents /\ section \in 0..Len(document.rows) + 1 /\ pos \in Nat \ {0}
  /\ IF section = Len(document.rows) + 1 THEN pos = 1
     ELSE pos <= NodesOf(document, section)

PlaceInv == document \in Sound /\ Placed

HeadInv ==
  /\ params \in [Param -> Value \cup {Absent}]
  /\ \A m \in 1..Len(Params) :
       Seen(section, pos, 0, m) => params[Params[m]] = document.params[Params[m]]
  /\ total_states = IF section = 0 THEN 0 ELSE document.total_states

LoopInv ==
  /\ \/ loop = LoopAt(document, section, pos)
     \/ loop = "parsed" /\ section = Len(document.rows) + 1
  /\ action_count \in Nat
  /\ loop = "actions" => action_count = pos - 14 - Events(document.rows[section])

TableInv ==
  /\ current_row_count = CountAt(document, section, pos)
  /\ state_table_rows = TableAt(document, section, pos)

SourceInv ==
  /\ source_ip \in Byte \cup {Absent}
  /\ \A k \in 1..Len(document.rows) :
       /\ SourceSeen(document, section, pos, k)
       /\ \A l \in k + 1..Len(document.rows) : ~SourceSeen(document, section, pos, l)
       => source_ip = FirstByte[document.rows[k].flow["src_ip"]]

FlagsInv == flags = {x \in Notifying : ActionSeen(document, section, pos, x)}

ParserInv ==
  /\ PlaceInv /\ HeadInv /\ LoopInv /\ TableInv /\ SourceInv /\ FlagsInv
  /\ wild = FALSE

\* Before its first node the row is as malloc returned it, behind its last
\* but one all of it is stored.
LEMMA RowReadEnds ==
  ASSUME NEW r \in Complete
  PROVE  /\ RowRead(r, 1) = StrayRow
         /\ RowRead(r, Size(r)) = RowStored(r)
<1> DEFINE e == Events(r)
           a == Listed(r)
           n == r.num_of_actions
           z == Size(r)
<1>1. /\ r \in RowOfDocument /\ e \in Nat /\ a \in Nat /\ n \in 1..a
      /\ z = 15 + e + a
  BY RowFacts DEF Size
<1>2. EventsRead(r, 1) = 0 /\ EventsRead(r, z) = e
  BY <1>1 DEF EventsRead
<1>3. ActionsRead(r, 1) = <<>>
  BY <1>1 DEF ActionsRead
<1>4. ActionsRead(r, z) = SubSeq(r.actions, 1, n)
  <2>1. ActionsRead(r, z) = [m \in 1..n |-> r.actions[m]]
    <3>1. ~(z <= 12 + e) /\ \A m \in 1..n : 13 + e + m < z
      BY <1>1
    <3> HIDE DEF z
    <3> QED
      BY <3>1 DEF ActionsRead
  <2>2. SubSeq(r.actions, 1, n) = [m \in 1..n |-> r.actions[m]]
    BY <1>1 DEF RowOfDocument, Listed
  <2> QED
    BY <2>1, <2>2
<1>5. [m \in 1..e |-> r.events[m]] = r.events
  BY <1>1 DEF RowOfDocument, Events
<1>6. FlowRead(r, 1) = [f \in FlowField |-> Stray]
  BY <1>1 DEF FlowRead, FlowField, FlowFields
<1>7. FlowRead(r, z) = FlowStored(r.flow)
  <2>1. z > 6 + e + 1 /\ z > 6 + e + 3 /\ z > 6 + e + 4 /\ z > 6 + e + 5
    BY <1>1
  <2> HIDE DEF z
  <2> QED
    BY <2>1 DEF FlowRead, FlowStored
<1>8. e = Len(r.events) /\ (e > 0 <=> r.events # <<>>)
  BY <1>1 DEF RowOfDocument, Events
<1>9. [m \in 1..0 |-> r.events[m]] = <<>>
  OBVIOUS
<1>10. RowRead(r, 1) = StrayRow
  <2>1. /\ ~(1 > 2) /\ ~(1 > 4) /\ ~(1 > 5 + e) /\ ~(1 > 6 + e) /\ ~(1 > 12 + e)
        /\ ~(1 > 14 + e + a) /\ ~(0 > 0)
    BY <1>1
  <2> QED
    BY <2>1, <1>2, <1>3, <1>6, <1>9 DEF RowRead, StrayRow
<1>11. RowRead(r, z) = RowStored(r)
  <2>1. /\ z > 2 /\ z > 4 /\ z > 5 + e /\ z > 6 + e /\ z > 12 + e /\ z > 14 + e + a
    BY <1>1
  <2> HIDE DEF z
  <2> QED
    BY <2>1, <1>2, <1>4, <1>5, <1>7, <1>8 DEF RowRead, RowStored
<1> QED
  BY <1>10, <1>11

LEMMA RowReadTyped ==
  ASSUME NEW r \in Complete,
         NEW j \in Nat
  PROVE  RowRead(r, j) \in Row
<1>1. r \in RowOfDocument /\ r.num_of_actions \in 1..Listed(r)
      /\ Events(r) \in Nat /\ Listed(r) \in Nat
  BY RowFacts
<1>2. EventsRead(r, j) \in 0..Events(r)
  BY <1>1 DEF EventsRead
<1>3. [m \in 1..EventsRead(r, j) |-> r.events[m]] \in Seq(Value)
  <2>1. r.events \in Seq(Value) /\ Len(r.events) = Events(r)
    BY <1>1 DEF RowOfDocument, Events
  <2>2. \A m \in 1..EventsRead(r, j) : r.events[m] \in Value
    BY <1>1, <1>2, <2>1
  <2> QED
    BY <1>2, <2>2
<1>4. ActionsRead(r, j) \in Seq(Act \cup {Stray})
  <2>1. r.actions \in Seq(Act) /\ Len(r.actions) = Listed(r)
    BY <1>1 DEF RowOfDocument, Listed
  <2>2. \A m \in 1..r.num_of_actions : r.actions[m] \in Act
    BY <1>1, <2>1
  <2>3. CASE j <= 12 + Events(r)
    BY <2>3 DEF ActionsRead
  <2>4. CASE ~(j <= 12 + Events(r))
    <3> DEFINE n == r.num_of_actions
               f == [m \in 1..n |-> IF 13 + Events(r) + m < j THEN r.actions[m] ELSE Stray]
    <3>1. f \in [1..n -> Act \cup {Stray}] /\ n \in Nat
      BY <1>1, <2>2
    <3>2. ActionsRead(r, j) = f
      BY <2>4 DEF ActionsRead
    <3> HIDE DEF f, n
    <3> QED
      BY <3>1, <3>2
  <2> QED
    BY <2>3, <2>4
<1>5. FlowRead(r, j) \in [FlowField -> Value \cup {Stray}]
  <2>1. \A f \in DOMAIN r.flow : r.flow[f] \in Value
    BY <1>1 DEF RowOfDocument, Flow
  <2> QED
    BY <2>1 DEF FlowRead, FlowField, FlowFields
<1>6. /\ r.state \in Nat /\ r.threshold \in Value \cup {Absent}
      /\ r.num_of_row_evnts \in Nat /\ r.num_of_actions \in Nat /\ r.next_state \in Nat
  BY <1>1 DEF RowOfDocument
<1> QED
  BY <1>1, <1>2, <1>3, <1>4, <1>5, <1>6 DEF RowRead, Row

\* What each node adds to the row.  The lists and the flow stay the same
\* outside of their own nodes.
LEMMA ListsRead ==
  ASSUME NEW r \in Complete,
         NEW j \in 1..Size(r)
  PROVE  /\ j \notin 5..4 + Events(r) => EventsRead(r, j + 1) = EventsRead(r, j)
         /\ j \notin 7 + Events(r)..11 + Events(r) => FlowRead(r, j + 1) = FlowRead(r, j)
         /\ j # 12 + Events(r)
              /\ j \notin 14 + Events(r)..13 + Events(r) + r.num_of_actions
            => ActionsRead(r, j + 1) = ActionsRead(r, j)
<1> DEFINE e == Events(r)
           n == r.num_of_actions
<1>1. e \in Nat /\ n \in Nat /\ j \in Nat
  BY RowFacts DEF Size
<1>2. ASSUME j \notin 5..4 + e PROVE EventsRead(r, j + 1) = EventsRead(r, j)
  BY <1>1, <1>2 DEF EventsRead
<1>3. ASSUME j \notin 7 + e..11 + e PROVE FlowRead(r, j + 1) = FlowRead(r, j)
  <2>1. \A k \in 1..5 : j + 1 > 6 + e + k <=> j > 6 + e + k
    BY <1>1, <1>3
  <2> QED
    BY <2>1 DEF FlowRead
<1>4. ASSUME j # 12 + e, j \notin 14 + e..13 + e + n
      PROVE  ActionsRead(r, j + 1) = ActionsRead(r, j)
  <2>1. j + 1 <= 12 + e <=> j <= 12 + e
    BY <1>1, <1>4
  <2>2. \A m \in 1..n : 13 + e + m < j + 1 <=> 13 + e + m < j
    BY <1>1, <1>4
  <2> QED
    BY <2>1, <2>2 DEF ActionsRead
<1> QED
  BY <1>2, <1>3, <1>4

LEMMA ReadNothing ==
  ASSUME NEW r \in Complete,
         NEW j \in 1..Size(r),
         \/ j \in {1, 3, 13 + Events(r), Size(r)}
         \/ j \in 14 + Events(r) + r.num_of_actions..13 + Events(r) + Listed(r)
         \/ j = 5 + Events(r) /\ r.threshold = Absent
         \/ j = 6 + Events(r) /\ DOMAIN r.flow = {}
         \/ j \in 7 + Events(r)..11 + Events(r)
              /\ FlowFields[j - 6 - Events(r)] \notin DOMAIN r.flow
  PROVE  RowRead(r, j + 1) = RowRead(r, j)
<1> DEFINE e == Events(r)
           a == Listed(r)
           n == r.num_of_actions
           none == r.threshold = Absent
           empty == DOMAIN r.flow = {}
           lacks == FlowFields[j - 6 - e] \notin DOMAIN r.flow
<1>1. /\ e \in Nat /\ a \in Nat /\ n \in Nat /\ n >= 1 /\ n <= a
      /\ j \in Nat /\ Size(r) = 15 + e + a
  BY RowFacts DEF Size
<1>0. \/ j = 1 \/ j = 3 \/ j = 13 + e \/ j = 15 + e + a
      \/ j >= 14 + e + n /\ j <= 13 + e + a
      \/ j = 5 + e /\ none
      \/ j = 6 + e /\ empty
      \/ j >= 7 + e /\ j <= 11 + e /\ lacks
  BY <1>1
<1> HIDE DEF e, a, n, none, empty, lacks
<1>2. FlowRead(r, j + 1) = FlowRead(r, j)
  <2>1. CASE j \notin 7 + e..11 + e
    BY <2>1, ListsRead DEF e
  <2>2. CASE j \in 7 + e..11 + e
    <3>1. FlowFields[j - 6 - e] \notin DOMAIN r.flow
      BY <1>0, <1>1, <2>2 DEF lacks
    <3>2. \A k \in 1..5 : j # 6 + e + k => (j + 1 > 6 + e + k <=> j > 6 + e + k)
      BY <1>1
    <3>3. \A k \in 1..5 : j = 6 + e + k => FlowFields[k] \notin DOMAIN r.flow
      BY <1>1, <3>1
    <3>4. /\ FlowFields[1] = "src_ip" /\ FlowFields[3] = "dst_mac"
          /\ FlowFields[4] = "src_mac_mask" /\ FlowFields[5] = "dst_mac_mask"
      BY DEF FlowFields
    <3> QED
      BY <3>2, <3>3, <3>4 DEF FlowRead, e
  <2> QED
    BY <2>1, <2>2
<1>3. EventsRead(r, j + 1) = EventsRead(r, j) /\ ActionsRead(r, j + 1) = ActionsRead(r, j)
  <2>1. j \notin 5..4 + e /\ j # 12 + e /\ j \notin 14 + e..13 + e + n
    BY <1>0, <1>1
  <2> QED
    BY <2>1, ListsRead DEF e, n
<1>4. /\ j + 1 > 2 <=> j > 2
      /\ j + 1 > 4 <=> j > 4
      /\ none \/ (j + 1 > 5 + e <=> j > 5 + e)
      /\ empty \/ (j + 1 > 6 + e <=> j > 6 + e)
      /\ j + 1 > 12 + e <=> j > 12 + e
      /\ j + 1 > 14 + e + a <=> j > 14 + e + a
  BY <1>0, <1>1
<1> QED
  BY <1>2, <1>3, <1>4 DEF RowRead, e, a, none, empty

\* Two rows that agree but for some fields.
Agree(s, c, fields) ==
  \A f \in {"state", "num_of_row_evnts", "events", "event", "port_threshold_exists",
            "packet_threshold_exists", "threshold", "flow_exists", "flow",
            "num_of_actions", "action", "next_state"} \ fields : s[f] = c[f]

LEMMA UpdatedRow ==
  ASSUME NEW c \in Row, NEW s \in Row
  PROVE  /\ Agree(s, c, {"state"}) =>
              s = [c EXCEPT !.state = s.state]
         /\ Agree(s, c, {"num_of_row_evnts", "events", "event"}) =>
              s = [c EXCEPT !.num_of_row_evnts = s.num_of_row_evnts,
                            !.events = s.events,
                            !.event = s.event]
         /\ Agree(s, c, {"events", "event", "port_threshold_exists"}) =>
              s = [c EXCEPT !.events = s.events,
                            !.event = s.event,
                            !.port_threshold_exists = s.port_threshold_exists]
         /\ Agree(s, c, {"threshold", "packet_threshold_exists"}) =>
              s = [c EXCEPT !.threshold = s.threshold,
                            !.packet_threshold_exists = s.packet_threshold_exists]
         /\ Agree(s, c, {"flow_exists"}) =>
              s = [c EXCEPT !.flow_exists = s.flow_exists]
         /\ Agree(s, c, {"flow"}) =>
              s = [c EXCEPT !.flow = s.flow]
         /\ Agree(s, c, {"num_of_actions", "action"}) =>
              s = [c EXCEPT !.num_of_actions = s.num_of_actions, !.action = s.action]
         /\ Agree(s, c, {"action"}) =>
              s = [c EXCEPT !.action = s.action]
         /\ Agree(s, c, {"next_state"}) =>
              s = [c EXCEPT !.next_state = s.next_state]
<1>1. ASSUME Agree(s, c, {"state"})
      PROVE  s = [c EXCEPT !.state = s.state]
  BY <1>1 DEF Row, Agree
<1>2. ASSUME Agree(s, c, {"num_of_row_evnts", "events", "event"})
      PROVE  s = [c EXCEPT !.num_of_row_evnts = s.num_of_row_evnts,
                           !.events = s.events,
                           !.event = s.event]
  BY <1>2 DEF Row, Agree
<1>3. ASSUME Agree(s, c, {"events", "event", "port_threshold_exists"})
      PROVE  s = [c EXCEPT !.events = s.events,
                           !.event = s.event,
                           !.port_threshold_exists = s.port_threshold_exists]
  BY <1>3 DEF Row, Agree
<1>4. ASSUME Agree(s, c, {"threshold", "packet_threshold_exists"})
      PROVE  s = [c EXCEPT !.threshold = s.threshold,
                           !.packet_threshold_exists = s.packet_threshold_exists]
  BY <1>4 DEF Row, Agree
<1>5. ASSUME Agree(s, c, {"flow_exists"})
      PROVE  s = [c EXCEPT !.flow_exists = s.flow_exists]
  BY <1>5 DEF Row, Agree
<1>6. ASSUME Agree(s, c, {"flow"})
      PROVE  s = [c EXCEPT !.flow = s.flow]
  BY <1>6 DEF Row, Agree
<1>7. ASSUME Agree(s, c, {"num_of_actions", "action"})
      PROVE  s = [c EXCEPT !.num_of_actions = s.num_of_actions, !.action = s.action]
  BY <1>7 DEF Row, Agree
<1>8. ASSUME Agree(s, c, {"action"})
      PROVE  s = [c EXCEPT !.action = s.action]
  BY <1>8 DEF Row, Agree
<1>9. ASSUME Agree(s, c, {"next_state"})
      PROVE  s = [c EXCEPT !.next_state = s.next_state]
  BY <1>9 DEF Row, Agree
<1> QED
  BY <1>1, <1>2, <1>3, <1>4, <1>5, <1>6, <1>7, <1>8, <1>9

\* s is the row for r before node j, field by field.
Fields(s, r, j) ==
  /\ s.state = IF j > 2 THEN r.state ELSE Stray
  /\ s.num_of_row_evnts = IF j > 4 THEN r.num_of_row_evnts ELSE Stray
  /\ s.events = [m \in 1..EventsRead(r, j) |-> r.events[m]]
  /\ s.event = EventsRead(r, j)
  /\ s.port_threshold_exists = IF EventsRead(r, j) > 0 THEN TRUE ELSE Stray
  /\ s.packet_threshold_exists =
       IF j > 5 + Events(r) /\ r.threshold # Absent THEN TRUE ELSE Stray
  /\ s.threshold =
       IF j > 5 + Events(r) /\ r.threshold # Absent THEN r.threshold ELSE Stray
  /\ s.flow_exists = IF j > 6 + Events(r) /\ DOMAIN r.flow # {} THEN TRUE ELSE Stray
  /\ s.flow = FlowRead(r, j)
  /\ s.num_of_actions = IF j > 12 + Events(r) THEN r.num_of_actions ELSE Stray
  /\ s.action = ActionsRead(r, j)
  /\ s.next_state = IF j > 14 + Events(r) + Listed(r) THEN r.next_state ELSE Stray

LEMMA FieldsOf ==
  ASSUME NEW r, NEW j
  PROVE  Fields(RowRead(r, j), r, j)
  BY DEF RowRead, Fields

\* A node changes the fields of its own kind and no other.
Kept(s, c, r, j) ==
  /\ j # 2 => s.state = c.state
  /\ j # 4 => s.num_of_row_evnts = c.num_of_row_evnts
  /\ j \notin 5..4 + Events(r) =>
       /\ s.events = c.events /\ s.event = c.event
       /\ s.port_threshold_exists = c.port_threshold_exists
  /\ j # 5 + Events(r) =>
       /\ s.packet_threshold_exists = c.packet_threshold_exists
       /\ s.threshold = c.threshold
  /\ j # 6 + Events(r) => s.flow_exists = c.flow_exists
  /\ j \notin 7 + Events(r)..11 + Events(r) => s.flow = c.flow
  /\ j # 12 + Events(r) => s.num_of_actions = c.num_of_actions
  /\ j # 12 + Events(r) /\ j \notin 14 + Events(r)..13 + Events(r) + r.num_of_actions
       => s.action = c.action
  /\ j # 14 + Events(r) + Listed(r) => s.next_state = c.next_state

LEMMA FieldsKept ==
  ASSUME NEW r \in Complete,
         NEW j \in 1..Size(r)
  PROVE  Kept(RowRead(r, j + 1), RowRead(r, j), r, j)
<1> DEFINE c == RowRead(r, j)
           s == RowRead(r, j + 1)
<1>1. j \in Nat /\ Events(r) \in Nat /\ Listed(r) \in Nat
  BY RowFacts DEF Size
<1>2. /\ j # 2 => (j + 1 > 2 <=> j > 2)
      /\ j # 4 => (j + 1 > 4 <=> j > 4)
      /\ j # 5 + Events(r) => (j + 1 > 5 + Events(r) <=> j > 5 + Events(r))
      /\ j # 6 + Events(r) => (j + 1 > 6 + Events(r) <=> j > 6 + Events(r))
      /\ j # 12 + Events(r) => (j + 1 > 12 + Events(r) <=> j > 12 + Events(r))
      /\ j # 14 + Events(r) + Listed(r) =>
           (j + 1 > 14 + Events(r) + Listed(r) <=> j > 14 + Events(r) + Listed(r))
  BY <1>1
<1> Fields(c, r, j) /\ Fields(s, r, j + 1)
  BY FieldsOf
<1> HIDE DEF s, c
<1>3. /\ j # 2 => s.state = c.state
      /\ j # 4 => s.num_of_row_evnts = c.num_of_row_evnts
      /\ j # 5 + Events(r) =>
           /\ s.packet_threshold_exists = c.packet_threshold_exists
           /\ s.threshold = c.threshold
      /\ j # 6 + Events(r) => s.flow_exists = c.flow_exists
      /\ j # 12 + Events(r) => s.num_of_actions = c.num_of_actions
      /\ j # 14 + Events(r) + Listed(r) => s.next_state = c.next_state
  BY <1>2 DEF Fields
<1>4. j \notin 5..4 + Events(r) =>
        /\ s.events = c.events /\ s.event = c.event
        /\ s.port_threshold_exists = c.port_threshold_exists
  <2>1. j \notin 5..4 + Events(r) => EventsRead(r, j + 1) = EventsRead(r, j)
    BY ListsRead
  <2> QED
    BY <2>1, Zenon DEF Fields
<1>5. j \notin 7 + Events(r)..11 + Events(r) => s.flow = c.flow
  BY ListsRead DEF Fields
<1>6. j # 12 + Events(r)
        /\ j \notin 14 + Events(r)..13 + Events(r) + r.num_of_actions
      => s.action = c.action
  BY ListsRead DEF Fields
<1> QED
  BY <1>3, <1>4, <1>5, <1>6 DEF Kept, s, c

LEMMA ReadState ==
  ASSUME NEW r \in Complete,
         NEW j, j = 2
  PROVE  RowRead(r, j + 1) = [RowRead(r, j) EXCEPT !.state = r.state]
<1> DEFINE e == Events(r)
           c == RowRead(r, j)
           s == RowRead(r, j + 1)
<1>1. e \in Nat /\ Listed(r) \in Nat /\ r.num_of_actions \in Nat /\ j \in 1..Size(r)
  BY RowFacts DEF Size
<1>2. /\ j # 4 /\ j \notin 5..4 + e /\ j # 5 + e /\ j # 6 + e
      /\ j \notin 7 + e..11 + e /\ j # 12 + e
      /\ j \notin 14 + e..13 + e + r.num_of_actions /\ j # 14 + e + Listed(r)
  BY <1>1
<1>3. Agree(s, c, {"state"})
  <2>1. Kept(s, c, r, j)
    BY <1>1, FieldsKept
  <2> HIDE DEF s, c
  <2> QED
    BY <1>2, <2>1 DEF Agree, Kept
<1>4. s \in Row /\ c \in Row
  BY <1>1, RowReadTyped
<1>5. Fields(s, r, j + 1)
  BY FieldsOf
<1>6. j + 1 > 2
  BY <1>1
<1> HIDE DEF s, c
<1>7. s.state = r.state
  BY <1>5, <1>6 DEF Fields
<1>8. s = [c EXCEPT !.state = s.state]
  BY <1>3, <1>4, UpdatedRow
<1> QED
  BY <1>7, <1>8 DEF s, c

LEMMA ReadNumOfEvents ==
  ASSUME NEW r \in Complete,
         NEW j, j = 4
  PROVE  RowRead(r, j + 1) = [RowRead(r, j) EXCEPT !.num_of_row_evnts = r.num_of_row_evnts,
                                                   !.events = <<>>, !.event = 0]
<1> DEFINE e == Events(r)
           c == RowRead(r, j)
           s == RowRead(r, j + 1)
<1>1. e \in Nat /\ Listed(r) \in Nat /\ r.num_of_actions \in Nat /\ j \in 1..Size(r)
  BY RowFacts DEF Size
<1>2. /\ j # 2 /\ j \notin 5..4 + e /\ j # 5 + e /\ j # 6 + e
      /\ j \notin 7 + e..11 + e /\ j # 12 + e
      /\ j \notin 14 + e..13 + e + r.num_of_actions /\ j # 14 + e + Listed(r)
  BY <1>1
<1>3. Agree(s, c, {"num_of_row_evnts", "events", "event"})
  <2>1. Kept(s, c, r, j)
    BY <1>1, FieldsKept
  <2> HIDE DEF s, c
  <2> QED
    BY <1>2, <2>1 DEF Agree, Kept
<1>4. s \in Row /\ c \in Row
  BY <1>1, RowReadTyped
<1>5. Fields(s, r, j + 1)
  BY FieldsOf
<1>6. j + 1 > 4 /\ EventsRead(r, j + 1) = 0
  BY <1>1 DEF EventsRead
<1> HIDE DEF s, c
<1>7. s.num_of_row_evnts = r.num_of_row_evnts /\ s.events = <<>> /\ s.event = 0
  <2>1. [m \in 1..0 |-> r.events[m]] = <<>>
    OBVIOUS
  <2> QED
    BY <1>5, <1>6, <2>1 DEF Fields
<1>8. s = [c EXCEPT !.num_of_row_evnts = s.num_of_row_evnts, !.events = s.events,
                    !.event = s.event]
  BY <1>3, <1>4, UpdatedRow
<1> QED
  BY <1>7, <1>8 DEF s, c

\* The row s is the row c with one event more, for which there is room.
EventAdded(s, c, event) ==
  /\ c.event < c.num_of_row_evnts
  /\ s = [c EXCEPT !.events = Append(@, event), !.event = @ + 1,
                   !.port_threshold_exists = TRUE]

LEMMA ReadEvent ==
  ASSUME NEW r \in Complete,
         NEW j \in 5..4 + Events(r)
  PROVE  EventAdded(RowRead(r, j + 1), RowRead(r, j), r.events[j - 4])
<1> DEFINE e == Events(r)
           c == RowRead(r, j)
           s == RowRead(r, j + 1)
           es == [m \in 1..j - 5 |-> r.events[m]]
           fs == [m \in 1..j - 4 |-> r.events[m]]
<1>1. /\ r \in RowOfDocument /\ e \in Nat /\ Listed(r) \in Nat /\ j \in 1..Size(r)
      /\ r.num_of_actions \in Nat /\ j \in Nat /\ j >= 5 /\ j <= 4 + e
      /\ r.num_of_row_evnts \in Nat /\ e <= r.num_of_row_evnts
  BY RowFacts DEF Size
<1>2. /\ j # 2 /\ j # 4 /\ j # 5 + e /\ j # 6 + e
      /\ j \notin 7 + e..11 + e /\ j # 12 + e
      /\ j \notin 14 + e..13 + e + r.num_of_actions /\ j # 14 + e + Listed(r)
  BY <1>1
<1>3. Agree(s, c, {"events", "event", "port_threshold_exists"})
  <2>1. Kept(s, c, r, j)
    BY <1>1, FieldsKept
  <2> HIDE DEF s, c
  <2> QED
    BY <1>2, <2>1 DEF Agree, Kept
<1>4. s \in Row /\ c \in Row
  BY <1>1, RowReadTyped
<1>5. Fields(s, r, j + 1) /\ Fields(c, r, j)
  BY FieldsOf
<1>6. EventsRead(r, j) = j - 5 /\ EventsRead(r, j + 1) = j - 4 /\ j > 4 /\ j - 4 > 0
  BY <1>1 DEF EventsRead
<1>7. Append(es, r.events[j - 4]) = fs
  <2>1. \A m \in 1..j - 4 : r.events[m] \in Value
    BY <1>1 DEF RowOfDocument, Events
  <2>2. es \in [1..j - 5 -> Value] /\ j - 5 \in Nat
    BY <1>1, <2>1
  <2>3. es \in Seq(Value) /\ Len(es) = j - 5
    <3> HIDE DEF es
    <3> QED
      BY <2>2, LenProperties
  <2>4. Append(es, r.events[j - 4]) =
          [m \in 1..j - 4 |-> IF m = j - 4 THEN r.events[j - 4] ELSE es[m]]
    <3>1. r.events[j - 4] \in Value
      BY <1>1, <2>1
    <3> HIDE DEF es
    <3> QED
      BY <1>1, <2>3, <3>1
  <2> QED
    BY <1>1, <2>4
<1> HIDE DEF s, c
<1>8. /\ c.events = es /\ c.event = j - 5 /\ c.num_of_row_evnts = r.num_of_row_evnts
      /\ s.events = fs /\ s.event = j - 4 /\ s.port_threshold_exists = TRUE
  BY <1>5, <1>6 DEF Fields
<1>9. j - 5 < r.num_of_row_evnts /\ (j - 5) + 1 = j - 4
  BY <1>1
<1> HIDE DEF es, fs
<1>10. s = [c EXCEPT !.events = s.events, !.event = s.event,
                     !.port_threshold_exists = s.port_threshold_exists]
  BY <1>3, <1>4, UpdatedRow
<1> QED
  BY <1>7, <1>8, <1>9, <1>10 DEF EventAdded, s, c

LEMMA ReadThreshold ==
  ASSUME NEW r \in Complete,
         NEW j, j = 5 + Events(r), r.threshold # Absent
  PROVE  RowRead(r, j + 1) = [RowRead(r, j) EXCEPT !.threshold = r.threshold,
                                                   !.packet_threshold_exists = TRUE]
<1> DEFINE e == Events(r)
           c == RowRead(r, j)
           s == RowRead(r, j + 1)
<1>1. e \in Nat /\ Listed(r) \in Nat /\ r.num_of_actions \in Nat /\ j \in 1..Size(r)
  BY RowFacts DEF Size
<1>2. /\ j # 2 /\ j # 4 /\ j \notin 5..4 + e /\ j # 6 + e
      /\ j \notin 7 + e..11 + e /\ j # 12 + e
      /\ j \notin 14 + e..13 + e + r.num_of_actions /\ j # 14 + e + Listed(r)
  BY <1>1
<1>3. Agree(s, c, {"threshold", "packet_threshold_exists"})
  <2>1. Kept(s, c, r, j)
    BY <1>1, FieldsKept
  <2> HIDE DEF s, c
  <2> QED
    BY <1>2, <2>1 DEF Agree, Kept
<1>4. s \in Row /\ c \in Row
  BY <1>1, RowReadTyped
<1>5. Fields(s, r, j + 1)
  BY FieldsOf
<1>6. j + 1 > 5 + e
  BY <1>1
<1> HIDE DEF s, c
<1>7. s.threshold = r.threshold /\ s.packet_threshold_exists = TRUE
  BY <1>5, <1>6 DEF Fields
<1>8. s = [c EXCEPT !.threshold = s.threshold,
                    !.packet_threshold_exists = s.packet_threshold_exists]
  BY <1>3, <1>4, UpdatedRow
<1> QED
  BY <1>7, <1>8 DEF s, c

\* The row s is the row c with a flow, if the row r of the document has one.
FlowAdded(s, c, r) == DOMAIN r.flow # {} => s = [c EXCEPT !.flow_exists = TRUE]

LEMMA ReadFlowToInstall ==
  ASSUME NEW r \in Complete,
         NEW j, j = 6 + Events(r)
  PROVE  FlowAdded(RowRead(r, j + 1), RowRead(r, j), r)
<1> SUFFICES ASSUME DOMAIN r.flow # {}
             PROVE  RowRead(r, j + 1) = [RowRead(r, j) EXCEPT !.flow_exists = TRUE]
  BY DEF FlowAdded
<1> DEFINE e == Events(r)
           c == RowRead(r, j)
           s == RowRead(r, j + 1)
<1>1. e \in Nat /\ Listed(r) \in Nat /\ r.num_of_actions \in Nat /\ j \in 1..Size(r)
  BY RowFacts DEF Size
<1>2. /\ j # 2 /\ j # 4 /\ j \notin 5..4 + e /\ j # 5 + e
      /\ j \notin 7 + e..11 + e /\ j # 12 + e
      /\ j \notin 14 + e..13 + e + r.num_of_actions /\ j # 14 + e + Listed(r)
  BY <1>1
<1>3. Agree(s, c, {"flow_exists"})
  <2>1. Kept(s, c, r, j)
    BY <1>1, FieldsKept
  <2> HIDE DEF s, c
  <2> QED
    BY <1>2, <2>1 DEF Agree, Kept
<1>4. s \in Row /\ c \in Row
  BY <1>1, RowReadTyped
<1>5. Fields(s, r, j + 1)
  BY FieldsOf
<1>6. j + 1 > 6 + e
  BY <1>1
<1> HIDE DEF s, c
<1>7. s.flow_exists = TRUE
  BY <1>5, <1>6 DEF Fields
<1>8. s = [c EXCEPT !.flow_exists = s.flow_exists]
  BY <1>3, <1>4, UpdatedRow
<1> QED
  BY <1>7, <1>8 DEF s, c

\* The row s is the row c with the value v where StoredIn says of the field x.
FieldStored(s, c, x, v) ==
  s = [c EXCEPT !.flow = [f \in FlowField |-> IF f \in StoredIn(x) THEN v ELSE @[f]]]

LEMMA ReadFlowField ==
  ASSUME NEW r \in Complete,
         NEW k \in 1..5, NEW j, j = 6 + Events(r) + k,
         FlowFields[k] \in DOMAIN r.flow
  PROVE  FieldStored(RowRead(r, j + 1), RowRead(r, j), FlowFields[k],
                     r.flow[FlowFields[k]])
<1> DEFINE e == Events(r)
           v == r.flow[FlowFields[k]]
           c == RowRead(r, j)
           s == RowRead(r, j + 1)
           stored == [f \in FlowField |-> IF f \in StoredIn(FlowFields[k])
                                          THEN v ELSE FlowRead(r, j)[f]]
<1>1. /\ e \in Nat /\ Listed(r) \in Nat /\ r.num_of_actions \in Nat
      /\ j \in 1..Size(r) /\ j \in Nat /\ k \in Nat /\ k >= 1 /\ k <= 5
      /\ j = 6 + e + k
  BY RowFacts DEF Size
<1>2. /\ j # 2 /\ j # 4 /\ j \notin 5..4 + e /\ j # 5 + e /\ j # 6 + e /\ j # 12 + e
      /\ j \notin 14 + e..13 + e + r.num_of_actions /\ j # 14 + e + Listed(r)
  <2> HIDE DEF e
  <2> QED
    BY <1>1
<1>3. Agree(s, c, {"flow"})
  <2>1. Kept(s, c, r, j)
    BY <1>1, FieldsKept
  <2> HIDE DEF s, c
  <2> QED
    BY <1>2, <2>1 DEF Agree, Kept
<1>4. s \in Row /\ c \in Row
  BY <1>1, RowReadTyped
<1>5. Fields(s, r, j + 1) /\ Fields(c, r, j)
  BY FieldsOf
<1>6. FlowRead(r, j + 1) = stored
  <2>1. \A m \in 1..5 : (j > 6 + e + m <=> k > m) /\ (j + 1 > 6 + e + m <=> k >= m)
    BY <1>1
  <2>2. k = 1 \/ k = 2 \/ k = 3 \/ k = 4 \/ k = 5
    OBVIOUS
  <2>3. CASE k = 1
    BY <2>1, <2>3 DEF FlowRead, StoredIn, FlowField, FlowFields
  <2>4. CASE k = 2
    BY <2>1, <2>4 DEF FlowRead, StoredIn, FlowField, FlowFields
  <2>5. CASE k = 3
    BY <2>1, <2>5 DEF FlowRead, StoredIn, FlowField, FlowFields
  <2>6. CASE k = 4
    BY <2>1, <2>6 DEF FlowRead, StoredIn, FlowField, FlowFields
  <2>7. CASE k = 5
    BY <2>1, <2>7 DEF FlowRead, StoredIn, FlowField, FlowFields
  <2> QED
    BY <2>2, <2>3, <2>4, <2>5, <2>6, <2>7
<1> HIDE DEF s, c
<1>7. s.flow = stored /\ c.flow = FlowRead(r, j)
  BY <1>5, <1>6 DEF Fields
<1>8. s = [c EXCEPT !.flow = s.flow]
  BY <1>3, <1>4, UpdatedRow
<1> QED
  BY <1>7, <1>8 DEF FieldStored, s, c

LEMMA ReadNumOfActions ==
  ASSUME NEW r \in Complete,
         NEW j, j = 12 + Events(r)
  PROVE  RowRead(r, j + 1) =
           [RowRead(r, j) EXCEPT !.num_of_actions = r.num_of_actions,
                                 !.action = [m \in 1..r.num_of_actions |-> Stray]]
<1> DEFINE e == Events(r)
           c == RowRead(r, j)
           s == RowRead(r, j + 1)
<1>1. e \in Nat /\ Listed(r) \in Nat /\ r.num_of_actions \in Nat /\ j \in 1..Size(r)
  BY RowFacts DEF Size
<1>2. /\ j # 2 /\ j # 4 /\ j \notin 5..4 + e /\ j # 5 + e /\ j # 6 + e
      /\ j \notin 7 + e..11 + e /\ j # 14 + e + Listed(r)
  BY <1>1
<1>3. Agree(s, c, {"num_of_actions", "action"})
  <2>1. Kept(s, c, r, j)
    BY <1>1, FieldsKept
  <2> HIDE DEF s, c
  <2> QED
    BY <1>2, <2>1 DEF Agree, Kept
<1>4. s \in Row /\ c \in Row
  BY <1>1, RowReadTyped
<1>5. Fields(s, r, j + 1)
  BY FieldsOf
<1>6. j + 1 > 12 + e /\ ActionsRead(r, j + 1) = [m \in 1..r.num_of_actions |-> Stray]
  <2>1. j + 1 > 12 + e /\ ~(j + 1 <= 12 + e)
    BY <1>1
  <2>2. \A m \in 1..r.num_of_actions : ~(13 + e + m < j + 1)
    BY <1>1
  <2> QED
    BY <2>1, <2>2 DEF ActionsRead
<1> HIDE DEF s, c
<1>7. s.num_of_actions = r.num_of_actions
      /\ s.action = [m \in 1..r.num_of_actions |-> Stray]
  BY <1>5, <1>6 DEF Fields
<1>8. s = [c EXCEPT !.num_of_actions = s.num_of_actions, !.action = s.action]
  BY <1>3, <1>4, UpdatedRow
<1> QED
  BY <1>7, <1>8 DEF s, c

\* The row s is the row c with the action m of r, for which there is room.
ActionAdded(s, c, r, m) ==
  /\ m \in DOMAIN c.action /\ c.num_of_actions = r.num_of_actions
  /\ s = [c EXCEPT !.action[m] = r.actions[m]]

LEMMA ReadAction ==
  ASSUME NEW r \in Complete,
         NEW m \in 1..r.num_of_actions, NEW j, j = 13 + Events(r) + m
  PROVE  ActionAdded(RowRead(r, j + 1), RowRead(r, j), r, m)
<1> DEFINE e == Events(r)
           n == r.num_of_actions
           c == RowRead(r, j)
           s == RowRead(r, j + 1)
<1>1. /\ e \in Nat /\ Listed(r) \in Nat /\ n \in Nat /\ n <= Listed(r)
      /\ m \in Nat /\ m >= 1 /\ m <= n /\ j \in Nat /\ j = 13 + e + m
      /\ Size(r) = 15 + e + Listed(r)
  BY RowFacts DEF Size
<1>2. /\ j # 2 /\ j # 4 /\ j \notin 5..4 + e /\ j # 5 + e /\ j # 6 + e
      /\ j \notin 7 + e..11 + e /\ j # 12 + e /\ j # 14 + e + Listed(r)
      /\ j \in 1..Size(r)
  <2> HIDE DEF e, n
  <2>1. j > 11 + e /\ j > 12 + e /\ j >= 1
    BY <1>1
  <2>2. j <= Size(r)
    BY <1>1
  <2>3. j # 14 + e + Listed(r)
    BY <1>1
  <2> QED
    BY <1>1, <2>1, <2>2, <2>3
<1>3. Agree(s, c, {"action"})
  <2>1. Kept(s, c, r, j)
    BY <1>2, FieldsKept
  <2> HIDE DEF s, c
  <2> QED
    BY <1>2, <2>1 DEF Agree, Kept
<1>4. s \in Row /\ c \in Row
  BY <1>1, RowReadTyped
<1>5. Fields(s, r, j + 1) /\ Fields(c, r, j)
  BY FieldsOf
<1>6. /\ DOMAIN ActionsRead(r, j) = 1..n
      /\ ActionsRead(r, j + 1) = [ActionsRead(r, j) EXCEPT ![m] = r.actions[m]]
  <2>1. ~(j <= 12 + e) /\ ~(j + 1 <= 12 + e)
    BY <1>1
  <2>2. \A k \in 1..n : (13 + e + k < j <=> k < m) /\ (13 + e + k < j + 1 <=> k <= m)
    BY <1>1
  <2>3. ActionsRead(r, j) = [k \in 1..n |-> IF k < m THEN r.actions[k] ELSE Stray]
    BY <2>1, <2>2 DEF ActionsRead
  <2>4. ActionsRead(r, j + 1) = [k \in 1..n |-> IF k <= m THEN r.actions[k] ELSE Stray]
    BY <2>1, <2>2 DEF ActionsRead
  <2>5. \A k \in 1..n : k <= m <=> k < m \/ k = m
    BY <1>1
  <2>6. m \in 1..n /\ ~(m < m)
    BY <1>1
  <2>7. [ActionsRead(r, j) EXCEPT ![m] = r.actions[m]] =
          [k \in 1..n |-> IF k = m THEN r.actions[m] ELSE IF k < m THEN r.actions[k]
                          ELSE Stray]
    BY <2>3, <2>6, Zenon
  <2>8. ActionsRead(r, j + 1) =
          [k \in 1..n |-> IF k = m THEN r.actions[m] ELSE IF k < m THEN r.actions[k]
                          ELSE Stray]
    <3> HIDE DEF n
    <3>1. \A k \in 1..n : (IF k <= m THEN r.actions[k] ELSE Stray) =
                           IF k = m THEN r.actions[m] ELSE IF k < m THEN r.actions[k]
                           ELSE Stray
      BY <2>5
    <3> QED
      BY <2>4, <3>1, Zenon
  <2>9. DOMAIN ActionsRead(r, j) = 1..n
    BY <2>3
  <2> QED
    BY <2>7, <2>8, <2>9
<1> HIDE DEF s, c
<1>7. /\ s.action = ActionsRead(r, j + 1) /\ c.action = ActionsRead(r, j)
      /\ c.num_of_actions = n
  <2>1. j > 12 + e
    BY <1>1
  <2> QED
    BY <1>5, <2>1 DEF Fields
<1>8. s = [c EXCEPT !.action = s.action]
  BY <1>3, <1>4, UpdatedRow
<1>9. [c EXCEPT !.action[m] = r.actions[m]] = [c EXCEPT !.action = s.action]
  BY <1>4, <1>6, <1>7 DEF Row
<1> QED
  BY <1>1, <1>6, <1>7, <1>8, <1>9 DEF ActionAdded, s, c

LEMMA ReadNextState ==
  ASSUME NEW r \in Complete,
         NEW j, j = 14 + Events(r) + Listed(r)
  PROVE  RowRead(r, j + 1) = [RowRead(r, j) EXCEPT !.next_state = r.next_state]
<1> DEFINE e == Events(r)
           n == r.num_of_actions
           c == RowRead(r, j)
           s == RowRead(r, j + 1)
<1>1. /\ e \in Nat /\ Listed(r) \in Nat /\ n \in Nat /\ n <= Listed(r) /\ j \in Nat
      /\ j = 14 + e + Listed(r) /\ Size(r) = 15 + e + Listed(r)
  BY RowFacts DEF Size
<1>2. /\ j # 2 /\ j # 4 /\ j \notin 5..4 + e /\ j # 5 + e /\ j # 6 + e
      /\ j \notin 7 + e..11 + e /\ j # 12 + e /\ j \notin 14 + e..13 + e + n
      /\ j \in 1..Size(r)
  <2> HIDE DEF e, n
  <2>1. j > 12 + e /\ j > 13 + e + n
    BY <1>1
  <2>2. j >= 1 /\ j <= Size(r)
    BY <1>1
  <2> QED
    BY <1>1, <2>1, <2>2
<1>3. Agree(s, c, {"next_state"})
  <2>1. Kept(s, c, r, j)
    BY <1>2, FieldsKept
  <2> HIDE DEF s, c
  <2> QED
    BY <1>2, <2>1 DEF Agree, Kept
<1>4. s \in Row /\ c \in Row
  BY <1>1, RowReadTyped
<1>5. Fields(s, r, j + 1)
  BY FieldsOf
<1>6. j + 1 > 14 + e + Listed(r)
  BY <1>1
<1> HIDE DEF s, c
<1>7. s.next_state = r.next_state
  BY <1>5, <1>6 DEF Fields
<1>8. s = [c EXCEPT !.next_state = s.next_state]
  BY <1>3, <1>4, UpdatedRow
<1> QED
  BY <1>7, <1>8 DEF s, c

(***************************************************************************)
(* The reader.                                                             *)
(***************************************************************************)

LEMMA TextIs ==
  ASSUME NEW d \in Documents, NEW i \in 0..Len(d.rows)
  PROVE  /\ Text[d][i] = IF i = 0 THEN Header(d) ELSE RowNodes(d.rows[i])
         /\ Len(Text[d][i]) = NodesOf(d, i) /\ NodesOf(d, i) \in Nat \ {0}
<1>1. Text[d][i] = IF i = 0 THEN Header(d) ELSE RowNodes(d.rows[i])
  BY DEF Text
<1>2. CASE i = 0
  BY <1>1, <1>2, HeaderIs DEF NodesOf
<1>3. CASE i # 0
  <2>1. i \in 1..Len(d.rows)
    BY <1>3, DocumentTyped
  <2>2. d.rows[i] \in RowOfDocument
    BY <2>1, DocumentTyped
  <2>3. Events(d.rows[i]) \in Nat /\ Listed(d.rows[i]) \in Nat
    BY <2>2, RowCounts
  <2>4. Len(RowNodes(d.rows[i])) = Size(d.rows[i]) /\ Size(d.rows[i]) \in Nat \ {0}
    BY <2>2, <2>3, RowNodesAre DEF Size
  <2> QED
    BY <1>1, <1>3, <2>4 DEF NodesOf
<1> QED
  BY <1>1, <1>2, <1>3

\* What a node is called says where in a row it is.
Named(x, r, j) ==
  /\ x = "state-table-row-entries" => j = 1
  /\ x = "state" => j = 2
  /\ x = "input-events" => j = 3
  /\ x = "num_of_row_evnts" => j = 4
  /\ x = "event" => j \in 5..4 + Events(r)
  /\ x = "threshold" => j = 5 + Events(r) /\ r.threshold # Absent
  /\ x = "flow_to_install" => j = 6 + Events(r) /\ DOMAIN r.flow # {}
  /\ x \in FlowField =>
       /\ j \in 7 + Events(r)..11 + Events(r) /\ x = FlowFields[j - 6 - Events(r)]
       /\ x \in DOMAIN r.flow
  /\ x = "num_of_actions" => j = 12 + Events(r)
  /\ x = "action" => j = 13 + Events(r)
  /\ x = "A" => j \in 14 + Events(r)..13 + Events(r) + Listed(r)
  /\ x = "next-state" => j = 14 + Events(r) + Listed(r)
  /\ x = "/state-table-row-entries" => j = Size(r)
  /\ x = "#text" => \/ j = 5 + Events(r) /\ r.threshold = Absent
                    \/ j = 6 + Events(r) /\ DOMAIN r.flow = {}
                    \/ /\ j \in 7 + Events(r)..11 + Events(r)
                       /\ FlowFields[j - 6 - Events(r)] \notin DOMAIN r.flow

LEMMA Names ==
  ASSUME NEW r \in RowOfDocument, NEW j \in 1..Size(r)
  PROVE  Named(RowNodes(r)[j].name, r, j)
<1> DEFINE e == Events(r)
           a == Listed(r)
<1>1. e \in Nat /\ a \in Nat /\ j \in Nat /\ Size(r) = 15 + e + a /\ j >= 1 /\ j <= 15 + e + a
  BY DEF RowOfDocument, Events, Listed, Size
<1>2. FlowField = {"src_ip", "src_mac", "dst_mac", "src_mac_mask", "dst_mac_mask"}
  BY DEF FlowField, FlowFields
<1>3. \A k \in 1..5 : FlowFields[k] \in FlowField
  BY DEF FlowField, FlowFields
<1> DEFINE s == RowNodes(r)
           x == s[j].name
<1>4. NodesAre(s, r)
  BY RowNodesAre
<1>5. x = s[j].name
  OBVIOUS
<1> SUFFICES Named(x, r, j)
  BY Zenon
<1> HIDE DEF s, x
<1>10. CASE j = 1
  <2>1. x = "state-table-row-entries"
    BY <1>4, <1>5, <1>10 DEF NodesAre, Node
  <2> QED
    BY <1>2, <1>10, <2>1 DEF Named
<1>11. CASE j = 2
  <2>1. x = "state"
    BY <1>4, <1>5, <1>11 DEF NodesAre, Node
  <2> QED
    BY <1>2, <1>11, <2>1 DEF Named
<1>12. CASE j = 3
  <2>1. x = "input-events"
    BY <1>4, <1>5, <1>12 DEF NodesAre, Node
  <2> QED
    BY <1>2, <1>12, <2>1 DEF Named
<1>13. CASE j = 4
  <2>1. x = "num_of_row_evnts"
    BY <1>4, <1>5, <1>13 DEF NodesAre, Node
  <2> QED
    BY <1>2, <1>13, <2>1 DEF Named
<1>14. CASE j \in 5..4 + e
  <2>1. x = "event"
    <3>1. s[j] = Node("event", r.events[j - 4])
      BY <1>4, <1>5, <1>14 DEF NodesAre
    <3> QED
      BY <1>4, <1>5, <3>1 DEF Node
  <2> QED
    BY <1>2, <1>14, <2>1 DEF Named
<1>15. CASE j = 5 + e
  <2>1. x = IF r.threshold = Absent THEN "#text" ELSE "threshold"
    BY <1>4, <1>5, <1>15 DEF NodesAre, Node, Optional, Ignored
  <2> QED
    BY <1>2, <1>15, <2>1 DEF Named
<1>16. CASE j = 6 + e
  <2>1. x = IF DOMAIN r.flow = {} THEN "#text" ELSE "flow_to_install"
    BY <1>4, <1>5, <1>16 DEF NodesAre, Node, Ignored
  <2> QED
    BY <1>2, <1>16, <2>1 DEF Named
<1>17. CASE j \in 7 + e..11 + e
  <2>1. j - 6 - e \in 1..5
    BY <1>1, <1>17
  <2>2. x = IF FlowFields[j - 6 - e] \in DOMAIN r.flow THEN FlowFields[j - 6 - e]
            ELSE "#text"
    <3>1. s[j] = FieldNode(r, FlowFields[j - 6 - e])
      BY <1>4, <1>5, <1>17 DEF NodesAre
    <3> QED
      BY <1>4, <1>5, <3>1 DEF Node, Ignored, FieldNode
  <2>3. FlowFields[j - 6 - e] \in FlowField
    BY <1>3, <2>1
  <2> QED
    BY <1>2, <1>17, <2>2, <2>3 DEF Named
<1>18. CASE j = 12 + e
  <2>1. x = "num_of_actions"
    BY <1>4, <1>5, <1>18 DEF NodesAre, Node
  <2> QED
    BY <1>2, <1>18, <2>1 DEF Named
<1>19. CASE j = 13 + e
  <2>1. x = "action"
    BY <1>4, <1>5, <1>19 DEF NodesAre, Node
  <2> QED
    BY <1>2, <1>19, <2>1 DEF Named
<1>20. CASE j \in 14 + e..13 + e + a
  <2>1. x = "A"
    <3>1. s[j] = Node("A", [index |-> j - 13 - e, act |-> r.actions[j - 13 - e]])
      BY <1>4, <1>5, <1>20 DEF NodesAre
    <3> QED
      BY <1>4, <1>5, <3>1 DEF Node
  <2> QED
    BY <1>2, <1>20, <2>1 DEF Named
<1>21. CASE j = 14 + e + a
  <2>1. x = "next-state"
    BY <1>4, <1>5, <1>21 DEF NodesAre, Node
  <2> QED
    BY <1>2, <1>21, <2>1 DEF Named
<1>22. CASE j = 15 + e + a
  <2>1. x = "/state-table-row-entries"
    BY <1>4, <1>5, <1>22 DEF NodesAre, Node
  <2> QED
    BY <1>1, <1>2, <1>22, <2>1 DEF Named
<1> QED
  <2> HIDE DEF e, a
  <2>1. \/ j = 1 \/ j = 2 \/ j = 3 \/ j = 4 \/ j \in 5..4 + e \/ j = 5 + e
        \/ j = 6 + e \/ j \in 7 + e..11 + e \/ j = 12 + e \/ j = 13 + e
        \/ j \in 14 + e..13 + e + a \/ j = 14 + e + a \/ j = 15 + e + a
    BY <1>1
  <2> QED
    BY <2>1, <1>10, <1>11, <1>12, <1>13, <1>14, <1>15, <1>16, <1>17, <1>18, <1>19,
       <1>20, <1>21, <1>22, Zenon DEF e, a

\* The row being read.
row == document.rows[section]

LEMMA Moves ==
  ASSUME Placed, More, Read
  PROVE  /\ Placed' /\ document' = document
         /\ Len(document.rows) \in Nat /\ section \in 0..Len(document.rows)
         /\ pos \in 1..NodesOf(document, section)
         /\ pos < NodesOf(document, section) => section' = section /\ pos' = pos + 1
         /\ pos = NodesOf(document, section) => section' = section + 1 /\ pos' = 1
<1> DEFINE N == Len(document.rows)
<1>1. document \in Documents /\ N \in Nat
  BY DocumentTyped DEF Placed
<1>2. section \in 0..N /\ pos \in Nat \ {0} /\ pos <= NodesOf(document, section)
  BY <1>1 DEF Placed, More
<1>3. /\ Len(Text[document][section]) = NodesOf(document, section)
      /\ NodesOf(document, section) \in Nat \ {0}
  BY <1>1, <1>2, TextIs
<1>4. /\ document' = document
      /\ pos < NodesOf(document, section) => section' = section /\ pos' = pos + 1
      /\ pos = NodesOf(document, section) => section' = section + 1 /\ pos' = 1
  BY <1>2, <1>3 DEF Read
<1>5. CASE pos < NodesOf(document, section)
  <2>1. /\ section' = section /\ pos' = pos + 1 /\ pos + 1 \in Nat \ {0}
        /\ pos + 1 <= NodesOf(document, section) /\ section # N + 1
    BY <1>1, <1>2, <1>3, <1>4, <1>5
  <2>2. NodesOf(document', section') = NodesOf(document, section)
    BY <1>4, <2>1
  <2> QED
    BY <1>1, <1>2, <1>3, <1>4, <2>1, <2>2 DEF Placed
<1>6. CASE pos = NodesOf(document, section)
  <2>1. section' = section + 1 /\ pos' = 1 /\ document' = document
    BY <1>4, <1>6
  <2>2. section + 1 \in 0..N + 1
    BY <1>1, <1>2
  <2>3. section + 1 # N + 1 => 1 <= NodesOf(document, section + 1)
    <3>1. ASSUME section + 1 # N + 1 PROVE section + 1 \in 0..N
      BY <1>1, <1>2, <3>1
    <3> QED
      BY <1>1, <3>1, TextIs
  <2>4. NodesOf(document', section') = NodesOf(document, section + 1)
    BY <2>1
  <2>5. document' \in Documents /\ Len(document'.rows) = N /\ 1 \in Nat \ {0}
    BY <1>1, <2>1
  <2>6. section' \in 0..N + 1 /\ (section' # N + 1 => pos' <= NodesOf(document', section'))
    BY <2>1, <2>2, <2>3, <2>4
  <2>7. Placed'
    <3> HIDE DEF N
    <3> QED
      BY <2>1, <2>5, <2>6 DEF Placed
  <2>8. ~(pos < NodesOf(document, section))
    BY <1>2, <1>3, <1>6
  <2> QED
    BY <1>1, <1>2, <1>4, <2>7, <2>8
<1> QED
  BY <1>2, <1>3, <1>4, <1>5, <1>6, <1>1

LEMMA Advance ==
  ASSUME PlaceInv, More, Read
  PROVE  /\ PlaceInv' /\ document' = document
         /\ Len(document.rows) \in Nat /\ section \in 0..Len(document.rows)
         /\ pos \in 1..NodesOf(document, section)
         /\ pos < NodesOf(document, section) => section' = section /\ pos' = pos + 1
         /\ pos = NodesOf(document, section) => section' = section + 1 /\ pos' = 1
  BY Moves DEF PlaceInv

\* Reading a node adds it to those seen, and nothing else.
LEMMA SeenNext ==
  ASSUME PlaceInv, More, Read, NEW k \in 0..Len(document.rows),
         NEW p \in 1..NodesOf(document, k)
  PROVE  Seen(section', pos', k, p) <=>
           Seen(section, pos, k, p) \/ (k = section /\ p = pos)
<1> DEFINE n == NodesOf(document, section)
<1>1. /\ document \in Sound /\ section \in Nat /\ pos \in Nat /\ k \in Nat /\ p \in Nat
      /\ n \in Nat /\ pos <= n /\ (k = section => p <= n)
      /\ pos < n => section' = section /\ pos' = pos + 1
      /\ pos = n => section' = section + 1 /\ pos' = 1
      /\ p >= 1
  <2>1. /\ section \in 0..Len(document.rows) /\ Len(document.rows) \in Nat
        /\ document \in Sound /\ document \in Documents
    BY Advance, DocumentFacts DEF PlaceInv, Placed
  <2>2. NodesOf(document, k) \in Nat /\ n \in Nat
    BY <2>1, TextIs
  <2> QED
    BY <2>1, <2>2, Advance
<1> HIDE DEF n
<1>2. CASE pos < n
  BY <1>1, <1>2 DEF Seen
<1>3. CASE pos = n
  BY <1>1, <1>3 DEF Seen
<1> QED
  BY <1>1, <1>2, <1>3

\* Where the reader is in a row.
LEMMA InRow ==
  ASSUME PlaceInv, section \in 1..Len(document.rows)
  PROVE  /\ document \in Sound /\ More /\ row \in RowOfDocument /\ row \in Complete
         /\ section \in Nat /\ Len(document.rows) \in Nat
         /\ Events(row) \in Nat /\ Listed(row) \in Nat
         /\ row.num_of_actions \in 1..Listed(row) /\ row.num_of_actions <= OneDigit
         /\ pos \in 1..Size(row) /\ Size(row) = 15 + Events(row) + Listed(row)
         /\ NodesOf(document, section) = Size(row)
         /\ node = RowNodes(row)[pos] /\ NodesAre(RowNodes(row), row)
<1>1. document \in Sound /\ document \in Documents /\ Len(document.rows) \in Nat
  BY DocumentFacts DEF PlaceInv, Placed
<1>2. /\ row \in Complete /\ row \in RowOfDocument /\ Events(row) \in Nat /\ Listed(row) \in Nat
      /\ row.num_of_actions \in 1..Listed(row) /\ row.num_of_actions <= OneDigit
  BY <1>1, DocumentRows, RowFacts DEF row
<1>3. section # 0 /\ section # Len(document.rows) + 1 /\ More /\ section \in Nat
  BY <1>1 DEF More
<1>4. NodesOf(document, section) = Size(row) /\ Size(row) = 15 + Events(row) + Listed(row)
  BY <1>3 DEF NodesOf, row, Size
<1>5. pos \in 1..Size(row)
  <2>1. pos \in Nat \ {0} /\ pos <= NodesOf(document, section)
    BY <1>3 DEF PlaceInv, Placed
  <2> QED
    BY <1>2, <1>4, <2>1
<1>6. node = RowNodes(row)[pos]
  <2>1. Text[document][section] = RowNodes(row)
    BY <1>1, <1>3, TextIs DEF row
  <2> QED
    BY <2>1 DEF node
<1> QED
  BY <1>1, <1>2, <1>3, <1>4, <1>5, <1>6, RowNodesAre

\* The scalar fields are done when the rows begin.
LEMMA HeadKept ==
  ASSUME PlaceInv, HeadInv, More, Read, section # 0,
         UNCHANGED <<params, total_states>>
  PROVE  HeadInv'
<1>1. /\ document' = document /\ section \in Nat /\ section >= 1
      /\ section' = section \/ section' = section + 1
  <2>1. document \in Documents /\ section \in 0..Len(document.rows)
    BY Advance, DocumentFacts DEF PlaceInv, Placed
  <2>2. NodesOf(document, section) \in Nat
    BY <2>1, TextIs
  <2> QED
    BY <2>2, Advance
<1>2. \A m \in 1..Len(Params) : Seen(section, pos, 0, m)
  BY <1>1 DEF Seen
<1> QED
  BY <1>1, <1>2 DEF HeadInv

LEMMA SourceKept ==
  ASSUME PlaceInv, SourceInv, More, Read, UNCHANGED source_ip,
         \/ section = 0
         \/ pos # 7 + Events(row)
         \/ "src_ip" \notin DOMAIN row.flow
  PROVE  SourceInv'
<1>1. document' = document /\ document \in Sound /\ Len(document.rows) \in Nat
  BY Advance DEF PlaceInv, Placed
<1>2. ASSUME NEW k \in 1..Len(document.rows)
      PROVE  SourceSeen(document, section', pos', k) <=> SourceSeen(document, section, pos, k)
  <2> DEFINE p == 7 + Events(document.rows[k])
  <2>1. k \in 0..Len(document.rows) /\ p \in 1..NodesOf(document, k)
    <3>1. Events(document.rows[k]) \in Nat /\ Listed(document.rows[k]) \in Nat
      BY <1>1, <1>2, DocumentRows, RowFacts
    <3> QED
      BY <1>1, <1>2, <3>1 DEF NodesOf, Size
  <2>2. Seen(section', pos', k, p) <=>
          Seen(section, pos, k, p) \/ (k = section /\ p = pos)
    <3> HIDE DEF p
    <3> QED
      BY <2>1, SeenNext
  <2>3. k = section /\ p = pos => "src_ip" \notin DOMAIN document.rows[k].flow
    BY <1>2, <1>1 DEF row
  <2> QED
    BY <2>2, <2>3 DEF SourceSeen
<1> QED
  BY <1>1, <1>2 DEF SourceInv

\* Where the announced actions of a row are.
LEMMA ActionPlaces ==
  ASSUME NEW d \in Sound, NEW k \in 1..Len(d.rows),
         NEW m \in 1..d.rows[k].num_of_actions
  PROVE  LET p == 13 + Events(d.rows[k]) + m
         IN  /\ k \in 0..Len(d.rows) /\ p \in 1..NodesOf(d, k)
             /\ p \in 14 + Events(d.rows[k])..13 + Events(d.rows[k]) + d.rows[k].num_of_actions
<1> DEFINE e == Events(d.rows[k])
           a == Listed(d.rows[k])
           n == d.rows[k].num_of_actions
<1>1. e \in Nat /\ a \in Nat /\ n \in Nat /\ n <= a
  BY DocumentRows, RowFacts
<1>2. k # 0 /\ k \in 0..Len(d.rows)
  BY DocumentFacts
<1>3. NodesOf(d, k) = 15 + e + a
  BY <1>2 DEF NodesOf, Size
<1> HIDE DEF e, a, n
<1>4. m \in Nat /\ m >= 1 /\ m <= n
  BY <1>1 DEF n
<1>5. 13 + e + m \in 1..15 + e + a /\ 13 + e + m \in 14 + e..13 + e + n
  BY <1>1, <1>4
<1> QED
  BY <1>2, <1>3, <1>5 DEF e, n

LEMMA FlagsKept ==
  ASSUME PlaceInv, FlagsInv, More, Read, UNCHANGED flags,
         \/ section = 0
         \/ pos \notin 14 + Events(row)..13 + Events(row) + row.num_of_actions
  PROVE  FlagsInv'
<1>1. document' = document /\ document \in Sound /\ Len(document.rows) \in Nat
  BY Advance DEF PlaceInv, Placed
<1>2. ASSUME NEW k \in 1..Len(document.rows),
             NEW m \in 1..document.rows[k].num_of_actions
      PROVE  LET p == 13 + Events(document.rows[k]) + m
             IN  Seen(section', pos', k, p) <=> Seen(section, pos, k, p)
  <2> DEFINE p == 13 + Events(document.rows[k]) + m
  <2>1. /\ k \in 0..Len(document.rows) /\ p \in 1..NodesOf(document, k)
        /\ p \in 14 + Events(document.rows[k])
                 ..13 + Events(document.rows[k]) + document.rows[k].num_of_actions
    BY <1>1, <1>2, ActionPlaces
  <2>2. Seen(section', pos', k, p) <=>
          Seen(section, pos, k, p) \/ (k = section /\ p = pos)
    <3> HIDE DEF p
    <3> QED
      BY <2>1, SeenNext
  <2>3. ~(k = section /\ p = pos)
    BY <1>2, <1>1, <2>1 DEF row
  <2> QED
    BY <2>2, <2>3
<1>3. \A x : ActionSeen(document, section', pos', x) <=> ActionSeen(document, section, pos, x)
  BY <1>2 DEF ActionSeen
<1> QED
  BY <1>1, <1>3 DEF FlagsInv

(***************************************************************************)
(* The table.                                                              *)
(***************************************************************************)

\* Between its first and its last node a row is in the table, where the
\* count says.
LEMMA TempTable ==
  ASSUME PlaceInv, TableInv, section \in 1..Len(document.rows),
         pos >= 2, pos < Size(row)
  PROVE  /\ current_row_count = section - 1
         /\ DOMAIN state_table_rows = 0..document.total_states - 1
         /\ InTable /\ temp_table = RowRead(row, pos)
<1> DEFINE T == document.total_states
           N == Len(document.rows)
<1>1. /\ document \in Sound /\ section \in Nat /\ section >= 1 /\ section <= N
      /\ N \in Nat /\ pos \in Nat
  BY InRow
<1>2. T \in Nat /\ N <= T
  BY <1>1, DocumentFacts
<1>3. current_row_count = section - 1
  BY <1>1 DEF TableInv, CountAt, row
<1>4. state_table_rows = [k \in 0..T - 1 |-> RowAt(document, section, pos, k)]
  BY <1>1 DEF TableInv, TableAt
<1>5. section - 1 \in 0..T - 1
  BY <1>1, <1>2
<1>6. RowAt(document, section, pos, section - 1) = RowRead(row, pos)
  <2>1. ~(section - 1 >= N) /\ ~(section - 1 >= section)
    BY <1>1
  <2> QED
    BY <2>1 DEF RowAt, row
<1> QED
  BY <1>3, <1>4, <1>5, <1>6 DEF InTable, temp_table

LEMMA Filled ==
  ASSUME PlaceInv, TableInv, section \in 1..Len(document.rows),
         pos >= 2, pos < Size(row), NEW r, r = RowRead(row, pos + 1), Fill(r, TRUE),
         wild = FALSE
  PROVE  state_table_rows' = TableAt(document, section, pos + 1) /\ wild' = FALSE
<1> DEFINE T == document.total_states
           N == Len(document.rows)
           f == [k \in 0..T - 1 |-> RowAt(document, section, pos, k)]
           g == [k \in 0..T - 1 |-> RowAt(document, section, pos + 1, k)]
<1>1. /\ section \in Nat /\ section >= 1 /\ section <= N /\ N \in Nat /\ pos \in Nat
      /\ T \in Nat
  BY InRow, DocumentFacts
<1>2. current_row_count = section - 1 /\ InTable
  BY TempTable
<1>3. state_table_rows = f /\ TableAt(document, section, pos + 1) = g
  BY <1>1 DEF TableInv, TableAt
<1>4. state_table_rows' = [f EXCEPT ![section - 1] = r] /\ wild' = FALSE
  BY <1>2, <1>3 DEF Fill
<1>5. ASSUME NEW k \in 0..T - 1
      PROVE  RowAt(document, section, pos + 1, k) =
               IF k = section - 1 THEN r ELSE RowAt(document, section, pos, k)
  <2>1. k = section - 1 => ~(k >= N) /\ ~(k >= section)
    BY <1>1, <1>5
  <2> QED
    BY <2>1 DEF RowAt, row
<1>6. [f EXCEPT ![section - 1] = r] = g
  BY <1>5
<1> QED
  BY <1>3, <1>4, <1>6

LEMMA NotFilled ==
  ASSUME PlaceInv, TableInv, section \in 1..Len(document.rows), pos >= 2,
         RowRead(row, pos + 1) = RowRead(row, pos)
  PROVE  state_table_rows = TableAt(document, section, pos + 1)
<1>1. pos \in Nat /\ section \in Nat
  BY InRow
<1>2. \A k : RowAt(document, section, pos + 1, k) = RowAt(document, section, pos, k)
  BY DEF RowAt, row
<1>3. section # 0 /\ pos # 1 /\ pos + 1 # 1
  BY <1>1
<1> QED
  BY <1>2, <1>3 DEF TableInv, TableAt

\* A row that is read to its end is the row before the next one.
LEMMA Ended ==
  ASSUME NEW d \in Sound, NEW i \in 1..Len(d.rows), NEW j, j = Size(d.rows[i])
  PROVE  TableAt(d, i + 1, 1) = TableAt(d, i, j)
<1> DEFINE N == Len(d.rows)
<1>1. N \in Nat /\ d.total_states \in Nat
  BY DocumentFacts
<1>2. j \in Nat /\ j > 1 /\ RowRead(d.rows[i], j) = RowStored(d.rows[i])
  BY DocumentRows, RowFacts, RowReadEnds DEF Size
<1>3. ASSUME NEW k \in 0..d.total_states - 1
      PROVE  RowAt(d, i + 1, 1, k) = RowAt(d, i, j, k)
  <2>1. CASE k >= N
    BY <2>1 DEF RowAt
  <2>2. CASE ~(k >= N) /\ k = i
    <3>1. i + 1 \in 1..N
      BY <1>1, <2>2
    <3>2. RowRead(d.rows[i + 1], 1) = StrayRow
      BY <3>1, DocumentRows, RowReadEnds
    <3>3. k >= i /\ ~(k >= i + 1) /\ k = i + 1 - 1
      BY <2>2
    <3> QED
      BY <3>2, <3>3, <2>2 DEF RowAt
  <2>3. CASE ~(k >= N) /\ k > i
    <3>1. k >= i /\ k >= i + 1
      BY <2>3
    <3> QED
      BY <3>1 DEF RowAt
  <2>4. CASE ~(k >= N) /\ k = i - 1
    <3>1. ~(k >= i) /\ ~(k >= i + 1) /\ k # i + 1 - 1 /\ k + 1 = i
      BY <2>4
    <3> QED
      BY <1>2, <3>1, <2>4 DEF RowAt
  <2>5. CASE ~(k >= N) /\ k < i - 1
    <3>1. ~(k >= i) /\ ~(k >= i + 1) /\ k # i + 1 - 1 /\ k # i - 1
      BY <2>5
    <3> QED
      BY <3>1, <2>5 DEF RowAt
  <2> QED
    BY <2>1, <2>2, <2>3, <2>4, <2>5
<1>4. i # 0 /\ i + 1 # 0 /\ i + 1 # 1 /\ j # 1
  BY <1>2
<1> QED
  BY <1>3, <1>4 DEF TableAt

\* A step inside a row: what is left to show for it.
LEMMA RowStep ==
  ASSUME ParserInv, Read, section \in 1..Len(document.rows), pos < Size(row),
         UNCHANGED <<params, total_states>>,
         loop' = LoopAt(document, section, pos + 1), action_count' \in Nat,
         loop' = "actions" => action_count' = pos + 1 - 14 - Events(row),
         current_row_count' = CountAt(document, section, pos + 1),
         state_table_rows' = TableAt(document, section, pos + 1),
         SourceInv', FlagsInv', wild' = FALSE
  PROVE  ParserInv'
<1>1. /\ PlaceInv /\ More /\ NodesOf(document, section) = Size(row) /\ section # 0
      /\ pos \in Nat /\ Events(row) \in Nat
  BY InRow DEF ParserInv
<1>2. PlaceInv' /\ document' = document /\ section' = section /\ pos' = pos + 1
  BY <1>1, Advance
<1>3. HeadInv'
  <2>1. HeadInv
    BY DEF ParserInv
  <2> QED
    BY <1>1, <2>1, HeadKept
<1>4. LoopInv'
  <2>1. LoopAt(document', section', pos') = LoopAt(document, section, pos + 1)
        /\ document'.rows[section'] = row
    BY <1>2 DEF row
  <2>2. pos' - 14 - Events(document'.rows[section']) = pos + 1 - 14 - Events(row)
    <3>1. Events(document'.rows[section']) = Events(row)
      BY <2>1
    <3> QED
      BY <1>1, <1>2, <3>1
  <2>3. loop' = "actions" => action_count' = pos' - 14 - Events(document'.rows[section'])
    BY <2>2
  <2> QED
    BY <2>1, <2>3 DEF LoopInv
<1>5. TableInv'
  BY <1>2 DEF TableInv
<1> QED
  BY <1>2, <1>3, <1>4, <1>5 DEF ParserInv

(***************************************************************************)
(* The actions.                                                            *)
(***************************************************************************)

\* Where each of the loops is.
LEMMA LoopPlaces ==
  ASSUME PlaceInv, LoopInv, More
  PROVE  /\ section = 0 => loop = "document"
         /\ section # 0 => section \in 1..Len(document.rows)
         /\ loop = "document" /\ section # 0 => pos <= 3
         /\ loop = "events" =>
              section # 0 /\ pos > 3
                /\ pos \notin 14 + Events(row)..13 + Events(row) + row.num_of_actions
         /\ loop = "actions" =>
              section # 0
                /\ pos \in 14 + Events(row)..13 + Events(row) + row.num_of_actions
<1>1. document \in Sound /\ Len(document.rows) \in Nat /\ pos \in Nat
      /\ section \in 0..Len(document.rows)
  BY DocumentFacts DEF PlaceInv, Placed, More
<1>2. loop = LoopAt(document, section, pos)
  BY <1>1 DEF LoopInv
<1>3. CASE section = 0
  BY <1>2, <1>3 DEF LoopAt
<1>4. CASE section # 0
  <2>1. section \in 1..Len(document.rows)
    BY <1>1, <1>4
  <2> QED
    BY <1>1, <1>2, <1>4, <2>1 DEF LoopAt, row
<1> QED
  BY <1>3, <1>4

LEMMA HeaderPlaces ==
  ASSUME Placed, section = 0
  PROVE  /\ document \in Documents /\ More /\ Len(Params) \in Nat
         /\ NodesOf(document, section) = Len(Params) + 1
         /\ \/ /\ pos \in 1..Len(Params)
               /\ node = Node(Params[pos], document.params[Params[pos]])
               /\ Params[pos] \in Param
            \/ /\ pos = Len(Params) + 1
               /\ node = Node("TotalStates", document.total_states)
<1>1. document \in Documents /\ Len(document.rows) \in Nat
  BY DocumentTyped DEF Placed
<1>2. More /\ NodesOf(document, section) = Len(Params) + 1 /\ Len(Params) \in Nat
  BY <1>1, HeaderIs DEF More, NodesOf
<1>3. pos \in 1..Len(Params) + 1
  BY <1>1, <1>2 DEF Placed
<1>4. node = Header(document)[pos]
  <2>1. Text[document][section] = Header(document)
    BY <1>1, TextIs
  <2> QED
    BY <2>1 DEF node
<1>5. CASE pos = Len(Params) + 1
  BY <1>1, <1>2, <1>4, <1>5, HeaderIs
<1>6. CASE pos # Len(Params) + 1
  <2>1. pos \in 1..Len(Params)
    BY <1>2, <1>3, <1>6
  <2>2. Params[pos] \in Param
    BY <1>1, <2>1, HeaderIs DEF Param
  <2> QED
    BY <1>1, <1>2, <1>4, <2>1, <2>2, HeaderIs
<1> QED
  BY <1>5, <1>6

\* What a node of the document's loop, read in a row, is called.
LEMMA DocumentNames ==
  ASSUME ParserInv, More, loop = "document", section # 0
  PROVE  /\ section \in 1..Len(document.rows) /\ pos \in 1..3
         /\ pos = 1 => node.name = "state-table-row-entries"
         /\ pos = 2 => node.name = "state" /\ node.value = row.state
         /\ pos = 3 => node.name = "input-events"
<1>1. section \in 1..Len(document.rows) /\ pos <= 3
  BY LoopPlaces DEF ParserInv
<1>2. /\ pos \in 1..Size(row) /\ Size(row) \in Nat
      /\ node = RowNodes(row)[pos] /\ NodesAre(RowNodes(row), row)
  <2>1. PlaceInv
    BY DEF ParserInv
  <2> QED
    BY <1>1, <2>1, InRow
<1>3. pos \in 1..3
  BY <1>1, <1>2
<1> QED
  BY <1>1, <1>2, <1>3 DEF NodesAre, Node

LEMMA ParameterStep ==
  ASSUME ParserInv, Parameter
  PROVE  ParserInv'
<1>1. PICK p \in Param :
        /\ Reads("document", p)
        /\ params' = [params EXCEPT ![p] = node.value]
        /\ UNCHANGED <<loop, total_states, current_row_count, state_table_rows,
                       source_ip, flags, action_count, wild>>
  BY DEF Parameter
<1>2. /\ loop = "document" /\ More /\ node.name = p /\ Read
      /\ PlaceInv /\ HeadInv /\ LoopInv /\ TableInv /\ SourceInv /\ FlagsInv
  BY <1>1 DEF Reads, ParserInv
<1>3. /\ "TotalStates" \notin Param /\ "state-table-row-entries" \notin Param
      /\ "state" \notin Param /\ "input-events" \notin Param
  BY DocumentsAssumption
<1>4. section = 0
  <2>1. SUFFICES ASSUME section # 0 PROVE FALSE
    OBVIOUS
  <2>2. pos \in 1..3 /\ (pos = 1 => node.name = "state-table-row-entries")
        /\ (pos = 2 => node.name = "state") /\ (pos = 3 => node.name = "input-events")
    BY <1>2, <2>1, DocumentNames
  <2>3. pos = 1 \/ pos = 2 \/ pos = 3
    BY <2>2
  <2> QED
    BY <1>2, <1>3, <2>2, <2>3
<1>5. /\ document \in Sound /\ pos \in 1..Len(Params) /\ Params[pos] = p
      /\ node.value = document.params[p] /\ NodesOf(document, section) = Len(Params) + 1
      /\ Len(Params) \in Nat
  BY <1>2, <1>3, <1>4, HeaderPlaces DEF Node, PlaceInv
<1>6. PlaceInv' /\ document' = document /\ section' = 0 /\ pos' = pos + 1
  BY <1>2, <1>4, <1>5, Advance
<1>7. HeadInv'
  <2>1. document.params[p] \in Value
    BY <1>5, DocumentFacts
  <2>2. params' = [params EXCEPT ![p] = document.params[p]]
        /\ params' \in [Param -> Value \cup {Absent}]
    BY <1>1, <1>2, <1>5, <2>1 DEF HeadInv
  <2>3. ASSUME NEW m \in 1..Len(Params), Seen(section', pos', 0, m)
        PROVE  params'[Params[m]] = document.params[Params[m]]
    <3>1. Params[m] \in Param
      BY <1>5, HeaderIs DEF Param
    <3>2. m < pos \/ m = pos
      BY <1>5, <1>6, <2>3 DEF Seen
    <3>3. CASE m < pos
      <4>1. Seen(section, pos, 0, m)
        BY <1>4, <3>3 DEF Seen
      <4> QED
        BY <1>2, <2>2, <3>1, <4>1 DEF HeadInv
    <3>4. CASE m = pos
      BY <1>2, <1>5, <2>2, <3>1, <3>4 DEF HeadInv
    <3> QED
      BY <3>2, <3>3, <3>4
  <2>4. total_states' = 0
    BY <1>1, <1>2, <1>4 DEF HeadInv
  <2> QED
    BY <1>6, <2>2, <2>3, <2>4 DEF HeadInv
<1>8. LoopInv'
  <2>1. LoopAt(document, 0, pos + 1) = "document"
    BY <1>5, DocumentFacts DEF LoopAt
  <2> QED
    BY <1>1, <1>2, <1>6, <2>1 DEF LoopInv
<1>9. TableInv'
  BY <1>1, <1>2, <1>4, <1>6 DEF TableInv, CountAt, TableAt
<1>10. SourceInv' /\ FlagsInv'
  BY <1>1, <1>2, <1>4, SourceKept, FlagsKept
<1> QED
  BY <1>1, <1>6, <1>7, <1>8, <1>9, <1>10 DEF ParserInv

LEMMA TotalStatesStep ==
  ASSUME ParserInv, TotalStates
  PROVE  ParserInv'
<1>1. /\ loop = "document" /\ More /\ node.name = "TotalStates" /\ Read
      /\ PlaceInv /\ HeadInv /\ LoopInv /\ TableInv /\ SourceInv /\ FlagsInv
      /\ total_states' = node.value
      /\ UNCHANGED <<loop, params, current_row_count, state_table_rows, source_ip, flags,
                     action_count, wild>>
  BY DEF TotalStates, Reads, ParserInv
<1>2. section = 0
  <2>1. SUFFICES ASSUME section # 0 PROVE FALSE
    OBVIOUS
  <2>2. pos \in 1..3 /\ (pos = 1 => node.name = "state-table-row-entries")
        /\ (pos = 2 => node.name = "state") /\ (pos = 3 => node.name = "input-events")
    BY <1>1, <2>1, DocumentNames
  <2>3. pos = 1 \/ pos = 2 \/ pos = 3
    BY <2>2
  <2> QED
    BY <1>1, <2>2, <2>3
<1>3. "TotalStates" \notin Param
  BY DocumentsAssumption
<1>4. /\ document \in Sound /\ pos = Len(Params) + 1
      /\ node.value = document.total_states /\ NodesOf(document, section) = Len(Params) + 1
      /\ Len(Params) \in Nat
  BY <1>1, <1>2, <1>3, HeaderPlaces DEF Node, PlaceInv
<1>5. PlaceInv' /\ document' = document /\ section' = 1 /\ pos' = 1
  BY <1>1, <1>2, <1>4, Advance
<1>6. HeadInv'
  <2>1. \A m \in 1..Len(Params) : Seen(section, pos, 0, m)
    BY <1>2, <1>4 DEF Seen
  <2> QED
    BY <1>1, <1>4, <1>5, <2>1 DEF HeadInv
<1>7. LoopInv'
  <2>1. LoopAt(document, 1, 1) = "document"
    BY DEF LoopAt
  <2> QED
    BY <1>1, <1>5, <2>1 DEF LoopInv
<1>8. TableInv'
  <2>1. current_row_count = 0 /\ state_table_rows = <<>>
    BY <1>1, <1>2 DEF TableInv, CountAt, TableAt
  <2>2. CountAt(document, 1, 1) = 0 /\ TableAt(document, 1, 1) = <<>>
    <3>1. 1 \in 1..Len(document.rows) => 1 # Size(document.rows[1])
      BY <1>4, DocumentRows, RowFacts DEF Size
    <3> QED
      BY <3>1 DEF CountAt, TableAt
  <2> QED
    BY <1>1, <1>5, <2>1, <2>2 DEF TableInv
<1>9. SourceInv' /\ FlagsInv'
  BY <1>1, <1>2, SourceKept, FlagsKept
<1> QED
  BY <1>1, <1>5, <1>6, <1>7, <1>8, <1>9 DEF ParserInv

\* The first row allocates the table, and no other does.
LEMMA RowEntriesStep ==
  ASSUME ParserInv, RowEntries
  PROVE  ParserInv'
<1> DEFINE T == document.total_states
<1>1. /\ loop = "document" /\ More /\ node.name = "state-table-row-entries" /\ Read
      /\ PlaceInv /\ HeadInv /\ LoopInv /\ TableInv /\ SourceInv /\ FlagsInv
      /\ state_table_rows' = IF state_table_rows = <<>>
                             THEN [k \in 0..total_states - 1 |-> StrayRow]
                             ELSE state_table_rows
      /\ UNCHANGED <<params, total_states, source_ip, flags, loop, current_row_count,
                     action_count, wild>>
  BY DEF RowEntries, Reads, ParserInv, Scalars
<1>2. section # 0
  <2>1. "state-table-row-entries" \notin Param
    BY DocumentsAssumption
  <2> QED
    BY <1>1, <2>1, HeaderPlaces DEF Node, PlaceInv
<1>3. section \in 1..Len(document.rows)
  BY <1>1, <1>2, DocumentNames
<1>4. /\ document \in Sound /\ section \in Nat /\ Len(document.rows) \in Nat
      /\ Events(row) \in Nat /\ Listed(row) \in Nat
      /\ row \in Complete /\ Size(row) = 15 + Events(row) + Listed(row) /\ pos \in 1..Size(row)
      /\ T \in Nat /\ T >= Len(document.rows)
  BY <1>1, <1>3, InRow, DocumentFacts
<1>5. pos = 1
  <2>1. NodesAre(RowNodes(row), row) /\ row \in RowOfDocument /\ node = RowNodes(row)[pos]
    BY <1>1, <1>3, InRow
  <2>2. Named(node.name, row, pos)
    BY <1>4, <2>1, Names
  <2> QED
    BY <1>1, <2>2 DEF Named
<1>6. RowRead(row, 2) = RowRead(row, 1) /\ RowRead(row, 1) = StrayRow
  <2>1. RowRead(row, 1 + 1) = RowRead(row, 1)
    BY <1>3, <1>4, <1>5, ReadNothing
  <2> QED
    BY <1>4, <2>1, RowReadEnds
<1>7. state_table_rows' = TableAt(document, section, 2)
  <2>1. total_states = T
    BY <1>1, <1>2 DEF HeadInv
  <2>2. \A k : RowAt(document, section, 2, k) = RowAt(document, section, 1, k)
    BY <1>6 DEF RowAt, row
  <2>3. TableAt(document, section, 2) = [k \in 0..T - 1 |-> RowAt(document, section, 1, k)]
    BY <1>2, <2>2 DEF TableAt
  <2>4. CASE section = 1
    <3>1. \A k \in 0..T - 1 : RowAt(document, section, 1, k) = StrayRow
      BY <1>6, <2>4 DEF RowAt, row
    <3>2. state_table_rows = <<>>
      BY <1>1, <1>5, <2>4 DEF TableInv, TableAt
    <3> QED
      BY <1>1, <2>1, <2>3, <3>1, <3>2
  <2>5. CASE section # 1
    <3>1. state_table_rows = [k \in 0..T - 1 |-> RowAt(document, section, 1, k)]
      BY <1>1, <1>2, <1>5, <2>5 DEF TableInv, TableAt
    <3>2. 0 \in 0..T - 1
      BY <1>3, <1>4
    <3>3. state_table_rows # <<>>
      BY <3>1, <3>2
    <3> QED
      BY <1>1, <2>3, <3>1, <3>3
  <2> QED
    BY <2>4, <2>5
<1>8. current_row_count' = CountAt(document, section, 2)
  BY <1>1, <1>2, <1>4, <1>5 DEF TableInv, CountAt, row
<1>9. LoopAt(document, section, 2) = "document"
  BY DEF LoopAt
<1>10. SourceInv' /\ FlagsInv'
  <2>1. /\ pos # 7 + Events(row)
        /\ pos \notin 14 + Events(row)..13 + Events(row) + row.num_of_actions
    BY <1>4, <1>5
  <2> QED
    BY <1>1, <2>1, SourceKept, FlagsKept
<1>11. action_count' \in Nat /\ wild' = FALSE
  BY <1>1 DEF LoopInv, ParserInv
<1>12. pos < Size(row) /\ pos + 1 = 2
  BY <1>4, <1>5
<1> QED
  BY <1>1, <1>3, <1>7, <1>8, <1>9, <1>10, <1>11, <1>12, RowStep

\* A node that fills a field of the row, and neither opens nor closes a list of
\* actions.
LEMMA FillStep ==
  ASSUME ParserInv, Read, section \in 1..Len(document.rows),
         pos >= 2, pos + 1 < Size(row),
         SourceInv' \/ (UNCHANGED source_ip /\ pos # 7 + Events(row)),
         pos \notin 13 + Events(row)..13 + Events(row) + row.num_of_actions,
         pos # 3,
         Fill(RowRead(row, pos + 1), TRUE),
         UNCHANGED <<params, total_states, flags, loop, current_row_count, action_count>>
  PROVE  ParserInv'
<1>1. /\ PlaceInv /\ LoopInv /\ TableInv /\ SourceInv /\ FlagsInv /\ wild = FALSE
  BY DEF ParserInv
<1>2. /\ More /\ section \in Nat /\ Len(document.rows) \in Nat
      /\ Events(row) \in Nat /\ Listed(row) \in Nat
      /\ row.num_of_actions \in 1..Listed(row) /\ pos \in 1..Size(row)
      /\ row \in Complete /\ Size(row) = 15 + Events(row) + Listed(row)
  BY <1>1, InRow
<1>3. state_table_rows' = TableAt(document, section, pos + 1) /\ wild' = FALSE
  <2>1. pos < Size(row)
    BY <1>2
  <2> QED
    BY <1>1, <2>1, Filled
<1>4. current_row_count' = CountAt(document, section, pos + 1)
  BY <1>1, <1>2 DEF TableInv, CountAt, row
<1>5. loop' = LoopAt(document, section, pos + 1) /\ loop' # "actions"
  <2>1. loop = LoopAt(document, section, pos)
    BY <1>1, <1>2 DEF LoopInv
  <2>2. /\ pos <= 3 <=> pos + 1 <= 3
        /\ pos \notin 14 + Events(row)..13 + Events(row) + row.num_of_actions
        /\ pos + 1 \notin 14 + Events(row)..13 + Events(row) + row.num_of_actions
    BY <1>2
  <2> QED
    BY <2>1, <2>2 DEF LoopAt, row
<1>6. SourceInv' /\ FlagsInv'
  <2>1. pos \notin 14 + Events(row)..13 + Events(row) + row.num_of_actions
    BY <1>2
  <2> QED
    BY <1>1, <1>2, <2>1, SourceKept, FlagsKept
<1>7. action_count' \in Nat /\ pos < Size(row)
  BY <1>1, <1>2 DEF LoopInv
<1> QED
  BY <1>3, <1>4, <1>5, <1>6, <1>7, RowStep

\* Where the loop over the events is when it reads a node called x.
LEMMA InEvents ==
  ASSUME ParserInv, NEW x, Reads("events", x)
  PROVE  /\ PlaceInv /\ LoopInv /\ TableInv /\ SourceInv /\ FlagsInv /\ wild = FALSE
         /\ Read /\ More /\ document \in Sound /\ section \in 1..Len(document.rows)
         /\ row \in RowOfDocument /\ row \in Complete
         /\ Events(row) \in Nat /\ Listed(row) \in Nat
         /\ row.num_of_actions \in Nat /\ row.num_of_actions >= 1
         /\ row.num_of_actions <= Listed(row)
         /\ pos \in Nat /\ pos > 3 /\ pos <= Size(row) /\ pos \in 1..Size(row)
         /\ pos \notin 14 + Events(row)..13 + Events(row) + row.num_of_actions
         /\ Size(row) = 15 + Events(row) + Listed(row)
         /\ NodesAre(RowNodes(row), row) /\ node = RowNodes(row)[pos] /\ x = node.name
         /\ loop = "events" /\ Named(x, row, pos)
<1>1. /\ PlaceInv /\ LoopInv /\ TableInv /\ SourceInv /\ FlagsInv /\ wild = FALSE
      /\ Read /\ More /\ loop = "events" /\ x = node.name
  BY DEF ParserInv, Reads
<1>2. /\ section \in 1..Len(document.rows) /\ pos > 3
      /\ pos \notin 14 + Events(row)..13 + Events(row) + row.num_of_actions
  BY <1>1, LoopPlaces
<1>3. /\ document \in Sound /\ row \in RowOfDocument /\ row \in Complete
      /\ Events(row) \in Nat /\ Listed(row) \in Nat
      /\ row.num_of_actions \in 1..Listed(row)
      /\ pos \in 1..Size(row) /\ Size(row) = 15 + Events(row) + Listed(row)
      /\ NodesAre(RowNodes(row), row) /\ node = RowNodes(row)[pos]
  BY <1>1, <1>2, InRow
<1>4. Named(x, row, pos)
  BY <1>1, <1>3, Names
<1> QED
  BY <1>1, <1>2, <1>3, <1>4

LEMMA StateStep ==
  ASSUME ParserInv, State
  PROVE  ParserInv'
<1>1. /\ loop = "document" /\ More /\ node.name = "state" /\ Read
      /\ PlaceInv /\ TableInv
      /\ Fill([temp_table EXCEPT !.state = node.value], TRUE)
      /\ UNCHANGED <<params, total_states, source_ip, flags, loop, current_row_count,
                     action_count>>
  BY DEF State, Sets, Reads, ParserInv, Scalars
<1>2. section # 0
  <2>1. "state" \notin Param
    BY DocumentsAssumption
  <2> QED
    BY <1>1, <2>1, HeaderPlaces DEF Node, PlaceInv
<1>3. section \in 1..Len(document.rows) /\ pos = 2 /\ node.value = row.state
  <2>1. /\ pos \in 1..3
        /\ pos = 1 => node.name = "state-table-row-entries"
        /\ pos = 3 => node.name = "input-events"
        /\ pos = 2 => node.value = row.state
        /\ section \in 1..Len(document.rows)
    BY <1>1, <1>2, DocumentNames
  <2>2. pos = 1 \/ pos = 2 \/ pos = 3
    BY <2>1
  <2> QED
    BY <1>1, <2>1, <2>2
<1>4. /\ document \in Sound /\ Events(row) \in Nat /\ Listed(row) \in Nat
      /\ row \in Complete /\ Size(row) = 15 + Events(row) + Listed(row) /\ pos < Size(row)
  BY <1>1, <1>3, InRow
<1>5. temp_table = RowRead(row, 2)
  BY <1>1, <1>3, <1>4, TempTable
<1>6. RowRead(row, pos + 1) = [RowRead(row, 2) EXCEPT !.state = row.state]
  BY <1>3, <1>4, ReadState
<1>7. Fill(RowRead(row, pos + 1), TRUE)
  BY <1>1, <1>3, <1>5, <1>6
<1>8. /\ pos >= 2 /\ pos # 3 /\ pos + 1 < Size(row) /\ pos # 7 + Events(row)
      /\ pos \notin 13 + Events(row)..13 + Events(row) + row.num_of_actions
  BY <1>3, <1>4
<1> QED
  BY <1>1, <1>3, <1>7, <1>8, FillStep

LEMMA NumOfRowEventsStep ==
  ASSUME ParserInv, NumOfRowEvents
  PROVE  ParserInv'
<1>1. /\ Reads("events", "num_of_row_evnts")
      /\ Fill([temp_table EXCEPT !.num_of_row_evnts = node.value, !.events = <<>>,
                                 !.event = 0], TRUE)
      /\ UNCHANGED <<params, total_states, source_ip, flags, loop, current_row_count,
                     action_count>>
  BY DEF NumOfRowEvents, Sets, Scalars
<1>0. /\ Named("num_of_row_evnts", row, pos) /\ NodesAre(RowNodes(row), row)
      /\ node = RowNodes(row)[pos]
  BY <1>1, InEvents
<1>2. pos = 4
  BY <1>0 DEF Named
<1>3. node.value = row.num_of_row_evnts
  BY <1>0, <1>2 DEF NodesAre, Node
<1>4. /\ PlaceInv /\ TableInv /\ Read /\ document \in Sound
      /\ section \in 1..Len(document.rows) /\ Events(row) \in Nat /\ Listed(row) \in Nat
      /\ row \in Complete /\ Size(row) = 15 + Events(row) + Listed(row)
  BY <1>1, InEvents
<1>5. temp_table = RowRead(row, pos)
  BY <1>2, <1>4, TempTable
<1>6. RowRead(row, pos + 1) =
        [RowRead(row, pos) EXCEPT !.num_of_row_evnts = row.num_of_row_evnts,
                                  !.events = <<>>, !.event = 0]
  BY <1>2, <1>4, ReadNumOfEvents
<1>7. Fill(RowRead(row, pos + 1), TRUE)
  BY <1>1, <1>3, <1>5, <1>6
<1>8. /\ pos >= 2 /\ pos # 3 /\ pos + 1 < Size(row) /\ pos # 7 + Events(row)
      /\ pos \notin 13 + Events(row)..13 + Events(row) + row.num_of_actions
  BY <1>2, <1>4
<1> QED
  BY <1>1, <1>4, <1>7, <1>8, FillStep

LEMMA EventStep ==
  ASSUME ParserInv, Event
  PROVE  ParserInv'
<1>1. /\ Reads("events", "event")
      /\ Fill([temp_table EXCEPT !.events =
                 IF temp_table.event < temp_table.num_of_row_evnts
                 THEN Append(@, node.value) ELSE @,
                                 !.event = @ + 1, !.port_threshold_exists = TRUE],
              temp_table.event < temp_table.num_of_row_evnts)
      /\ UNCHANGED <<params, total_states, source_ip, flags, loop, current_row_count,
                     action_count>>
  BY DEF Event, Scalars
<1>0. /\ Named("event", row, pos) /\ NodesAre(RowNodes(row), row)
      /\ node = RowNodes(row)[pos]
  BY <1>1, InEvents
<1>2. pos \in 5..4 + Events(row)
  BY <1>0 DEF Named
<1>3. node.value = row.events[pos - 4]
  <2>1. node = Node("event", row.events[pos - 4])
    BY <1>0, <1>2 DEF NodesAre
  <2> QED
    BY <2>1 DEF Node
<1>4. /\ PlaceInv /\ TableInv /\ Read /\ document \in Sound
      /\ section \in 1..Len(document.rows) /\ Events(row) \in Nat /\ Listed(row) \in Nat
      /\ row \in Complete /\ Size(row) = 15 + Events(row) + Listed(row)
  BY <1>1, InEvents
<1>5. temp_table = RowRead(row, pos)
  BY <1>2, <1>4, TempTable
<1>6. EventAdded(RowRead(row, pos + 1), RowRead(row, pos), row.events[pos - 4])
  <2>1. row = document.rows[section]
    BY DEF row
  <2> QED
    BY <1>2, <1>4, <2>1, ReadEvent
<1>7. Fill(RowRead(row, pos + 1), TRUE)
  <2>1. Fill(RowRead(row, pos + 1), temp_table.event < temp_table.num_of_row_evnts)
    BY <1>1, <1>3, <1>5, <1>6 DEF EventAdded
  <2> QED
    BY <1>5, <1>6, <2>1 DEF Fill, EventAdded
<1>8. /\ pos >= 2 /\ pos # 3 /\ pos + 1 < Size(row) /\ pos # 7 + Events(row)
      /\ pos \notin 13 + Events(row)..13 + Events(row) + row.num_of_actions
  BY <1>2, <1>4
<1> QED
  BY <1>1, <1>4, <1>7, <1>8, FillStep

LEMMA ThresholdStep ==
  ASSUME ParserInv, Threshold
  PROVE  ParserInv'
<1>1. /\ Reads("events", "threshold")
      /\ Fill([temp_table EXCEPT !.threshold = node.value,
                                 !.packet_threshold_exists = TRUE], TRUE)
      /\ UNCHANGED <<params, total_states, source_ip, flags, loop, current_row_count,
                     action_count>>
  BY DEF Threshold, Sets, Scalars
<1>0. /\ Named("threshold", row, pos) /\ NodesAre(RowNodes(row), row)
      /\ node = RowNodes(row)[pos]
  BY <1>1, InEvents
<1>2. pos = 5 + Events(row) /\ row.threshold # Absent
  BY <1>0 DEF Named
<1>3. node.value = row.threshold
  BY <1>0, <1>2 DEF NodesAre, Node, Optional
<1>4. /\ PlaceInv /\ TableInv /\ Read /\ document \in Sound
      /\ section \in 1..Len(document.rows) /\ Events(row) \in Nat /\ Listed(row) \in Nat
      /\ row \in Complete /\ Size(row) = 15 + Events(row) + Listed(row)
  BY <1>1, InEvents
<1>5. temp_table = RowRead(row, pos)
  BY <1>2, <1>4, TempTable
<1>6. RowRead(row, pos + 1) = [RowRead(row, pos) EXCEPT !.threshold = row.threshold,
                                                        !.packet_threshold_exists = TRUE]
  BY <1>2, <1>4, ReadThreshold
<1>7. Fill(RowRead(row, pos + 1), TRUE)
  BY <1>1, <1>3, <1>5, <1>6
<1>8. /\ pos >= 2 /\ pos # 3 /\ pos + 1 < Size(row) /\ pos # 7 + Events(row)
      /\ pos \notin 13 + Events(row)..13 + Events(row) + row.num_of_actions
  BY <1>2, <1>4
<1> QED
  BY <1>1, <1>4, <1>7, <1>8, FillStep

LEMMA FlowToInstallStep ==
  ASSUME ParserInv, FlowToInstall
  PROVE  ParserInv'
<1>1. /\ Reads("events", "flow_to_install")
      /\ Fill([temp_table EXCEPT !.flow_exists = TRUE], TRUE)
      /\ UNCHANGED <<params, total_states, source_ip, flags, loop, current_row_count,
                     action_count>>
  BY DEF FlowToInstall, Sets, Scalars
<1>0. /\ Named("flow_to_install", row, pos) /\ NodesAre(RowNodes(row), row)
      /\ node = RowNodes(row)[pos]
  BY <1>1, InEvents
<1>2. pos = 6 + Events(row) /\ DOMAIN row.flow # {}
  BY <1>0 DEF Named
<1>3. /\ PlaceInv /\ TableInv /\ Read /\ document \in Sound
      /\ section \in 1..Len(document.rows) /\ Events(row) \in Nat /\ Listed(row) \in Nat
      /\ row \in Complete /\ Size(row) = 15 + Events(row) + Listed(row)
  BY <1>1, InEvents
<1>4. temp_table = RowRead(row, pos)
  BY <1>2, <1>3, TempTable
<1>5. RowRead(row, pos + 1) = [RowRead(row, pos) EXCEPT !.flow_exists = TRUE]
  <2>1. row = document.rows[section]
    BY DEF row
  <2>2. pos = 6 + Events(row)
    BY <1>2
  <2>3. FlowAdded(RowRead(row, pos + 1), RowRead(row, pos), row)
    BY <1>3, <2>1, <2>2, ReadFlowToInstall
  <2> QED
    BY <1>2, <2>3 DEF FlowAdded
<1>6. Fill(RowRead(row, pos + 1), TRUE)
  BY <1>1, <1>4, <1>5
<1>7. /\ pos >= 2 /\ pos # 3 /\ pos + 1 < Size(row) /\ pos # 7 + Events(row)
      /\ pos \notin 13 + Events(row)..13 + Events(row) + row.num_of_actions
  BY <1>2, <1>3
<1> QED
  BY <1>1, <1>3, <1>6, <1>7, FillStep

LEMMA NumOfActionsStep ==
  ASSUME ParserInv, NumOfActions
  PROVE  ParserInv'
<1>1. /\ Reads("events", "num_of_actions")
      /\ Fill([temp_table EXCEPT !.num_of_actions = node.value,
                                 !.action = [i \in 1..node.value |-> Stray]], TRUE)
      /\ UNCHANGED <<params, total_states, source_ip, flags, loop, current_row_count,
                     action_count>>
  BY DEF NumOfActions, Sets, Scalars
<1>0. /\ Named("num_of_actions", row, pos) /\ NodesAre(RowNodes(row), row)
      /\ node = RowNodes(row)[pos]
  BY <1>1, InEvents
<1>2. pos = 12 + Events(row)
  BY <1>0 DEF Named
<1>3. node.value = row.num_of_actions
  BY <1>0, <1>2 DEF NodesAre, Node
<1>4. /\ PlaceInv /\ TableInv /\ Read /\ document \in Sound
      /\ section \in 1..Len(document.rows) /\ Events(row) \in Nat /\ Listed(row) \in Nat
      /\ row \in Complete /\ Size(row) = 15 + Events(row) + Listed(row)
  BY <1>1, InEvents
<1>5. temp_table = RowRead(row, pos)
  BY <1>2, <1>4, TempTable
<1>6. RowRead(row, pos + 1) =
        [RowRead(row, pos) EXCEPT !.num_of_actions = row.num_of_actions,
                                  !.action = [i \in 1..row.num_of_actions |-> Stray]]
  BY <1>2, <1>4, ReadNumOfActions
<1>7. Fill(RowRead(row, pos + 1), TRUE)
  BY <1>1, <1>3, <1>5, <1>6
<1>8. /\ pos >= 2 /\ pos # 3 /\ pos + 1 < Size(row) /\ pos # 7 + Events(row)
      /\ pos \notin 13 + Events(row)..13 + Events(row) + row.num_of_actions
  BY <1>2, <1>4
<1> QED
  BY <1>1, <1>4, <1>7, <1>8, FillStep

\* The source address of the row being read is the last one read.
LEMMA SourceTaken ==
  ASSUME PlaceInv, More, Read, section \in 1..Len(document.rows),
         pos = 7 + Events(row), "src_ip" \in DOMAIN row.flow,
         source_ip' = FirstByte[row.flow["src_ip"]], row.flow["src_ip"] \in Value
  PROVE  SourceInv'
<1> DEFINE N == Len(document.rows)
<1>1. /\ section \in Nat /\ N \in Nat /\ Events(row) \in Nat /\ Listed(row) \in Nat
      /\ NodesOf(document, section) = 15 + Events(row) + Listed(row)
  BY InRow
<1>2. document' = document /\ section' = section /\ pos' = pos + 1
  BY <1>1, Advance
<1>3. SourceSeen(document, section, pos + 1, section)
  <2>1. 7 + Events(row) < pos + 1
    BY <1>1
  <2> QED
    BY <2>1 DEF SourceSeen, Seen, row
<1>4. ASSUME NEW k \in 1..N, k > section
      PROVE  ~SourceSeen(document, section, pos + 1, k)
  <2>1. ~(k < section) /\ k # section
    BY <1>1, <1>4
  <2> QED
    BY <2>1 DEF SourceSeen, Seen
<1>5. ASSUME NEW k \in 1..N,
             SourceSeen(document, section, pos + 1, k),
             \A l \in k + 1..N : ~SourceSeen(document, section, pos + 1, l)
      PROVE  source_ip' = FirstByte[document.rows[k].flow["src_ip"]]
  <2>1. ~(k > section)
    BY <1>4, <1>5
  <2>2. ~(k < section)
    <3>1. ASSUME k < section PROVE section \in k + 1..N
      BY <1>1, <3>1
    <3> QED
      BY <1>3, <1>5, <3>1
  <2>3. k = section
    BY <1>1, <2>1, <2>2
  <2> QED
    BY <2>3 DEF row
<1> QED
  BY <1>2, <1>5 DEF SourceInv, Byte

LEMMA FlowElementStep ==
  ASSUME ParserInv, FlowElement
  PROVE  ParserInv'
<1>1. PICK x \in FlowField :
        /\ Reads("events", x)
        /\ Fill([temp_table EXCEPT !.flow =
                   [f \in FlowField |-> IF f \in StoredIn(x) THEN node.value ELSE @[f]]],
                TRUE)
        /\ source_ip' = IF x = "src_ip" THEN FirstByte[node.value] ELSE source_ip
        /\ UNCHANGED <<params, total_states, flags, loop, current_row_count, action_count>>
  BY DEF FlowElement
<1> DEFINE k == pos - 6 - Events(row)
<1>2. /\ Named(x, row, pos) /\ NodesAre(RowNodes(row), row)
      /\ node = RowNodes(row)[pos]
  BY <1>1, InEvents
<1>3. /\ PlaceInv /\ TableInv /\ Read /\ More /\ document \in Sound
      /\ section \in 1..Len(document.rows) /\ Events(row) \in Nat /\ Listed(row) \in Nat
      /\ row \in Complete /\ Size(row) = 15 + Events(row) + Listed(row) /\ pos \in Nat
      /\ row \in RowOfDocument
  BY <1>1, InEvents
<1>4. /\ pos \in 7 + Events(row)..11 + Events(row)
      /\ x = FlowFields[k] /\ x \in DOMAIN row.flow
  <2>1. x \in FlowField /\ Named(x, row, pos)
    BY <1>2
  <2> QED
    BY <2>1 DEF Named
<1>5. k \in 1..5 /\ pos = 6 + Events(row) + k
  <2>1. pos \in Nat /\ Events(row) \in Nat
    BY <1>3
  <2>2. pos >= 7 + Events(row) /\ pos <= 11 + Events(row)
    BY <1>4, <2>1
  <2> QED
    BY <2>1, <2>2
<1>6. node.value = row.flow[x] /\ row.flow[x] \in Value
  <2>1. node = FieldNode(row, x)
    BY <1>2, <1>4 DEF NodesAre
  <2>2. node.value = row.flow[x]
    BY <1>4, <2>1 DEF FieldNode, Node
  <2>3. row.flow \in Flow
    BY <1>3 DEF RowOfDocument
  <2>4. PICK fields \in SUBSET FlowField : row.flow \in [fields -> Value]
    BY <2>3 DEF Flow
  <2> QED
    BY <1>4, <2>2, <2>4
<1>7. temp_table = RowRead(row, pos)
  BY <1>3, <1>4, TempTable
<1>8. RowRead(row, pos + 1) =
        [RowRead(row, pos) EXCEPT !.flow =
           [f \in FlowField |-> IF f \in StoredIn(x) THEN row.flow[x] ELSE @[f]]]
  <2> HIDE DEF k
  <2>1. row = document.rows[section] /\ FlowFields[k] \in DOMAIN row.flow
    BY <1>4 DEF row
  <2>2. FieldStored(RowRead(row, pos + 1), RowRead(row, pos), FlowFields[k],
                    row.flow[FlowFields[k]])
    BY <1>3, <1>5, <2>1, ReadFlowField
  <2> QED
    BY <1>4, <2>2 DEF FieldStored
<1>9. Fill(RowRead(row, pos + 1), TRUE)
  BY <1>1, <1>6, <1>7, <1>8
<1>10. SourceInv' \/ (UNCHANGED source_ip /\ pos # 7 + Events(row))
  <2>1. FlowFields[1] = "src_ip" /\ \A i \in 2..5 : FlowFields[i] # "src_ip"
    BY DEF FlowFields
  <2>2. CASE x = "src_ip"
    <3>1. k = 1
      <4> HIDE DEF k
      <4>1. ASSUME k # 1 PROVE k \in 2..5
        BY <1>5, <4>1
      <4> QED
        BY <1>4, <2>1, <2>2, <4>1
    <3>2. pos = 7 + Events(row)
      BY <1>3, <1>5, <3>1
    <3> QED
      BY <1>1, <1>3, <1>4, <1>6, <2>2, <3>2, SourceTaken
  <2>3. CASE x # "src_ip"
    <3>1. k # 1
      BY <1>4, <2>1, <2>3
    <3> QED
      BY <1>1, <1>3, <1>5, <2>3, <3>1
  <2> QED
    BY <2>2, <2>3
<1>11. /\ pos >= 2 /\ pos # 3 /\ pos + 1 < Size(row)
       /\ pos \notin 13 + Events(row)..13 + Events(row) + row.num_of_actions
  <2>1. /\ pos >= 7 + Events(row) /\ pos <= 11 + Events(row)
        /\ pos \in Nat /\ Events(row) \in Nat /\ Listed(row) \in Nat
        /\ Size(row) = 15 + Events(row) + Listed(row)
    BY <1>3, <1>4
  <2>2. row.num_of_actions \in Nat
    BY <1>3, RowFacts
  <2> QED
    BY <2>1, <2>2
<1> QED
  BY <1>1, <1>3, <1>9, <1>10, <1>11, FillStep

LEMMA InputEventsStep ==
  ASSUME ParserInv, InputEvents
  PROVE  ParserInv'
<1>1. /\ loop = "document" /\ More /\ node.name = "input-events" /\ Read
      /\ PlaceInv /\ LoopInv /\ TableInv /\ SourceInv /\ FlagsInv /\ wild = FALSE
      /\ loop' = "events"
      /\ UNCHANGED <<params, total_states, source_ip, flags, current_row_count,
                     state_table_rows, action_count, wild>>
  BY DEF InputEvents, Reads, ParserInv, Scalars
<1>2. section # 0
  <2>1. "input-events" \notin Param
    BY DocumentsAssumption
  <2> QED
    BY <1>1, <2>1, HeaderPlaces DEF Node, PlaceInv
<1>3. section \in 1..Len(document.rows) /\ pos = 3
  <2>1. /\ pos \in 1..3
        /\ pos = 1 => node.name = "state-table-row-entries"
        /\ pos = 2 => node.name = "state"
        /\ section \in 1..Len(document.rows)
    BY <1>1, <1>2, DocumentNames
  <2>2. pos = 1 \/ pos = 2 \/ pos = 3
    BY <2>1
  <2> QED
    BY <1>1, <2>1, <2>2
<1>4. /\ document \in Sound /\ Events(row) \in Nat /\ Listed(row) \in Nat
      /\ section \in Nat /\ Len(document.rows) \in Nat
      /\ row \in Complete /\ Size(row) = 15 + Events(row) + Listed(row) /\ pos \in 1..Size(row)
  BY <1>1, <1>3, InRow
<1>5. state_table_rows' = TableAt(document, section, pos + 1)
  <2>1. RowRead(row, pos + 1) = RowRead(row, pos)
    BY <1>3, <1>4, ReadNothing
  <2> QED
    BY <1>1, <1>3, <2>1, NotFilled
<1>6. loop' = LoopAt(document, section, pos + 1)
  <2>1. ~(pos + 1 <= 3) /\ pos + 1 \notin 14 + Events(row)..13 + Events(row) + row.num_of_actions
    BY <1>3, <1>4
  <2> QED
    BY <1>1, <1>3, <2>1 DEF LoopAt, row
<1>7. current_row_count' = CountAt(document, section, pos + 1)
  BY <1>1, <1>3, <1>4 DEF TableInv, CountAt, row
<1>8. SourceInv' /\ FlagsInv'
  <2>1. /\ pos # 7 + Events(row)
        /\ pos \notin 14 + Events(row)..13 + Events(row) + row.num_of_actions
    BY <1>3, <1>4
  <2> QED
    BY <1>1, <2>1, SourceKept, FlagsKept
<1>9. action_count' \in Nat /\ wild' = FALSE /\ pos < Size(row) /\ loop' # "actions"
  BY <1>1, <1>3, <1>4 DEF LoopInv
<1> QED
  BY <1>1, <1>3, <1>5, <1>6, <1>7, <1>8, <1>9, RowStep

LEMMA ActionsStep ==
  ASSUME ParserInv, Actions
  PROVE  ParserInv'
<1>1. /\ Reads("events", "action") /\ loop' = "actions" /\ action_count' = 0
      /\ UNCHANGED <<params, total_states, source_ip, flags, current_row_count,
                     state_table_rows, wild>>
  BY DEF Actions, Scalars
<1>2. Named("action", row, pos)
  BY <1>1, InEvents
<1>3. pos = 13 + Events(row)
  BY <1>2 DEF Named
<1>4. /\ PlaceInv /\ TableInv /\ SourceInv /\ FlagsInv /\ wild = FALSE /\ Read /\ More
      /\ document \in Sound /\ section \in 1..Len(document.rows)
      /\ Events(row) \in Nat /\ Listed(row) \in Nat /\ pos \in 1..Size(row)
      /\ row.num_of_actions \in Nat /\ row.num_of_actions >= 1
      /\ row \in Complete /\ Size(row) = 15 + Events(row) + Listed(row)
  BY <1>1, InEvents
<1>5. state_table_rows' = TableAt(document, section, pos + 1)
  <2>1. RowRead(row, pos + 1) = RowRead(row, pos)
    BY <1>3, <1>4, ReadNothing
  <2>2. pos >= 2
    BY <1>3, <1>4
  <2> QED
    BY <1>1, <1>4, <2>1, <2>2, NotFilled
<1>6. loop' = LoopAt(document, section, pos + 1)
  <2>1. ~(pos + 1 <= 3) /\ pos + 1 \in 14 + Events(row)..13 + Events(row) + row.num_of_actions
    BY <1>3, <1>4
  <2> QED
    BY <1>1, <1>4, <2>1 DEF LoopAt, row
<1>7. current_row_count' = CountAt(document, section, pos + 1)
  <2>1. pos # Size(row) /\ pos + 1 # Size(row)
    BY <1>3, <1>4
  <2> QED
    BY <1>1, <1>4, <2>1 DEF TableInv, CountAt, row
<1>8. SourceInv' /\ FlagsInv'
  <2>1. /\ pos # 7 + Events(row)
        /\ pos \notin 14 + Events(row)..13 + Events(row) + row.num_of_actions
    BY <1>3, <1>4
  <2> QED
    BY <1>1, <1>4, <2>1, SourceKept, FlagsKept
<1>9. /\ action_count' \in Nat /\ wild' = FALSE /\ pos < Size(row)
      /\ action_count' = pos + 1 - 14 - Events(row)
  BY <1>1, <1>3, <1>4
<1> QED
  BY <1>1, <1>4, <1>5, <1>6, <1>7, <1>8, <1>9, RowStep

LEMMA UnknownElementStep ==
  ASSUME ParserInv, UnknownElement
  PROVE  ParserInv'
<1> DEFINE e == Events(row)
           n == row.num_of_actions
           lacks == FlowFields[pos - 6 - e] \notin DOMAIN row.flow
<1>1. /\ Reads("events", "A") \/ Reads("events", "#text")
      /\ UNCHANGED <<params, total_states, source_ip, flags, loop, current_row_count,
                     state_table_rows, action_count, wild>>
  BY DEF UnknownElement, Scalars
<1>2. /\ PlaceInv /\ LoopInv /\ TableInv /\ SourceInv /\ FlagsInv /\ wild = FALSE
      /\ Read /\ More /\ loop = "events"
      /\ document \in Sound /\ section \in 1..Len(document.rows)
      /\ e \in Nat /\ Listed(row) \in Nat /\ pos \in 1..Size(row)
      /\ n \in Nat /\ n >= 1 /\ n <= Listed(row) /\ pos > 3
      /\ pos \notin 14 + e..13 + e + n
      /\ row \in Complete /\ Size(row) = 15 + e + Listed(row)
  BY <1>1, InEvents
<1>3. \/ pos \in 14 + e + n..13 + e + Listed(row)
      \/ pos = 5 + e /\ row.threshold = Absent
      \/ pos = 6 + e /\ DOMAIN row.flow = {}
      \/ pos \in 7 + e..11 + e /\ lacks
  <2>1. CASE Reads("events", "A")
    <3>1. Named("A", row, pos)
      BY <2>1, InEvents
    <3>2. pos \in 14 + e..13 + e + Listed(row)
      BY <3>1 DEF Named
    <3> HIDE DEF e, n
    <3> QED
      BY <1>2, <3>2
  <2>2. CASE Reads("events", "#text")
    <3>1. Named("#text", row, pos)
      BY <2>2, InEvents
    <3> QED
      BY <3>1 DEF Named
  <2> QED
    BY <1>1, <2>1, <2>2
<1>4. state_table_rows' = TableAt(document, section, pos + 1)
  <2>1. RowRead(row, pos + 1) = RowRead(row, pos)
    BY <1>2, <1>3, ReadNothing
  <2>2. pos >= 2
    BY <1>2
  <2> QED
    BY <1>1, <1>2, <2>1, <2>2, NotFilled
<1>5. /\ pos + 1 \notin 14 + e..13 + e + n /\ ~(pos <= 3) /\ ~(pos + 1 <= 3)
      /\ pos # Size(row) /\ pos + 1 # Size(row) /\ pos < Size(row)
  <2> HIDE DEF e, n, lacks
  <2> QED
    BY <1>2, <1>3
<1>6. loop' = LoopAt(document, section, pos + 1)
  BY <1>1, <1>2, <1>5 DEF LoopAt, row
<1>7. current_row_count' = CountAt(document, section, pos + 1)
  BY <1>1, <1>2, <1>5 DEF TableInv, CountAt, row
<1>8. SourceInv' /\ FlagsInv'
  <2>1. pos # 7 + e \/ "src_ip" \notin DOMAIN row.flow
    <3>1. CASE pos = 7 + e
      <4>1. lacks
        <5> HIDE DEF e, n, lacks
        <5> QED
          BY <1>2, <1>3, <3>1
      <4>2. FlowFields[1] = "src_ip" /\ pos - 6 - e = 1
        BY <1>2, <3>1 DEF FlowFields
      <4> QED
        BY <4>1, <4>2
    <3> QED
      BY <3>1
  <2> QED
    BY <1>1, <1>2, <2>1, SourceKept, FlagsKept
<1>9. action_count' \in Nat /\ wild' = FALSE /\ loop' # "actions"
  BY <1>1, <1>2 DEF LoopInv
<1> QED
  BY <1>1, <1>2, <1>4, <1>5, <1>6, <1>7, <1>8, <1>9, RowStep

LEMMA NextStateStep ==
  ASSUME ParserInv, NextState
  PROVE  ParserInv'
<1>1. /\ Reads("events", "next-state")
      /\ Fill([temp_table EXCEPT !.next_state = node.value], TRUE)
      /\ current_row_count' = current_row_count + 1
      /\ UNCHANGED <<params, total_states, source_ip, flags, loop, action_count>>
  BY DEF NextState, Scalars
<1>2. /\ Named("next-state", row, pos) /\ NodesAre(RowNodes(row), row)
      /\ node = RowNodes(row)[pos]
  BY <1>1, InEvents
<1>3. pos = 14 + Events(row) + Listed(row)
  BY <1>2 DEF Named
<1>4. node.value = row.next_state
  BY <1>2, <1>3 DEF NodesAre, Node
<1>5. /\ PlaceInv /\ LoopInv /\ TableInv /\ SourceInv /\ FlagsInv /\ wild = FALSE
      /\ Read /\ More /\ document \in Sound /\ section \in 1..Len(document.rows)
      /\ Events(row) \in Nat /\ Listed(row) \in Nat /\ loop = "events"
      /\ row.num_of_actions \in Nat /\ row.num_of_actions >= 1
      /\ row.num_of_actions <= Listed(row)
      /\ row \in Complete /\ Size(row) = 15 + Events(row) + Listed(row)
  BY <1>1, InEvents
<1>6. pos + 1 = Size(row) /\ pos >= 2 /\ pos < Size(row)
  BY <1>3, <1>5
<1>7. temp_table = RowRead(row, pos) /\ current_row_count = section - 1
  BY <1>5, <1>6, TempTable
<1>8. RowRead(row, pos + 1) = [RowRead(row, pos) EXCEPT !.next_state = row.next_state]
  <2>1. row = document.rows[section]
    BY DEF row
  <2> QED
    BY <1>3, <1>5, <2>1, ReadNextState
<1>9. Fill(RowRead(row, pos + 1), TRUE)
  BY <1>1, <1>4, <1>7, <1>8
<1>10. state_table_rows' = TableAt(document, section, pos + 1) /\ wild' = FALSE
  BY <1>5, <1>6, <1>9, Filled
<1>11. current_row_count' = CountAt(document, section, pos + 1)
  <2>1. current_row_count' = section
    BY <1>1, <1>5, <1>7
  <2> QED
    BY <1>5, <1>6, <2>1 DEF CountAt, row
<1>12. loop' = LoopAt(document, section, pos + 1)
  <2>1. ~(pos + 1 <= 3) /\ pos + 1 \notin 14 + Events(row)..13 + Events(row) + row.num_of_actions
    BY <1>3, <1>5
  <2> QED
    BY <1>1, <1>5, <2>1 DEF LoopAt, row
<1>13. SourceInv' /\ FlagsInv'
  <2>1. /\ pos # 7 + Events(row)
        /\ pos \notin 14 + Events(row)..13 + Events(row) + row.num_of_actions
    BY <1>3, <1>5
  <2> QED
    BY <1>1, <1>5, <2>1, SourceKept, FlagsKept
<1>14. action_count' \in Nat /\ loop' # "actions"
  BY <1>1, <1>5 DEF LoopInv
<1> QED
  BY <1>1, <1>5, <1>6, <1>10, <1>11, <1>12, <1>13, <1>14, RowStep

LEMMA EndOfRowStep ==
  ASSUME ParserInv, EndOfRow
  PROVE  ParserInv'
<1> DEFINE N == Len(document.rows)
<1>1. /\ Reads("events", "/state-table-row-entries") /\ loop' = "document"
      /\ UNCHANGED <<params, total_states, source_ip, flags, current_row_count,
                     state_table_rows, action_count, wild>>
  BY DEF EndOfRow, Scalars
<1>2. Named("/state-table-row-entries", row, pos)
  BY <1>1, InEvents
<1>3. pos = Size(row)
  BY <1>2 DEF Named
<1>4. /\ PlaceInv /\ HeadInv /\ LoopInv /\ TableInv /\ SourceInv /\ FlagsInv
      /\ wild = FALSE /\ Read /\ More /\ document \in Sound /\ section \in 1..N
      /\ Events(row) \in Nat /\ Listed(row) \in Nat
      /\ row.num_of_actions \in Nat /\ row.num_of_actions <= Listed(row)
      /\ row \in Complete /\ Size(row) = 15 + Events(row) + Listed(row)
  BY <1>1, InEvents DEF ParserInv
<1>5. NodesOf(document, section) = Size(row) /\ section \in Nat /\ N \in Nat
  BY <1>4, InRow
<1>6. PlaceInv' /\ document' = document /\ section' = section + 1 /\ pos' = 1
  BY <1>3, <1>4, <1>5, Advance
<1>7. HeadInv'
  <2>1. section # 0
    BY <1>4
  <2> QED
    BY <1>1, <1>4, <2>1, HeadKept
<1>8. LoopInv'
  <2>1. LoopAt(document, section + 1, 1) = "document"
    BY DEF LoopAt
  <2> QED
    BY <1>1, <1>4, <1>6, <2>1 DEF LoopInv
<1>9. TableInv'
  <2>1. state_table_rows' = TableAt(document, section + 1, 1)
    <3>1. state_table_rows = TableAt(document, section, pos) /\ row = document.rows[section]
      BY <1>4 DEF TableInv, row
    <3> QED
      BY <1>1, <1>3, <1>4, <3>1, Ended
  <2>2. current_row_count' = section
    BY <1>1, <1>3, <1>4, <1>5 DEF TableInv, CountAt, row
  <2>3. CountAt(document, section + 1, 1) = section
    <3> DEFINE i == section + 1
    <3>1. i \in 1..N => 1 # Size(document.rows[i])
      BY <1>4, DocumentRows, RowFacts DEF Size
    <3>2. i # 0 /\ i - 1 = section
      BY <1>5
    <3> HIDE DEF i
    <3>3. CountAt(document, i, 1) = section
      BY <3>1, <3>2 DEF CountAt
    <3> QED
      BY <3>3 DEF i
  <2> QED
    BY <1>6, <2>1, <2>2, <2>3 DEF TableInv
<1>10. SourceInv' /\ FlagsInv'
  <2>1. /\ pos # 7 + Events(row)
        /\ pos \notin 14 + Events(row)..13 + Events(row) + row.num_of_actions
    BY <1>3, <1>4
  <2> QED
    BY <1>1, <1>4, <2>1, SourceKept, FlagsKept
<1> QED
  BY <1>1, <1>4, <1>6, <1>7, <1>8, <1>9, <1>10 DEF ParserInv

\* An action that is taken adds its flag.
LEMMA ActionTaken ==
  ASSUME PlaceInv, FlagsInv, More, Read, section \in 1..Len(document.rows),
         NEW m \in 1..row.num_of_actions, pos = 13 + Events(row) + m,
         flags' = flags \cup ({row.actions[m]} \cap Notifying)
  PROVE  FlagsInv'
<1>1. /\ document' = document /\ document \in Sound /\ Len(document.rows) \in Nat
      /\ section \in Nat
  BY InRow, Advance
<1>2. ASSUME NEW k \in 1..Len(document.rows),
             NEW l \in 1..document.rows[k].num_of_actions
      PROVE  Seen(section', pos', k, 13 + Events(document.rows[k]) + l) <=>
               \/ Seen(section, pos, k, 13 + Events(document.rows[k]) + l)
               \/ k = section /\ l = m
  <2> DEFINE p == 13 + Events(document.rows[k]) + l
  <2>1. /\ k \in 0..Len(document.rows) /\ p \in 1..NodesOf(document, k)
        /\ Events(document.rows[k]) \in Nat /\ l \in Nat /\ k \in Nat
    <3>1. Events(document.rows[k]) \in Nat /\ document.rows[k].num_of_actions \in Nat
      BY <1>1, <1>2, DocumentRows, RowFacts
    <3>2. k \in Nat /\ l \in Nat
      BY <1>1, <1>2, <3>1
    <3> QED
      BY <1>1, <1>2, <3>1, <3>2, ActionPlaces
  <2>2. Seen(section', pos', k, p) <=>
          Seen(section, pos, k, p) \/ (k = section /\ p = pos)
    <3> HIDE DEF p
    <3> QED
      BY <2>1, SeenNext
  <2>3. k = section => (p = pos <=> l = m)
    <3> SUFFICES ASSUME k = section PROVE p = pos <=> l = m
      OBVIOUS
    <3>1. p = 13 + Events(row) + l /\ Events(row) \in Nat /\ m \in Nat
      <4>1. row.num_of_actions \in Nat /\ Events(row) \in Nat
        BY InRow
      <4> QED
        BY <4>1 DEF row
    <3> HIDE DEF p
    <3> QED
      BY <2>1, <3>1
  <2> QED
    BY <2>2, <2>3
<1>3. ASSUME NEW x
      PROVE  ActionSeen(document, section', pos', x) <=>
               ActionSeen(document, section, pos, x) \/ x = row.actions[m]
  <2>1. ASSUME ActionSeen(document, section', pos', x)
        PROVE  ActionSeen(document, section, pos, x) \/ x = row.actions[m]
    BY <1>2, <2>1 DEF ActionSeen, row
  <2>2. ASSUME ActionSeen(document, section, pos, x)
        PROVE  ActionSeen(document, section', pos', x)
    BY <1>2, <2>2 DEF ActionSeen
  <2>3. ASSUME x = row.actions[m]
        PROVE  ActionSeen(document, section', pos', x)
    <3>1. /\ document.rows[section].actions[m] = x
          /\ m \in 1..document.rows[section].num_of_actions
      BY <2>3 DEF row
    <3>2. Seen(section', pos', section, 13 + Events(document.rows[section]) + m)
      BY <1>2, <3>1
    <3> QED
      BY <3>1, <3>2 DEF ActionSeen
  <2> QED
    BY <2>1, <2>2, <2>3
<1> QED
  BY <1>1, <1>3 DEF FlagsInv

LEMMA ActionElementStep ==
  ASSUME ParserInv, ActionElement
  PROVE  ParserInv'
<1> DEFINE e == Events(row)
           n == row.num_of_actions
           m == pos - 13 - e
<1>1. /\ PlaceInv /\ LoopInv /\ TableInv /\ SourceInv /\ FlagsInv /\ wild = FALSE
      /\ loop = "actions" /\ More /\ Read
      /\ UNCHANGED <<params, total_states, source_ip, current_row_count>>
  BY DEF ActionElement, ParserInv
<1>2. section # 0 /\ section \in 1..Len(document.rows) /\ pos \in 14 + e..13 + e + n
  BY <1>1, LoopPlaces
<1>3. /\ document \in Sound /\ e \in Nat /\ Listed(row) \in Nat
      /\ n \in 1..Listed(row) /\ n <= OneDigit /\ pos \in 1..Size(row)
      /\ row \in Complete /\ Size(row) = 15 + e + Listed(row)
      /\ node = RowNodes(row)[pos] /\ NodesAre(RowNodes(row), row)
  BY <1>1, <1>2, InRow
<1>4. /\ pos \in Nat /\ n \in Nat /\ m \in Nat /\ m >= 1 /\ m <= n /\ n <= Listed(row)
      /\ pos = 13 + e + m /\ m \in 1..n
  <2> HIDE DEF e, n
  <2>1. pos \in Nat /\ n \in Nat /\ pos >= 14 + e /\ pos <= 13 + e + n /\ n <= Listed(row)
    BY <1>2, <1>3
  <2> QED
    BY <1>3, <2>1
<1>5. action_count + 1 = m
  <2>1. action_count = pos - 14 - e
    BY <1>1 DEF LoopInv, row
  <2> HIDE DEF e
  <2> QED
    BY <1>3, <1>4, <2>1
<1>6. node = Node("A", [index |-> m, act |-> row.actions[m]])
  <2>1. pos \in 14 + e..13 + e + Listed(row)
    <3> HIDE DEF e, n, m
    <3> QED
      BY <1>3, <1>4
  <2> QED
    BY <1>3, <2>1 DEF NodesAre
<1> HIDE DEF m
<1>7. /\ Fill(IF m \in DOMAIN temp_table.action
              THEN [temp_table EXCEPT !.action[m] = row.actions[m]] ELSE temp_table,
              m \in DOMAIN temp_table.action /\ m <= OneDigit)
      /\ flags' = flags \cup ({row.actions[m]} \cap Notifying)
      /\ loop' \in After(m)
      /\ action_count' = m
  <2>1. /\ node.name = "A" /\ node.value.index = m /\ node.value.act = row.actions[m]
    BY <1>6 DEF Node
  <2> QED
    BY <1>1, <1>5, <2>1 DEF ActionElement
<1>8. pos >= 2 /\ pos < Size(row)
  BY <1>3, <1>4
<1>9. InTable /\ temp_table = RowRead(row, pos)
  BY <1>1, <1>2, <1>8, TempTable
<1>10. ActionAdded(RowRead(row, pos + 1), RowRead(row, pos), row, m)
  <2>1. row = document.rows[section]
    BY DEF row
  <2> QED
    BY <1>2, <1>3, <1>4, <2>1, ReadAction
<1>11. Fill(RowRead(row, pos + 1), TRUE)
  <2>1. m <= OneDigit /\ m \in DOMAIN temp_table.action
    BY <1>3, <1>4, <1>9, <1>10 DEF ActionAdded, OneDigit
  <2>2. Fill(RowRead(row, pos + 1), m \in DOMAIN temp_table.action /\ m <= OneDigit)
    BY <1>7, <1>9, <1>10, <2>1 DEF ActionAdded
  <2> QED
    BY <2>1, <2>2 DEF Fill
<1>12. state_table_rows' = TableAt(document, section, pos + 1) /\ wild' = FALSE
  BY <1>1, <1>2, <1>8, <1>11, Filled
<1>13. /\ loop' = LoopAt(document, section, pos + 1)
       /\ loop' = "actions" => action_count' = pos + 1 - 14 - e
       /\ action_count' \in Nat
  <2>1. loop' = IF m = n THEN "events" ELSE "actions"
    BY <1>7, <1>9, <1>10 DEF ActionAdded, After
  <2>2. ~(pos + 1 <= 3) /\ (pos + 1 \in 14 + e..13 + e + n <=> m # n)
    <3> HIDE DEF e, n
    <3> QED
      BY <1>3, <1>4
  <2>3. loop' = LoopAt(document, section, pos + 1)
    BY <1>2, <2>1, <2>2 DEF LoopAt, row
  <2>4. m = pos + 1 - 14 - e
    <3> HIDE DEF e, n
    <3> QED
      BY <1>3, <1>4
  <2> QED
    BY <1>4, <1>7, <2>3, <2>4
<1>14. current_row_count' = CountAt(document, section, pos + 1)
  <2>1. pos # Size(row) /\ pos + 1 # Size(row)
    BY <1>3, <1>4
  <2> QED
    BY <1>1, <1>2, <2>1 DEF TableInv, CountAt, row
<1>15. SourceInv' /\ FlagsInv'
  <2>1. pos # 7 + e
    BY <1>3, <1>4
  <2>2. SourceInv'
    BY <1>1, <2>1, SourceKept
  <2>3. FlagsInv'
    BY <1>1, <1>2, <1>4, <1>7, ActionTaken
  <2> QED
    BY <2>2, <2>3
<1> QED
  BY <1>1, <1>2, <1>8, <1>12, <1>13, <1>14, <1>15, RowStep

\* In a sound document nothing stands between the actions of a row.
LEMMA PassedOverStep ==
  ASSUME ParserInv, PassedOver
  PROVE  ParserInv'
<1> DEFINE e == Events(row)
           n == row.num_of_actions
<1>1. /\ PlaceInv /\ LoopInv /\ loop = "actions" /\ More
      /\ node.name \in {"#text", "/state-table-row-entries"}
  BY DEF PassedOver, Reads, ParserInv
<1>2. section \in 1..Len(document.rows) /\ pos \in 14 + e..13 + e + n
  BY <1>1, LoopPlaces
<1>3. /\ e \in Nat /\ Listed(row) \in Nat /\ n \in 1..Listed(row)
      /\ node = RowNodes(row)[pos] /\ NodesAre(RowNodes(row), row)
  BY <1>1, <1>2, InRow
<1>4. pos \in 14 + e..13 + e + Listed(row)
  <2> HIDE DEF e, n
  <2>1. pos \in Nat /\ n \in Nat /\ n <= Listed(row) /\ pos >= 14 + e /\ pos <= 13 + e + n
    BY <1>2, <1>3
  <2> QED
    BY <1>3, <2>1
<1>5. node.name = "A"
  <2>1. RowNodes(row)[pos] = Node("A", [index |-> pos - 13 - e,
                                        act |-> row.actions[pos - 13 - e]])
    BY <1>3, <1>4 DEF NodesAre
  <2> QED
    BY <1>3, <2>1 DEF Node
<1> QED
  BY <1>1, <1>5

\* The loop ends behind the last section.
LEMMA ParsedStep ==
  ASSUME ParserInv, Parsed
  PROVE  ParserInv'
<1>1. /\ ~More /\ loop' = "parsed"
      /\ UNCHANGED <<document, section, pos, params, total_states, source_ip, flags,
                     current_row_count, state_table_rows, action_count, wild>>
      /\ PlaceInv /\ HeadInv /\ LoopInv /\ TableInv /\ SourceInv /\ FlagsInv
      /\ wild = FALSE
  BY DEF Parsed, Scalars, ParserInv
<1>2. section = Len(document.rows) + 1
  <2>1. document \in Sound /\ Len(document.rows) \in Nat
    BY <1>1, DocumentFacts DEF PlaceInv, Placed
  <2> QED
    BY <1>1, <2>1 DEF PlaceInv, Placed, More
<1>3. PlaceInv' /\ HeadInv'
  BY <1>1 DEF PlaceInv, Placed, HeadInv
<1>4. LoopInv'
  BY <1>1, <1>2 DEF LoopInv
<1>5. TableInv' /\ SourceInv' /\ FlagsInv'
  BY <1>1 DEF TableInv, SourceInv, FlagsInv
<1> QED
  BY <1>1, <1>3, <1>4, <1>5 DEF ParserInv

LEMMA ParserInit ==
  ASSUME Init, document \in Sound
  PROVE  ParserInv
<1>1. /\ document \in Sound /\ section = 0 /\ pos = 1 /\ loop = "document"
      /\ params = [p \in Param |-> Absent]
      /\ total_states = 0 /\ current_row_count = 0 /\ action_count = 0
      /\ state_table_rows = <<>> /\ source_ip = Absent /\ flags = {} /\ wild = FALSE
  BY DEF Init
<1>2. document \in Documents /\ Len(document.rows) \in Nat /\ Len(Params) \in Nat
  BY <1>1, DocumentFacts, HeaderIs
<1>3. PlaceInv
  BY <1>1, <1>2 DEF PlaceInv, Placed, NodesOf
<1>4. HeadInv
  <2>1. \A m \in 1..Len(Params) : ~Seen(0, 1, 0, m)
    BY <1>2 DEF Seen
  <2> QED
    BY <1>1, <2>1 DEF HeadInv
<1>5. LoopInv
  BY <1>1 DEF LoopInv, LoopAt
<1>6. TableInv
  BY <1>1 DEF TableInv, CountAt, TableAt
<1>7. \A k \in 1..Len(document.rows) : \A p : ~Seen(0, 1, k, p)
  BY <1>2 DEF Seen
<1>8. SourceInv
  BY <1>1, <1>7 DEF SourceInv, SourceSeen
<1>9. FlagsInv
  <2>1. \A x : ~ActionSeen(document, 0, 1, x)
    BY <1>7 DEF ActionSeen
  <2> QED
    BY <1>1, <2>1 DEF FlagsInv
<1> QED
  BY <1>1, <1>3, <1>4, <1>5, <1>6, <1>8, <1>9 DEF ParserInv

LEMMA ParserNext ==
  ASSUME ParserInv, [Next]_vars
  PROVE  ParserInv'
<1>1. CASE Parameter
  BY <1>1, ParameterStep
<1>2. CASE TotalStates
  BY <1>2, TotalStatesStep
<1>3. CASE RowEntries
  BY <1>3, RowEntriesStep
<1>4. CASE State
  BY <1>4, StateStep
<1>5. CASE InputEvents
  BY <1>5, InputEventsStep
<1>6. CASE Parsed
  BY <1>6, ParsedStep
<1>7. CASE NumOfRowEvents
  BY <1>7, NumOfRowEventsStep
<1>8. CASE Event
  BY <1>8, EventStep
<1>9. CASE Threshold
  BY <1>9, ThresholdStep
<1>10. CASE FlowToInstall
  BY <1>10, FlowToInstallStep
<1>11. CASE FlowElement
  BY <1>11, FlowElementStep
<1>12. CASE NumOfActions
  BY <1>12, NumOfActionsStep
<1>13. CASE Actions
  BY <1>13, ActionsStep
<1>14. CASE UnknownElement
  BY <1>14, UnknownElementStep
<1>15. CASE NextState
  BY <1>15, NextStateStep
<1>16. CASE EndOfRow
  BY <1>16, EndOfRowStep
<1>17. CASE ActionElement
  BY <1>17, ActionElementStep
<1>18. CASE PassedOver
  BY <1>18, PassedOverStep
<1>19. CASE Spin \/ UNCHANGED vars
  <2>1. /\ UNCHANGED <<document, section, pos, loop, params, total_states, source_ip, flags,
                       current_row_count, state_table_rows, action_count, wild>>
        /\ PlaceInv /\ HeadInv /\ LoopInv /\ TableInv /\ SourceInv /\ FlagsInv
        /\ wild = FALSE
    BY <1>19 DEF Spin, vars, ParserInv
  <2>2. PlaceInv' /\ HeadInv' /\ LoopInv'
    BY <2>1 DEF PlaceInv, Placed, HeadInv, LoopInv
  <2>3. TableInv' /\ SourceInv' /\ FlagsInv'
    BY <2>1 DEF TableInv, SourceInv, FlagsInv
  <2> QED
    BY <2>1, <2>2, <2>3 DEF ParserInv
<1> QED
  BY <1>1, <1>2, <1>3, <1>4, <1>5, <1>6, <1>7, <1>8, <1>9, <1>10, <1>11, <1>12, <1>13,
     <1>14, <1>15, <1>16, <1>17, <1>18, <1>19 DEF Next

(***************************************************************************)
(* The types, whatever the document: sizes that do not agree make writes   *)
(* miss, and what misses is not in the table.                              *)
(***************************************************************************)

\* The table comes behind the header, and the document's loop reads the first
\* three nodes of a row only.
TypeInv ==
  /\ TypeOK /\ Placed
  /\ section = 0 => loop = "document" /\ state_table_rows = <<>>
  /\ section \in 1..Len(document.rows) /\ loop = "document" => pos <= 3

TableTyped ==
  \/ state_table_rows = <<>>
  \/ /\ DOMAIN state_table_rows = 0..total_states - 1
     /\ \A i \in 0..total_states - 1 : state_table_rows[i] \in Row

\* A node of a row has a value of the type its name calls for.
LEMMA NodeTyped ==
  ASSUME Placed, section \in 1..Len(document.rows)
  PROVE  /\ pos \in 1..Size(row) /\ NodesOf(document, section) = Size(row)
         /\ Size(row) \in Nat /\ Size(row) >= 15
         /\ node.name = "/state-table-row-entries" => pos = Size(row)
         /\ pos = 1 => node.name = "state-table-row-entries"
         /\ pos = 2 => node.name = "state"
         /\ pos = 3 => node.name = "input-events"
         /\ node.name \in {"state", "num_of_row_evnts", "num_of_actions", "next-state"}
              => node.value \in Nat
         /\ node.name \in {"event", "threshold"} \cup FlowField => node.value \in Value
         /\ node.name = "A" => node.value.act \in Act
<1>1. /\ document \in Documents /\ section # 0 /\ section # Len(document.rows) + 1
      /\ section \in 0..Len(document.rows) /\ pos \in Nat \ {0}
      /\ pos <= NodesOf(document, section)
  BY DocumentTyped DEF Placed
<1>2. row \in RowOfDocument /\ Events(row) \in Nat /\ Listed(row) \in Nat
  BY <1>1, DocumentTyped, RowCounts DEF row
<1>3. /\ NodesOf(document, section) = Size(row)
      /\ Size(row) = 15 + Events(row) + Listed(row)
  BY <1>1 DEF NodesOf, row, Size
<1>4. pos \in 1..Size(row) /\ Size(row) \in Nat /\ Size(row) >= 15
  BY <1>1, <1>2, <1>3
<1>5. node = RowNodes(row)[pos]
  <2>1. Text[document][section] = RowNodes(row)
    BY <1>1, TextIs DEF row
  <2> QED
    BY <2>1 DEF node
<1>6. NodesAre(RowNodes(row), row) /\ Named(node.name, row, pos)
  BY <1>2, <1>4, <1>5, RowNodesAre, Names
<1>7. /\ pos = 1 => node.name = "state-table-row-entries"
      /\ pos = 2 => node.name = "state"
      /\ pos = 3 => node.name = "input-events"
  BY <1>5, <1>6 DEF NodesAre, Node
<1>8. /\ row.state \in Nat /\ row.num_of_row_evnts \in Nat /\ row.num_of_actions \in Nat
      /\ row.next_state \in Nat /\ row.threshold \in Value \cup {Absent}
      /\ row.events \in Seq(Value) /\ row.actions \in Seq(Act) /\ row.flow \in Flow
  BY <1>2 DEF RowOfDocument
<1>9. ASSUME node.name \in {"state", "num_of_row_evnts", "num_of_actions", "next-state"}
      PROVE  node.value \in Nat
  <2>1. \/ pos = 2 \/ pos = 4 \/ pos = 12 + Events(row)
        \/ pos = 14 + Events(row) + Listed(row)
    BY <1>6, <1>9 DEF Named
  <2> DEFINE s == RowNodes(row)
  <2>2. /\ s[2] = Node("state", row.state)
        /\ s[4] = Node("num_of_row_evnts", row.num_of_row_evnts)
        /\ s[12 + Events(row)] = Node("num_of_actions", row.num_of_actions)
        /\ s[14 + Events(row) + Listed(row)] = Node("next-state", row.next_state)
    BY <1>6 DEF NodesAre
  <2> HIDE DEF s
  <2>3. node = s[pos]
    BY <1>5 DEF s
  <2> QED
    BY <1>8, <2>1, <2>2, <2>3 DEF Node
<1>10. ASSUME node.name = "event" PROVE node.value \in Value
  <2>1. pos \in 5..4 + Events(row)
    BY <1>6, <1>10 DEF Named
  <2>2. node = Node("event", row.events[pos - 4])
    BY <1>5, <1>6, <2>1 DEF NodesAre
  <2>3. pos - 4 \in 1..Len(row.events)
    BY <1>2, <1>4, <2>1 DEF Events
  <2>4. row.events[pos - 4] \in Value
    BY <1>8, <2>3
  <2> QED
    BY <2>2, <2>4 DEF Node
<1>11. ASSUME node.name = "threshold" PROVE node.value \in Value
  <2>1. pos = 5 + Events(row) /\ row.threshold # Absent
    BY <1>6, <1>11 DEF Named
  <2>2. node = Node("threshold", row.threshold)
    BY <1>5, <1>6, <2>1 DEF NodesAre, Optional
  <2> QED
    BY <1>8, <2>1, <2>2 DEF Node
<1>12. ASSUME node.name \in FlowField PROVE node.value \in Value
  <2> DEFINE f == FlowFields[pos - 6 - Events(row)]
  <2>1. pos \in 7 + Events(row)..11 + Events(row) /\ f \in DOMAIN row.flow
    BY <1>6, <1>12 DEF Named
  <2>2. node = Node(f, row.flow[f])
    BY <1>5, <1>6, <2>1 DEF NodesAre, FieldNode
  <2>3. PICK fields \in SUBSET FlowField : row.flow \in [fields -> Value]
    BY <1>8 DEF Flow
  <2> HIDE DEF f
  <2> QED
    BY <2>1, <2>2, <2>3 DEF Node
<1>13. ASSUME node.name = "A" PROVE node.value.act \in Act
  <2> DEFINE m == pos - 13 - Events(row)
  <2>1. pos \in 14 + Events(row)..13 + Events(row) + Listed(row)
    BY <1>6, <1>13 DEF Named
  <2>2. node = Node("A", [index |-> m, act |-> row.actions[m]])
    BY <1>5, <1>6, <2>1 DEF NodesAre
  <2>3. m \in 1..Len(row.actions)
    BY <1>2, <1>4, <2>1 DEF Listed
  <2>4. row.actions[m] \in Act
    BY <1>8, <2>3
  <2> QED
    BY <2>2, <2>4 DEF Node
<1>14. node.name = "/state-table-row-entries" => pos = Size(row)
  BY <1>6 DEF Named
<1> QED
  BY <1>3, <1>4, <1>7, <1>9, <1>10, <1>11, <1>12, <1>13, <1>14

\* What is read in the loop l, which is not the document's: a node of a row.
LEMMA InnerLoop ==
  ASSUME TypeInv, More, loop # "document"
  PROVE  section \in 1..Len(document.rows)
<1>1. section \in 0..Len(document.rows) + 1 /\ section # 0 /\ Len(document.rows) \in Nat
  BY DocumentTyped DEF TypeInv, Placed
<1> QED
  BY <1>1 DEF More

\* A node moves the reader so that the loop that goes on is in its place.
LEMMA TypedAfter ==
  ASSUME TypeInv, More, Read, TypeOK',
         \/ section = 0 /\ loop' = "document" /\ state_table_rows' = <<>>
         \/ /\ section # 0
            /\ \/ loop' # "document"
               \/ loop = "document" /\ pos <= 2
               \/ pos = NodesOf(document, section)
  PROVE  TypeInv'
<1>1. /\ Placed' /\ document' = document
      /\ Len(document.rows) \in Nat /\ section \in 0..Len(document.rows)
      /\ pos \in 1..NodesOf(document, section)
      /\ pos < NodesOf(document, section) => section' = section /\ pos' = pos + 1
      /\ pos = NodesOf(document, section) => section' = section + 1 /\ pos' = 1
  BY Moves DEF TypeInv
<1>2. NodesOf(document, section) \in Nat
  BY <1>1, TextIs DEF TypeInv, Placed
<1>3. section' # 0 \/ (section = 0 /\ section' = section)
  BY <1>1, <1>2
<1>4. section' = 0 => loop' = "document" /\ state_table_rows' = <<>>
  BY <1>3
<1>5. ASSUME section' \in 1..Len(document'.rows), loop' = "document" PROVE pos' <= 3
  BY <1>1, <1>2, <1>5
<1> QED
  BY <1>1, <1>4, <1>5 DEF TypeInv

\* What is written into the table, if it hits, is a row.
LEMMA FillTyped ==
  ASSUME TypeOK, NEW r, NEW fits, Fill(r, fits), InTable => r \in Row,
         UNCHANGED total_states
  PROVE  TableTyped' /\ wild' \in BOOLEAN
<1>1. wild' \in BOOLEAN
  BY DEF Fill
<1>2. TableTyped
  BY DEF TypeOK, TableTyped
<1>3. CASE InTable
  <2>1. state_table_rows' = [state_table_rows EXCEPT ![current_row_count] = r]
    BY <1>3 DEF Fill
  <2>2. /\ DOMAIN state_table_rows = 0..total_states - 1 /\ r \in Row
        /\ \A i \in 0..total_states - 1 : state_table_rows[i] \in Row
    BY <1>2, <1>3 DEF InTable, TableTyped
  <2> QED
    BY <1>1, <2>1, <2>2 DEF TableTyped
<1>4. CASE ~InTable
  BY <1>1, <1>2, <1>4 DEF Fill, TableTyped
<1> QED
  BY <1>3, <1>4

LEMMA TempRow ==
  ASSUME TypeOK, InTable
  PROVE  temp_table \in Row
BY DEF TypeOK, InTable, temp_table

\* The types of what a node changes.
LEMMA TypeKept ==
  ASSUME TypeInv, More, Read, TableTyped', wild' \in BOOLEAN,
         loop' \in {"document", "events", "actions", "parsed"},
         params' \in [Param -> Value \cup {Absent}], total_states' \in Nat,
         current_row_count' \in Nat, action_count' \in Nat,
         source_ip' \in Byte \cup {Absent}, flags' \subseteq Notifying
  PROVE  TypeOK'
<1>1. Placed' /\ document' = document
  BY Moves DEF TypeInv
<1> QED
  BY <1>1 DEF Placed, TypeOK, TableTyped

LEMMA HeaderTyped ==
  ASSUME TypeInv, Parameter \/ TotalStates
  PROVE  TypeInv'
<1>1. /\ loop = "document" /\ More /\ Read /\ node.name \in Param \cup {"TotalStates"}
      /\ UNCHANGED <<loop, current_row_count, state_table_rows, source_ip, flags,
                     action_count, wild>>
  BY DEF Parameter, TotalStates, Reads
<1>2. section = 0
  <2>1. SUFFICES ASSUME section # 0 PROVE FALSE
    OBVIOUS
  <2>2. section \in 1..Len(document.rows)
    <3>1. section \in 0..Len(document.rows) + 1 /\ Len(document.rows) \in Nat
      BY DocumentTyped DEF TypeInv, Placed
    <3> QED
      BY <1>1, <2>1, <3>1 DEF More
  <2>3. pos \in 1..3
    BY <1>1, <2>2, NodeTyped DEF TypeInv
  <2>4. node.name \in {"state-table-row-entries", "state", "input-events"}
    BY <2>2, <2>3, NodeTyped DEF TypeInv
  <2> QED
    BY <1>1, <2>4, DocumentsAssumption
<1>3. /\ node.name = "TotalStates" => node.value \in Nat
      /\ node.name \in Param => node.value \in Value
  <2>1. /\ document.total_states \in Nat /\ document.params \in [Param -> Value]
        /\ "TotalStates" \notin Param
    BY DocumentTyped, DocumentsAssumption DEF TypeInv, Placed
  <2> QED
    BY <1>2, <2>1, HeaderPlaces DEF Node, TypeInv
<1>4. state_table_rows = <<>> /\ TypeOK
  BY <1>2 DEF TypeInv
<1>5. /\ params' \in [Param -> Value \cup {Absent}] /\ total_states' \in Nat
      /\ TableTyped'
  <2>1. CASE Parameter
    BY <1>1, <1>3, <1>4, <2>1 DEF Parameter, Reads, TypeOK, TableTyped
  <2>2. CASE TotalStates
    BY <1>1, <1>3, <1>4, <2>2 DEF TotalStates, Reads, TypeOK, TableTyped
  <2> QED
    BY <2>1, <2>2
<1>6. TypeOK'
  BY <1>1, <1>4, <1>5, TypeKept DEF TypeOK
<1> QED
  BY <1>1, <1>2, <1>4, <1>6, TypedAfter

\* The document's loop in a row.
LEMMA OpeningTyped ==
  ASSUME TypeInv, RowEntries \/ State \/ InputEvents
  PROVE  TypeInv'
<1>1. /\ loop = "document" /\ More /\ Read /\ TypeOK
      /\ node.name \in {"state-table-row-entries", "state", "input-events"}
      /\ UNCHANGED <<params, total_states, source_ip, flags, current_row_count, action_count>>
  BY DEF RowEntries, State, InputEvents, Sets, Reads, Scalars, TypeInv
<1>2. section \in 1..Len(document.rows)
  <2>1. section # 0
    <3>1. ASSUME section = 0 PROVE node.name \in Param \cup {"TotalStates"}
      BY <3>1, HeaderPlaces DEF Node, TypeInv
    <3> QED
      BY <1>1, <3>1, DocumentsAssumption
  <2>2. section \in 0..Len(document.rows) + 1 /\ Len(document.rows) \in Nat
    BY DocumentTyped DEF TypeInv, Placed
  <2> QED
    BY <1>1, <2>1, <2>2 DEF More
<1>3. /\ pos \in 1..3 /\ (pos = 3 => node.name = "input-events")
      /\ (node.name = "state" => node.value \in Nat)
  BY <1>1, <1>2, NodeTyped DEF TypeInv
<1>4. TableTyped' /\ wild' \in BOOLEAN /\ loop' \in {"document", "events"}
  <2>1. CASE RowEntries
    <3>1. StrayRow \in Row
      <4>1. [f \in FlowField |-> Stray] \in [FlowField -> Value \cup {Stray}]
        OBVIOUS
      <4>2. <<>> \in Seq(Value) /\ <<>> \in Seq(Act \cup {Stray}) /\ 0 \in Nat
        OBVIOUS
      <4> QED
        BY <4>1, <4>2 DEF StrayRow, Row
    <3> QED
      BY <1>1, <2>1, <3>1 DEF RowEntries, Scalars, TypeOK, TableTyped
  <2>2. CASE State
    <3>1. Fill([temp_table EXCEPT !.state = node.value], TRUE) /\ UNCHANGED loop
          /\ node.value \in Nat
      BY <1>3, <2>2 DEF State, Sets, Reads
    <3>2. InTable => [temp_table EXCEPT !.state = node.value] \in Row
      BY <1>1, <3>1, TempRow DEF Row
    <3> QED
      BY <1>1, <3>1, <3>2, FillTyped
  <2>3. CASE InputEvents
    BY <1>1, <2>3 DEF InputEvents, Scalars, TypeOK, TableTyped
  <2> QED
    BY <2>1, <2>2, <2>3
<1>5. TypeOK'
  BY <1>1, <1>4, TypeKept DEF TypeOK
<1>6. loop' # "document" \/ pos <= 2
  <2>1. CASE InputEvents
    BY <2>1 DEF InputEvents
  <2>2. CASE RowEntries \/ State
    <3>1. node.name # "input-events"
      BY <2>2 DEF RowEntries, State, Sets, Reads
    <3> QED
      BY <1>3, <3>1
  <2> QED
    BY <2>1, <2>2
<1>7. section # 0
  BY <1>2
<1> QED
  BY <1>1, <1>5, <1>6, <1>7, TypedAfter

\* The loop over what is in input-events sets a field of a row.
LEMMA FieldTyped ==
  ASSUME TypeInv, InTable, More, loop = "events"
  PROVE  /\ node.name = "num_of_row_evnts" =>
              [temp_table EXCEPT !.num_of_row_evnts = node.value, !.events = <<>>,
                                 !.event = 0] \in Row
         /\ node.name = "event" =>
              \A room \in BOOLEAN :
                [temp_table EXCEPT !.events = IF room THEN Append(@, node.value) ELSE @,
                                   !.event = @ + 1, !.port_threshold_exists = TRUE] \in Row
         /\ node.name = "threshold" =>
              [temp_table EXCEPT !.threshold = node.value,
                                 !.packet_threshold_exists = TRUE] \in Row
         /\ [temp_table EXCEPT !.flow_exists = TRUE] \in Row
         /\ node.name \in FlowField =>
              [temp_table EXCEPT !.flow =
                 [f \in FlowField |->
                    IF f \in StoredIn(node.name) THEN node.value ELSE @[f]]] \in Row
         /\ node.name = "num_of_actions" =>
              [temp_table EXCEPT !.num_of_actions = node.value,
                                 !.action = [i \in 1..node.value |-> Stray]] \in Row
         /\ node.name = "next-state" =>
              [temp_table EXCEPT !.next_state = node.value] \in Row
<1> DEFINE c == temp_table
           v == node.value
<1>1. c \in Row
  BY TempRow DEF TypeInv
<1>2. /\ node.name \in {"num_of_row_evnts", "num_of_actions", "next-state"} => v \in Nat
      /\ node.name \in {"event", "threshold"} \cup FlowField => v \in Value
  BY InnerLoop, NodeTyped DEF TypeInv
<1> HIDE DEF c, v
<1>3. /\ c.events \in Seq(Value) /\ c.event \in Nat
      /\ c.flow \in [FlowField -> Value \cup {Stray}]
  BY <1>1 DEF Row
<1>4. node.name = "num_of_row_evnts" =>
        [c EXCEPT !.num_of_row_evnts = v, !.events = <<>>, !.event = 0] \in Row
  <2>1. <<>> \in Seq(Value) /\ 0 \in Nat
    OBVIOUS
  <2> QED
    BY <1>1, <1>2, <2>1 DEF Row
<1>5. ASSUME node.name = "event", NEW room \in BOOLEAN
      PROVE  [c EXCEPT !.events = IF room THEN Append(@, v) ELSE @,
                       !.event = @ + 1, !.port_threshold_exists = TRUE] \in Row
  <2>1. Append(c.events, v) \in Seq(Value) /\ c.event + 1 \in Nat
    BY <1>2, <1>3, <1>5
  <2> QED
    BY <1>1, <1>3, <2>1 DEF Row
<1>6. node.name = "threshold" =>
        [c EXCEPT !.threshold = v, !.packet_threshold_exists = TRUE] \in Row
  BY <1>1, <1>2 DEF Row
<1>7. [c EXCEPT !.flow_exists = TRUE] \in Row
  BY <1>1 DEF Row
<1>8. ASSUME node.name \in FlowField
      PROVE  [c EXCEPT !.flow =
                [f \in FlowField |-> IF f \in StoredIn(node.name) THEN v ELSE @[f]]] \in Row
  <2>1. [f \in FlowField |-> IF f \in StoredIn(node.name) THEN v ELSE c.flow[f]]
          \in [FlowField -> Value \cup {Stray}]
    BY <1>2, <1>3, <1>8
  <2> QED
    BY <1>1, <2>1 DEF Row
<1>9. ASSUME node.name = "num_of_actions"
      PROVE  [c EXCEPT !.num_of_actions = v, !.action = [i \in 1..v |-> Stray]] \in Row
  <2>1. v \in Nat /\ [i \in 1..v |-> Stray] \in Seq(Act \cup {Stray})
    BY <1>2, <1>9
  <2> QED
    BY <1>1, <2>1 DEF Row
<1>10. node.name = "next-state" => [c EXCEPT !.next_state = v] \in Row
  BY <1>1, <1>2 DEF Row
<1> QED
  BY <1>4, <1>5, <1>6, <1>7, <1>8, <1>9, <1>10 DEF c, v

LEMMA FieldSetTyped ==
  ASSUME TypeInv, \/ NumOfRowEvents \/ Event \/ Threshold \/ FlowToInstall \/ FlowElement
                  \/ NumOfActions \/ NextState
  PROVE  TypeInv'
<1>1. /\ loop = "events" /\ More /\ Read /\ TypeOK
      /\ UNCHANGED <<params, total_states, flags, loop, action_count>>
  BY DEF NumOfRowEvents, Event, Threshold, FlowToInstall, FlowElement, NumOfActions,
         NextState, Sets, Reads, Scalars, TypeInv
<1>2. TableTyped' /\ wild' \in BOOLEAN
  <2>1. CASE NumOfRowEvents
    BY <1>1, <2>1, FieldTyped, FillTyped DEF NumOfRowEvents, Sets, Reads
  <2>2. CASE Event
    <3> DEFINE room == temp_table.event < temp_table.num_of_row_evnts
               r == [temp_table EXCEPT !.events = IF room THEN Append(@, node.value) ELSE @,
                                       !.event = @ + 1, !.port_threshold_exists = TRUE]
    <3>1. node.name = "event" /\ Fill(r, room)
      BY <2>2 DEF Event, Reads
    <3>2. room \in BOOLEAN
      OBVIOUS
    <3> HIDE DEF room
    <3>3. InTable => r \in Row
      BY <1>1, <3>1, <3>2, FieldTyped
    <3> HIDE DEF r
    <3> QED
      BY <1>1, <3>1, <3>3, FillTyped
  <2>3. CASE Threshold
    BY <1>1, <2>3, FieldTyped, FillTyped DEF Threshold, Sets, Reads
  <2>4. CASE FlowToInstall
    BY <1>1, <2>4, FieldTyped, FillTyped DEF FlowToInstall, Sets, Reads
  <2>5. CASE FlowElement
    <3>1. PICK x \in FlowField :
            /\ node.name = x
            /\ Fill([temp_table EXCEPT !.flow =
                       [f \in FlowField |->
                          IF f \in StoredIn(x) THEN node.value ELSE @[f]]], TRUE)
      BY <2>5 DEF FlowElement, Reads
    <3> QED
      BY <1>1, <3>1, FieldTyped, FillTyped
  <2>6. CASE NumOfActions
    BY <1>1, <2>6, FieldTyped, FillTyped DEF NumOfActions, Sets, Reads
  <2>7. CASE NextState
    BY <1>1, <2>7, FieldTyped, FillTyped DEF NextState, Reads
  <2> QED
    BY <2>1, <2>2, <2>3, <2>4, <2>5, <2>6, <2>7
<1>3. source_ip' \in Byte \cup {Absent}
  <2>1. CASE FlowElement
    <3>1. PICK x \in FlowField :
            /\ node.name = x
            /\ source_ip' = IF x = "src_ip" THEN FirstByte[node.value] ELSE source_ip
      BY <2>1 DEF FlowElement, Reads
    <3>2. node.value \in Value
      BY <1>1, <3>1, InnerLoop, NodeTyped DEF TypeInv
    <3> QED
      BY <1>1, <3>1, <3>2 DEF Byte, TypeOK
  <2>2. CASE ~FlowElement
    BY <1>1, <2>2 DEF NumOfRowEvents, Event, Threshold, FlowToInstall, NumOfActions,
                      NextState, Sets, Scalars, TypeOK
  <2> QED
    BY <2>1, <2>2
<1>4. current_row_count' \in Nat
  <2>1. current_row_count' = current_row_count \/ current_row_count' = current_row_count + 1
    <3>1. CASE NumOfRowEvents \/ Threshold \/ FlowToInstall \/ NumOfActions
      BY <3>1 DEF NumOfRowEvents, Threshold, FlowToInstall, NumOfActions, Sets
    <3>2. CASE Event \/ FlowElement \/ NextState
      BY <3>2 DEF Event, FlowElement, NextState
    <3> QED
      BY <3>1, <3>2
  <2>2. current_row_count \in Nat
    BY <1>1 DEF TypeOK
  <2> QED
    BY <2>1, <2>2
<1>5. TypeOK'
  BY <1>1, <1>2, <1>3, <1>4, TypeKept DEF TypeOK
<1>6. section # 0 /\ loop' # "document"
  BY <1>1 DEF TypeInv
<1> QED
  BY <1>1, <1>5, <1>6, TypedAfter

\* The nodes of a row that set none of its fields.
LEMMA OthersTyped ==
  ASSUME TypeInv, Actions \/ UnknownElement \/ EndOfRow \/ PassedOver
  PROVE  TypeInv'
<1>1. /\ loop \in {"events", "actions"} /\ More /\ Read /\ TypeOK
      /\ UNCHANGED <<params, total_states, source_ip, flags, current_row_count,
                     state_table_rows, wild>>
      /\ action_count' \in Nat /\ loop' \in {"document", "events", "actions"}
  BY DEF Actions, UnknownElement, EndOfRow, PassedOver, Reads, Scalars, TypeInv, TypeOK
<1>2. TypeOK'
  <2>1. TableTyped'
    BY <1>1 DEF TypeOK, TableTyped
  <2> QED
    BY <1>1, <2>1, TypeKept DEF TypeOK
<1>3. section \in 1..Len(document.rows)
  BY <1>1, InnerLoop
<1>4. loop' # "document" \/ pos = NodesOf(document, section)
  <2>1. CASE EndOfRow
    <3>1. node.name = "/state-table-row-entries"
      BY <2>1 DEF EndOfRow, Reads
    <3> QED
      BY <1>3, <3>1, NodeTyped DEF TypeInv
  <2>2. CASE ~EndOfRow
    BY <1>1, <2>2 DEF Actions, UnknownElement, PassedOver, Reads
  <2> QED
    BY <2>1, <2>2
<1>5. section # 0
  BY <1>3
<1> QED
  BY <1>1, <1>2, <1>4, <1>5, TypedAfter

LEMMA ActionElementTyped ==
  ASSUME TypeInv, ActionElement
  PROVE  TypeInv'
<1> DEFINE count == action_count + 1
           taken == node.name = "A" /\ node.value.index = count
           room == count \in DOMAIN temp_table.action
           r == IF room THEN [temp_table EXCEPT !.action[count] = node.value.act]
                ELSE temp_table
<1>1. /\ loop = "actions" /\ More /\ Read /\ TypeOK /\ action_count' = count
      /\ UNCHANGED <<params, total_states, source_ip, current_row_count>>
      /\ IF taken
         THEN /\ Fill(r, room /\ count <= OneDigit)
              /\ flags' = flags \cup ({node.value.act} \cap Notifying)
              /\ loop' \in After(count)
         ELSE /\ wild' = (wild \/ count > OneDigit)
              /\ UNCHANGED <<state_table_rows, flags, loop>>
  BY DEF ActionElement, TypeInv
<1>2. count \in Nat
  BY <1>1 DEF TypeOK
<1>3. flags' \subseteq Notifying /\ loop' \in {"events", "actions"}
  BY <1>1 DEF TypeOK, After
<1>4. TableTyped' /\ wild' \in BOOLEAN
  <2>1. CASE taken
    <3>1. ASSUME InTable PROVE r \in Row
      <4>1. temp_table \in Row /\ node.value.act \in Act
        BY <1>1, <2>1, <3>1, TempRow, InnerLoop, NodeTyped DEF TypeInv
      <4>2. temp_table.action \in Seq(Act \cup {Stray})
        BY <4>1 DEF Row
      <4>3. room => [temp_table.action EXCEPT ![count] = node.value.act]
                      \in Seq(Act \cup {Stray})
        <5> HIDE DEF count
        <5> QED
          BY <4>1, <4>2
      <4>4. CASE room
        <5> HIDE DEF count
        <5> QED
          BY <4>1, <4>3, <4>4 DEF Row
      <4> QED
        BY <4>1, <4>4
    <3>2. Fill(r, room /\ count <= OneDigit)
      BY <1>1, <2>1
    <3> HIDE DEF r, room, count
    <3> QED
      BY <1>1, <3>1, <3>2, FillTyped
  <2>2. CASE ~taken
    BY <1>1, <2>2 DEF TypeOK, TableTyped
  <2> QED
    BY <2>1, <2>2
<1>5. TypeOK'
  BY <1>1, <1>2, <1>3, <1>4, TypeKept DEF TypeOK
<1>6. section # 0 /\ loop' # "document"
  BY <1>1, <1>3 DEF TypeInv
<1> QED
  BY <1>1, <1>5, <1>6, TypedAfter

LEMMA TypeNext ==
  ASSUME TypeInv, [Next]_vars
  PROVE  TypeInv'
<1>1. CASE Parameter \/ TotalStates
  BY <1>1, HeaderTyped
<1>2. CASE RowEntries \/ State \/ InputEvents
  BY <1>2, OpeningTyped
<1>3. CASE \/ NumOfRowEvents \/ Event \/ Threshold \/ FlowToInstall \/ FlowElement
           \/ NumOfActions \/ NextState
  BY <1>3, FieldSetTyped
<1>4. CASE Actions \/ UnknownElement \/ EndOfRow \/ PassedOver
  BY <1>4, OthersTyped
<1>5. CASE ActionElement
  BY <1>5, ActionElementTyped
<1>6. CASE Parsed \/ Spin \/ UNCHANGED vars
  <2>1. /\ UNCHANGED <<document, section, pos, params, total_states, current_row_count,
                       state_table_rows, source_ip, flags, action_count, wild>>
        /\ loop' = loop \/ (loop = "document" /\ ~More /\ loop' = "parsed")
    BY <1>6 DEF Parsed, Spin, Scalars, vars
  <2>2. TypeOK' /\ Placed'
    BY <2>1 DEF TypeInv, TypeOK, Placed
  <2>3. ~More => section # 0
    BY DocumentTyped DEF More, TypeInv, Placed
  <2> QED
    BY <2>1, <2>2, <2>3 DEF TypeInv
<1> QED
  BY <1>1, <1>2, <1>3, <1>4, <1>5, <1>6 DEF Next

\* Whatever sizes a document announces, every row in the table is a row of its
\* type, as many as were announced, and the reader stays in the document.
THEOREM SpecTypeOK == Spec => []TypeOK
<1>1. Init => TypeInv
  <2> SUFFICES ASSUME Init PROVE TypeInv
    OBVIOUS
  <2>1. /\ document \in Documents /\ section = 0 /\ pos = 1 /\ loop = "document"
        /\ params = [p \in Param |-> Absent]
        /\ total_states = 0 /\ current_row_count = 0 /\ action_count = 0
        /\ state_table_rows = <<>> /\ source_ip = Absent /\ flags = {} /\ wild = FALSE
    BY DEF Init
  <2>2. Len(document.rows) \in Nat /\ Len(Params) \in Nat
    BY <2>1, DocumentTyped, HeaderIs
  <2>3. Placed
    BY <2>1, <2>2 DEF Placed, NodesOf
  <2>4. TypeOK
    <3>1. section \in 0..Len(document.rows) + 1 /\ pos \in Nat
      BY <2>1, <2>2
    <3> QED
      BY <2>1, <3>1 DEF TypeOK
  <2> QED
    BY <2>1, <2>3, <2>4 DEF TypeInv
<1>2. TypeInv /\ [Next]_vars => TypeInv'
  BY TypeNext
<1>3. TypeInv => TypeOK
  BY DEF TypeInv
<1> QED
  BY <1>1, <1>2, <1>3, PTL DEF Spec

(***************************************************************************)
(* What follows from the parser's state.                                   *)
(***************************************************************************)

\* The announced actions of a row, and no other, are in its list.
LEMMA ActionsOfRow ==
  ASSUME NEW r \in RowOfDocument, r.num_of_actions \in 1..Listed(r)
  PROVE  /\ DOMAIN RowStored(r).action = 1..r.num_of_actions
         /\ \A m \in 1..r.num_of_actions : RowStored(r).action[m] = r.actions[m]
<1> DEFINE n == r.num_of_actions
<1>1. r.actions \in Seq(Act) /\ n \in Nat /\ n <= Len(r.actions) /\ Len(r.actions) \in Nat
  BY DEF RowOfDocument, Listed
<1>2. RowStored(r).action = SubSeq(r.actions, 1, n)
  BY DEF RowStored
<1>3. SubSeq(r.actions, 1, n) = [m \in 1..n |-> r.actions[m]]
  BY <1>1
<1> QED
  BY <1>2, <1>3

\* Behind the last section the table is the one the document means.
LEMMA TableOfDocument ==
  ASSUME NEW d \in Sound, NEW i, i = Len(d.rows) + 1
  PROVE  /\ DOMAIN TableAt(d, i, 1) = IF d.rows = <<>> THEN {} ELSE 0..d.total_states - 1
         /\ \A k \in DOMAIN TableAt(d, i, 1) :
              TableAt(d, i, 1)[k] =
                IF k < Len(d.rows) THEN RowStored(d.rows[k + 1]) ELSE StrayRow
<1> DEFINE N == Len(d.rows)
<1>1. N \in Nat /\ d.total_states \in Nat /\ (d.rows = <<>> <=> N = 0)
  BY DocumentFacts
<1>2. CASE N = 0
  BY <1>1, <1>2 DEF TableAt
<1>3. CASE N # 0
  <2>1. i # 0 /\ i # 1
    BY <1>1, <1>3
  <2>2. TableAt(d, i, 1) = [k \in 0..d.total_states - 1 |-> RowAt(d, i, 1, k)]
    BY <2>1 DEF TableAt
  <2>3. ASSUME NEW k \in 0..d.total_states - 1
        PROVE  RowAt(d, i, 1, k) = IF k < N THEN RowStored(d.rows[k + 1]) ELSE StrayRow
    <3>1. CASE k < N
      <4>1. ~(k >= N) /\ ~(k >= i) /\ k # i - 1
        BY <1>1, <3>1
      <4> QED
        BY <3>1, <4>1 DEF RowAt
    <3>2. CASE ~(k < N)
      <4>1. k >= N
        BY <1>1, <3>2
      <4> QED
        BY <3>2, <4>1 DEF RowAt
    <3> QED
      BY <3>1, <3>2
  <2> QED
    BY <1>1, <1>3, <2>2, <2>3
<1> QED
  BY <1>2, <1>3

\* What is stored for a row is what it means, but for some fields of its flow.
LEMMA StoredAsMeant ==
  ASSUME NEW r \in RowOfDocument
  PROVE  LET s == RowStored(r)
         IN  /\ \A field \in DOMAIN RowFor(r) : s[field] = RowFor(r)[field]
             /\ s.flow["src_ip"] = FlowFor(r)["src_ip"]
             /\ DOMAIN r.flow \cap (Mask \cup {"src_mac"}) = {} => s.flow = FlowFor(r)
<1>1. \A field \in DOMAIN RowFor(r) : RowStored(r)[field] = RowFor(r)[field]
  <2>1. DOMAIN RowFor(r) =
          {"state", "num_of_row_evnts", "events", "port_threshold_exists",
           "packet_threshold_exists", "threshold", "flow_exists", "num_of_actions",
           "action", "next_state"}
    BY DEF RowFor
  <2>2. /\ RowStored(r).state = RowFor(r).state
        /\ RowStored(r).num_of_row_evnts = RowFor(r).num_of_row_evnts
        /\ RowStored(r).events = RowFor(r).events
        /\ RowStored(r).port_threshold_exists = RowFor(r).port_threshold_exists
        /\ RowStored(r).packet_threshold_exists = RowFor(r).packet_threshold_exists
    BY DEF RowStored, RowFor
  <2>3. /\ RowStored(r).threshold = RowFor(r).threshold
        /\ RowStored(r).flow_exists = RowFor(r).flow_exists
        /\ RowStored(r).num_of_actions = RowFor(r).num_of_actions
        /\ RowStored(r).action = RowFor(r).action
        /\ RowStored(r).next_state = RowFor(r).next_state
    BY DEF RowStored, RowFor
  <2> QED
    BY <2>1, <2>2, <2>3
<1>2. RowStored(r).flow = FlowStored(r.flow)
  BY DEF RowStored
<1>3. FlowStored(r.flow)["src_ip"] = FlowFor(r)["src_ip"]
  BY DEF FlowStored, FlowFor, FlowField, FlowFields
<1>4. ASSUME DOMAIN r.flow \cap (Mask \cup {"src_mac"}) = {}
      PROVE  FlowStored(r.flow) = FlowFor(r)
  <2>1. FlowField = {"src_ip", "src_mac", "dst_mac", "src_mac_mask", "dst_mac_mask"}
    BY DEF FlowField, FlowFields
  <2>2. /\ "src_mac" \notin DOMAIN r.flow /\ "src_mac_mask" \notin DOMAIN r.flow
        /\ "dst_mac_mask" \notin DOMAIN r.flow
    BY <1>4 DEF Mask
  <2> QED
    BY <2>1, <2>2 DEF FlowStored, FlowFor
<1> QED
  BY <1>1, <1>2, <1>3, <1>4

LEMMA ParserExact ==
  ASSUME ParserInv
  PROVE  ParsedExactly
<1> SUFFICES ASSUME loop = "parsed"
             PROVE  /\ params = document.params
                    /\ total_states = document.total_states
                    /\ DOMAIN state_table_rows =
                         IF document.rows = <<>> THEN {} ELSE 0..total_states - 1
                    /\ \A i \in DOMAIN document.rows :
                         state_table_rows[i - 1] = RowStored(document.rows[i])
                           /\ document.rows[i] \in RowOfDocument
                    /\ \A i \in DOMAIN state_table_rows :
                         i >= Len(document.rows) => state_table_rows[i] = StrayRow
                    /\ flags = {a \in Notifying : \E i \in 0..Len(document.rows) - 1 :
                                  \E k \in DOMAIN state_table_rows[i].action :
                                    state_table_rows[i].action[k] = a}
  BY StoredAsMeant DEF ParsedExactly
<1> DEFINE N == Len(document.rows)
<1>1. PlaceInv /\ HeadInv /\ LoopInv /\ TableInv /\ SourceInv /\ FlagsInv
  BY DEF ParserInv
<1>2. section = N + 1
  BY <1>1 DEF LoopInv, LoopAt
<1>3. pos = 1 /\ document \in Sound
  BY <1>1, <1>2 DEF PlaceInv, Placed
<1>4. /\ N \in Nat /\ DOMAIN document.rows = 1..N /\ document.total_states >= N
      /\ document.total_states \in Nat
  BY <1>3, DocumentFacts
<1>5. \A k \in 0..N : \A p : Seen(section, pos, k, p)
  BY <1>2, <1>4 DEF Seen
<1>6. params = document.params
  <2>1. params \in [Param -> Value \cup {Absent}] /\ document.params \in [Param -> Value]
    BY <1>1, <1>3, DocumentFacts DEF HeadInv
  <2>2. ASSUME NEW p \in Param PROVE params[p] = document.params[p]
    <3>1. PICK m \in 1..Len(Params) : p = Params[m]
      BY <1>3, HeaderIs DEF Param
    <3>2. Seen(section, pos, 0, m)
      BY <1>4, <1>5
    <3> QED
      BY <1>1, <3>1, <3>2 DEF HeadInv
  <2> QED
    BY <2>1, <2>2
<1>7. total_states = document.total_states
  BY <1>1, <1>2, <1>4 DEF HeadInv
<1>8. /\ DOMAIN state_table_rows =
           IF document.rows = <<>> THEN {} ELSE 0..document.total_states - 1
      /\ \A k \in DOMAIN state_table_rows :
           state_table_rows[k] = IF k < N THEN RowStored(document.rows[k + 1]) ELSE StrayRow
  BY <1>1, <1>2, <1>3, TableOfDocument DEF TableInv
<1>9. /\ \A i \in 1..N : /\ state_table_rows[i - 1] = RowStored(document.rows[i])
                         /\ document.rows[i] \in RowOfDocument
      /\ \A k \in DOMAIN state_table_rows : k >= N => state_table_rows[k] = StrayRow
  <2>1. ASSUME NEW i \in 1..N
        PROVE  /\ state_table_rows[i - 1] = RowStored(document.rows[i])
               /\ document.rows[i] \in RowOfDocument
    <3>1. /\ i - 1 \in 0..document.total_states - 1 /\ i - 1 < N /\ i - 1 + 1 = i
          /\ document.rows # <<>>
      BY <1>4
    <3>2. document.rows[i] \in RowOfDocument
      BY <1>3, DocumentFacts
    <3> QED
      BY <1>8, <3>1, <3>2
  <2>2. ASSUME NEW k \in DOMAIN state_table_rows, k >= N
        PROVE  state_table_rows[k] = StrayRow
    <3>1. k \in Nat
      BY <1>4, <1>8, <2>2
    <3> QED
      BY <1>4, <1>8, <2>2, <3>1
  <2> QED
    BY <2>1, <2>2
<1>10. ASSUME NEW x
       PROVE  ActionSeen(document, section, pos, x) <=>
                \E i \in 0..N - 1 : \E m \in DOMAIN state_table_rows[i].action :
                  state_table_rows[i].action[m] = x
  <2>1. ASSUME NEW i \in 0..N - 1
        PROVE  /\ DOMAIN state_table_rows[i].action = 1..document.rows[i + 1].num_of_actions
               /\ \A m \in 1..document.rows[i + 1].num_of_actions :
                    state_table_rows[i].action[m] = document.rows[i + 1].actions[m]
    <3>1. i + 1 \in 1..N /\ i < N /\ N # 0
      BY <1>4
    <3>2. /\ document.rows[i + 1] \in RowOfDocument
          /\ document.rows[i + 1].num_of_actions \in 1..Listed(document.rows[i + 1])
      BY <1>3, <3>1, DocumentRows, RowFacts
    <3>3. state_table_rows[i] = RowStored(document.rows[i + 1])
      <4>1. document.rows # <<>> /\ i \in 0..document.total_states - 1
        BY <1>4, <3>1
      <4> QED
        BY <1>8, <3>1, <4>1
    <3> QED
      BY <3>2, <3>3, ActionsOfRow
  <2>2. ASSUME ActionSeen(document, section, pos, x)
        PROVE  \E i \in 0..N - 1 : \E m \in DOMAIN state_table_rows[i].action :
                 state_table_rows[i].action[m] = x
    <3>1. PICK k \in 1..N : \E m \in 1..document.rows[k].num_of_actions :
            document.rows[k].actions[m] = x
      BY <2>2 DEF ActionSeen
    <3>2. k - 1 \in 0..N - 1 /\ k - 1 + 1 = k
      BY <1>4
    <3>3. PICK m \in 1..document.rows[k].num_of_actions : document.rows[k].actions[m] = x
      BY <3>1
    <3>4. /\ DOMAIN state_table_rows[k - 1].action = 1..document.rows[k].num_of_actions
          /\ state_table_rows[k - 1].action[m] = document.rows[k].actions[m]
      BY <2>1, <3>2
    <3>5. m \in DOMAIN state_table_rows[k - 1].action
      BY <3>4
    <3>6. \E l \in DOMAIN state_table_rows[k - 1].action :
            state_table_rows[k - 1].action[l] = x
      BY <3>3, <3>4, <3>5
    <3> QED
      BY <3>2, <3>6
  <2>3. ASSUME NEW i \in 0..N - 1, NEW m \in DOMAIN state_table_rows[i].action,
               state_table_rows[i].action[m] = x
        PROVE  ActionSeen(document, section, pos, x)
    <3>1. i + 1 \in 1..N /\ i + 1 \in 0..N
      BY <1>4
    <3>2. /\ m \in 1..document.rows[i + 1].num_of_actions
          /\ document.rows[i + 1].actions[m] = x
      BY <2>1, <2>3
    <3>3. Seen(section, pos, i + 1, 13 + Events(document.rows[i + 1]) + m)
      BY <1>5, <3>1
    <3> QED
      BY <3>1, <3>2, <3>3 DEF ActionSeen
  <2> QED
    BY <2>2, <2>3
<1>11. flags = {a \in Notifying : \E i \in 0..N - 1 :
                  \E k \in DOMAIN state_table_rows[i].action :
                    state_table_rows[i].action[k] = a}
  BY <1>1, <1>10 DEF FlagsInv
<1> QED
  BY <1>4, <1>6, <1>7, <1>8, <1>9, <1>11

\* The rows counted are complete.
RowsCounted ==
  \A k \in 0..current_row_count - 1 : state_table_rows[k] = RowStored(document.rows[k + 1])

LEMMA ParserCounts ==
  ASSUME ParserInv
  PROVE  RowsCounted
<1> SUFFICES ASSUME NEW k \in 0..current_row_count - 1
             PROVE  state_table_rows[k] = RowStored(document.rows[k + 1])
  BY DEF RowsCounted
<1> PlaceInv /\ TableInv
  BY DEF ParserInv
<1> DEFINE N == Len(document.rows)
           T == document.total_states
           z == Size(document.rows[section])
<1>1. /\ document \in Sound /\ section \in 0..N + 1 /\ pos \in Nat
      /\ section = N + 1 => pos = 1
      /\ section # N + 1 => pos <= NodesOf(document, section)
  BY DEF PlaceInv, Placed
<1>2. N \in Nat /\ T \in Nat /\ T >= N
  BY <1>1, DocumentFacts
<1>3. CASE section \in 1..N /\ pos = z
  <2>1. z > 1 /\ RowRead(document.rows[section], z) = RowStored(document.rows[section])
    BY <1>1, <1>3, DocumentRows, RowFacts, RowReadEnds DEF Size
  <2>2. current_row_count = section
    BY <1>3 DEF TableInv, CountAt
  <2>3. k \in 0..section - 1 /\ k \in 0..T - 1 /\ k + 1 \in 1..section
    BY <1>2, <1>3, <2>2
  <2>4. state_table_rows = [m \in 0..T - 1 |-> RowAt(document, section, pos, m)]
    BY <1>3, <2>1 DEF TableInv, TableAt
  <2>5. ~(k >= N) /\ ~(k >= section)
    BY <1>2, <1>3, <2>3
  <2>6. CASE k = section - 1
    <3>1. k + 1 = section
      BY <1>3, <2>6
    <3> QED
      BY <1>3, <2>1, <2>3, <2>4, <2>5, <2>6, <3>1 DEF RowAt
  <2>7. CASE k # section - 1
    BY <2>3, <2>4, <2>5, <2>7 DEF RowAt
  <2> QED
    BY <2>6, <2>7
<1>4. CASE ~(section \in 1..N /\ pos = z)
  <2>1. section # 0 /\ current_row_count = section - 1
    <3>1. section = 0 => current_row_count = 0
      BY DEF TableInv, CountAt
    <3>2. section # 0
      BY <3>1
    <3> QED
      BY <1>4, <3>2 DEF TableInv, CountAt
  <2>2. /\ k \in 0..section - 2 /\ section > 1 /\ k \in 0..T - 1
        /\ ~(k >= N) /\ ~(k >= section) /\ k # section - 1
    <3> HIDE DEF N, T
    <3> QED
      BY <1>1, <1>2, <2>1
  <2>3. state_table_rows = [m \in 0..T - 1 |-> RowAt(document, section, pos, m)]
    BY <2>2 DEF TableInv, TableAt
  <2> QED
    BY <2>2, <2>3 DEF RowAt
<1> QED
  BY <1>3, <1>4

LEMMA CountKept ==
  ASSUME [Next]_vars
  PROVE  /\ document' = document
         /\ current_row_count' = current_row_count
              \/ current_row_count' = current_row_count + 1
<1>1. CASE Parameter \/ TotalStates \/ RowEntries \/ InputEvents \/ Parsed
  BY <1>1 DEF Parameter, TotalStates, RowEntries, InputEvents, Parsed, Reads, Read
<1>2. CASE State \/ NumOfRowEvents \/ Threshold \/ FlowToInstall \/ NumOfActions
  BY <1>2 DEF State, NumOfRowEvents, Threshold, FlowToInstall, NumOfActions, Sets, Reads, Read
<1>3. CASE Event \/ FlowElement \/ Actions \/ UnknownElement \/ NextState \/ EndOfRow
  BY <1>3 DEF Event, FlowElement, Actions, UnknownElement, NextState, EndOfRow, Reads, Read
<1>4. CASE ActionElement \/ PassedOver
  BY <1>4 DEF ActionElement, PassedOver, Reads, Read
<1>5. CASE Spin \/ UNCHANGED vars
  BY <1>5 DEF Spin, vars
<1> QED
  BY <1>1, <1>2, <1>3, <1>4, <1>5 DEF Next

LEMMA RowsKept ==
  ASSUME current_row_count \in Nat, RowsCounted, RowsCounted', [Next]_vars,
         NEW k \in 0..current_row_count - 1
  PROVE  state_table_rows'[k] = state_table_rows[k]
<1>1. document' = document /\ k \in 0..current_row_count' - 1
  <2>1. current_row_count' = current_row_count \/ current_row_count' = current_row_count + 1
    BY CountKept
  <2> QED
    BY <2>1, CountKept
<1> QED
  BY <1>1 DEF RowsCounted

(***************************************************************************)
(* The theorems.                                                           *)
(***************************************************************************)

\* Of a sound document, at each node, the parser's variables are what the part
\* of the document read so far makes them.
THEOREM SpecParserInv == Spec => [](document \in Sound => ParserInv)
<1>1. Init => (document \in Sound => ParserInv)
  BY ParserInit
<1>2. (document \in Sound => ParserInv) /\ [Next]_vars
        => (document \in Sound => ParserInv)'
  BY CountKept, ParserNext
<1> QED
  BY <1>1, <1>2, PTL DEF Spec

\* Of any sound document, with any number of rows and events and up to nine
\* actions announced in a row, a parser that is done has built the table that
\* the document means, apart from source MAC addresses and masks.
THEOREM SpecParsedExactly == Spec => []ParsedExactly
<1>1. (document \in Sound => ParserInv) => ParsedExactly
  BY ParserExact DEF ParsedExactly
<1> QED
  BY <1>1, SpecParserInv, PTL

\* With a sound document the parser stays inside of the memory it has, though it
\* checks no bounds: the counts come before the lists, and a document that is
\* true to its counts has a place for every element.
THEOREM SpecNoWildWrite == Spec => []NoWildWrite
<1>1. (document \in Sound => ParserInv) => NoWildWrite
  BY DEF ParserInv, NoWildWrite
<1> QED
  BY <1>1, SpecParserInv, PTL

\* A row of a sound document that is counted is complete, and no later step
\* changes it.
THEOREM SpecRowsBuiltOnce == Spec => RowsBuiltOnce
<1> DEFINE I == document \in Sound => ParserInv
           J == document \in Sound => current_row_count \in Nat /\ RowsCounted
<1>1. I /\ TypeOK => J
  BY ParserCounts DEF TypeOK
<1>2. J /\ J' /\ [Next]_vars
      => [\A i \in 0..current_row_count - 1 :
            document \in Sound => state_table_rows'[i] = state_table_rows[i]]_vars
  BY CountKept, RowsKept
<1>3. Spec => []I /\ []TypeOK
  BY SpecParserInv, SpecTypeOK
<1> HIDE DEF I, J
<1> QED
  BY <1>1, <1>2, <1>3, PTL DEF Spec, RowsBuiltOnce
=============================================================================
