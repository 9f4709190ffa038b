-------------------------- MODULE AutomatonProofs --------------------------
(***************************************************************************)
(* Proofs about Automaton, for any tables of rows with any number of       *)
(* actions.  What a row's actions do is the end of a run, the values that  *)
(* Performed goes through; an induction over the natural numbers (from the *)
(* well-foundedness of <) shows what holds all along a run.  Follows says  *)
(* that an agent's counters follow its flow's; Traced, where the events    *)
(* come from that a run has published.                                     *)
(***************************************************************************)
EXTENDS Automaton, Integers, WellFoundedInduction, TLAPS

\* Every non-empty set of natural numbers has a least element.
LEMMA LeastNatural ==
  ASSUME NEW T, T \subseteq Nat, T # {}
  PROVE  \E m \in T : \A k \in T : k >= m
<1>1. PICK m \in T : \A k \in T : ~ (<<k, m>> \in OpToRel(<, Nat))
  BY WFMin, NatLessThanWellFounded
<1>2. ASSUME NEW k \in T PROVE k >= m
  <2>1. ~ (<<k, m>> \in OpToRel(<, Nat))
    BY <1>1
  <2>2. ~ (k < m)
    BY <2>1 DEF OpToRel
  <2> QED
    BY <2>2
<1> QED
  BY <1>2

\* Induction up to n, for a set: it holds all of 0..n if it holds 0 and,
\* with each number below n, the next.
LEMMA Induction ==
  ASSUME NEW n \in Nat, NEW S, 0 \in S,
         \A k \in 1..n : k - 1 \in S => k \in S
  PROVE  \A k \in 0..n : k \in S
<1> DEFINE T == {k \in 0..n : k \notin S}
<1>1. SUFFICES ASSUME T # {} PROVE FALSE
  OBVIOUS
<1>2. PICK m \in T : \A k \in T : k >= m
  <2>1. T \subseteq Nat
    OBVIOUS
  <2> HIDE DEF T
  <2> QED
    BY <1>1, <2>1, LeastNatural
<1>3. m \in 1..n /\ m - 1 \notin T
  BY <1>2
<1> QED
  BY <1>2, <1>3

\* The values of an iteration: step[k] takes the value before the k-th step to
\* the one after it.
Iterates(f, n, c, step) ==
  \A k \in 0..n : f[k] = IF k = 0 THEN c ELSE step[k][f[k - 1]]

LEMMA IterationExists ==
  ASSUME NEW n \in Nat, NEW C, NEW c \in C, NEW step \in [1..n -> [C -> C]]
  PROVE  \E f \in [0..n -> C] : Iterates(f, n, c, step)
<1> DEFINE S == {k \in 0..n : \E f \in [0..k -> C] : Iterates(f, k, c, step)}
<1>1. 0 \in S
  <2> DEFINE f == [k \in 0..0 |-> c]
  <2>1. f \in [0..0 -> C] /\ Iterates(f, 0, c, step)
    BY DEF Iterates
  <2> QED
    BY <2>1
<1>2. ASSUME NEW k \in 1..n, k - 1 \in S PROVE k \in S
  <2>1. PICK g \in [0..k - 1 -> C] : Iterates(g, k - 1, c, step)
    BY <1>2
  <2> DEFINE f == [j \in 0..k |-> IF j < k THEN g[j] ELSE step[k][g[k - 1]]]
  <2>2. step[k][g[k - 1]] \in C
    <3>1. step[k] \in [C -> C] /\ g[k - 1] \in C
      OBVIOUS
    <3> QED
      BY <3>1
  <2>3. f \in [0..k -> C]
    BY <2>2
  <2>4. ASSUME NEW j \in 0..k
        PROVE  f[j] = IF j = 0 THEN c ELSE step[j][f[j - 1]]
    <3>1. CASE j < k
      <4>1. j \in 0..k - 1 /\ f[j] = g[j] /\ (j # 0 => f[j - 1] = g[j - 1])
        BY <3>1
      <4> QED
        BY <2>1, <4>1 DEF Iterates
    <3>2. CASE j = k
      <4>1. j # 0 /\ f[j - 1] = g[k - 1] /\ f[j] = step[k][g[k - 1]]
        BY <3>2
      <4> QED
        BY <3>2, <4>1
    <3> QED
      BY <3>1, <3>2
  <2>5. Iterates(f, k, c, step)
    BY <2>4 DEF Iterates
  <2> QED
    BY <2>3, <2>5
<1>3. \A k \in 0..n : k \in S
  <2> HIDE DEF S
  <2> QED
    BY <1>1, <1>2, Induction
<1> QED
  BY <1>3
-----------------------------------------------------------------------------
\* What Performed returns: the end of a run through the row's actions, if the
\* actions do not lead out of C.
LEMMA PerformedRuns ==
  ASSUME NEW q, NEW C, NEW c \in C,
         rows[q.row].action \in Seq(Action),
         \A x \in C, act \in Action : Perform(x, act, q) \in C
  PROVE  LET actions == rows[q.row].action
         IN  \E done \in [0..Len(actions) -> C] :
               /\ done[0] = c
               /\ \A k \in 1..Len(actions) :
                    done[k] = Perform(done[k - 1], actions[k], q)
               /\ Performed(c, q) = done[Len(actions)]
<1> DEFINE actions == rows[q.row].action
           n == Len(actions)
           step == [k \in 1..n |-> [x \in C |-> Perform(x, actions[k], q)]]
           Runs(f) == f = [k \in 0..n |-> IF k = 0 THEN c
                                         ELSE Perform(f[k - 1], actions[k], q)]
           done == CHOOSE f : Runs(f)
<1>1. n \in Nat /\ \A k \in 1..n : actions[k] \in Action
  OBVIOUS
<1>2. step \in [1..n -> [C -> C]]
  BY <1>1
<1>3. PICK f \in [0..n -> C] : Iterates(f, n, c, step)
  BY <1>1, <1>2, IterationExists
<1>4. ASSUME NEW k \in 0..n
      PROVE  f[k] = IF k = 0 THEN c ELSE Perform(f[k - 1], actions[k], q)
  <2>1. CASE k = 0
    BY <1>3, <2>1 DEF Iterates
  <2>2. CASE k # 0
    <3>1. k \in 1..n /\ k - 1 \in 0..n
      BY <1>1, <2>2
    <3>2. f[k] = step[k][f[k - 1]] /\ f[k - 1] \in C
      BY <1>3, <2>2, <3>1 DEF Iterates
    <3> QED
      BY <2>2, <3>1, <3>2
  <2> QED
    BY <2>1, <2>2
<1>5. Runs(f)
  BY <1>4
<1>6. Runs(done)
  <2> HIDE DEF Runs
  <2> QED
    BY <1>5
<1>7. Performed(c, q) = done[n]
  BY DEF Performed
<1> HIDE DEF done
<1>8. DOMAIN done = 0..n /\ done[0] = c
  BY <1>1, <1>6
<1>9. \A k \in 1..n : done[k] = Perform(done[k - 1], actions[k], q)
  BY <1>1, <1>6
<1>10. done = [k \in 0..n |-> done[k]]
  BY <1>6
<1> HIDE DEF Runs
<1>11. \A k \in 0..n : done[k] \in C
  <2> DEFINE S == {k \in 0..n : done[k] \in C}
  <2>1. 0 \in S
    BY <1>1, <1>8
  <2>2. ASSUME NEW k \in 1..n, k - 1 \in S PROVE k \in S
    <3>1. actions[k] \in Action
      BY <1>1
    <3> HIDE DEF actions
    <3> QED
      BY <1>1, <1>9, <2>2, <3>1
  <2>3. \A k \in 0..n : k \in S
    <3> HIDE DEF S
    <3> QED
      BY <1>1, <2>1, <2>2, Induction
  <2> QED
    BY <2>3
<1>12. done \in [0..n -> C]
  BY <1>10, <1>11
<1> QED
  BY <1>7, <1>8, <1>9, <1>12
-----------------------------------------------------------------------------
\* What the actions of a row work on, and what they have in common.
Context ==
  [agent : Agent, bitmap : [DOMAIN rows -> SUBSET FlowBit],
   moved : BOOLEAN, out : Seq(Notification)]

Common == [row : DOMAIN rows, refused : BOOLEAN, notification : BOOLEAN]

\* An agent whose flags send every action to a notification.
Flagged(a) ==
  \/ a.notify["NOTIFY_CNTLR"] /\ a.total = 0
  \/ a.notify["NOTIFY_CNTLR_AFTER_N_INTERVALS"] /\ a.count = 0

Table == Seq(Row) \ {<<>>}

LEMMA RowIndexType ==
  ASSUME rows \in Table, NEW a \in Agent
  PROVE  RowIndex(a) \in DOMAIN rows /\ RowIndex(a) \in Nat
<1>1. Len(rows) >= 1 /\ DOMAIN rows = 1..Len(rows) /\ Len(rows) \in Nat
  BY DEF Table
<1>2. a.current_state \in Nat /\ a.current_state >= 1
  BY DEF Agent, NoNextState
<1>3. CASE a.current_state <= Len(rows)
  <2>1. RowIndex(a) = a.current_state
    BY <1>3 DEF RowIndex
  <2>2. a.current_state \in 1..Len(rows)
    BY <1>1, <1>2, <1>3
  <2> QED
    BY <1>1, <1>2, <2>1, <2>2
<1>4. CASE ~(a.current_state <= Len(rows))
  BY <1>1, <1>4 DEF RowIndex
<1> QED
  BY <1>3, <1>4

LEMMA RowType ==
  ASSUME rows \in Table, NEW r \in DOMAIN rows
  PROVE  /\ rows[r] \in Row /\ rows[r].action \in Seq(Action)
         /\ rows[r].next_state \in 1..NoNextState
         /\ rows[r].flow_exists \in BOOLEAN
         /\ rows[r].threshold \in [Stat -> Nat]
<1>1. rows[r] \in Row
  BY DEF Table
<1> QED
  BY <1>1 DEF Row

\* A notification is sent for the agent's row, and its flow bits are reset.
LEMMA SendEffect ==
  ASSUME rows \in Table, NEW c \in Context
  PROVE  LET r == RowIndex(c.agent)
             s == Send(c)
         IN  /\ s \in Context /\ s.agent = c.agent /\ s.moved = c.moved
             /\ c.bitmap[r] = {} => s = c
             /\ c.bitmap[r] # {} =>
                  /\ s.bitmap = [c.bitmap EXCEPT ![r] = @ \ Stat]
                  /\ s.out = Append(c.out,
                       [row |-> r, flow |-> IF "unused" \in c.bitmap[r] THEN Stat
                                            ELSE c.bitmap[r]])
<1> DEFINE r == RowIndex(c.agent)
           flow == IF "unused" \in c.bitmap[r] THEN Stat ELSE c.bitmap[r]
           s == [c EXCEPT !.bitmap[r] = @ \ Stat,
                          !.out = Append(@, [row |-> r, flow |-> flow])]
<1>1. /\ c.agent \in Agent /\ c.bitmap \in [DOMAIN rows -> SUBSET FlowBit]
      /\ c.moved \in BOOLEAN /\ c.out \in Seq(Notification)
  BY DEF Context
<1>2. r \in DOMAIN rows /\ r \in Nat
  BY <1>1, RowIndexType
<1>3. [row |-> r, flow |-> flow] \in Notification
  <2>1. c.bitmap[r] \in SUBSET FlowBit /\ Stat \in SUBSET FlowBit
    BY <1>1, <1>2 DEF FlowBit
  <2> QED
    BY <1>2, <2>1 DEF Notification
<1>4. Send(c) = IF c.bitmap[r] = {} THEN c ELSE s
  BY DEF Send
<1> HIDE DEF flow, r
<1> DEFINE bitmap1 == [c.bitmap EXCEPT ![r] = @ \ Stat]
           out1 == Append(c.out, [row |-> r, flow |-> flow])
<1>5. s = [c EXCEPT !.bitmap = bitmap1, !.out = out1]
  OBVIOUS
<1>6. bitmap1 \in [DOMAIN rows -> SUBSET FlowBit] /\ out1 \in Seq(Notification)
  BY <1>1, <1>2, <1>3
<1> HIDE DEF bitmap1, out1, s
<1>7. /\ s \in Context /\ s.agent = c.agent /\ s.moved = c.moved
      /\ s.bitmap = bitmap1 /\ s.out = out1
  BY <1>1, <1>5, <1>6 DEF Context
<1> QED
  BY <1>4, <1>5, <1>7 DEF r, flow, bitmap1, out1

\* A move leaves bits and notifications alone; what it changes of the agent.
LEMMA GotoEffect ==
  ASSUME rows \in Table, NEW c \in Context, NEW q \in Common
  PROVE  LET g == GotoNextState(c, q)
         IN  /\ g \in Context /\ g.moved /\ g.bitmap = c.bitmap /\ g.out = c.out
             /\ g.agent.mon_type = c.agent.mon_type /\ g.agent.total = c.agent.total
             /\ g.agent.count = c.agent.count /\ g.agent.notify = c.agent.notify
             /\ q.refused => ~g.agent.registered
             /\ ~q.refused =>
                  /\ g.agent.current_state = rows[q.row].next_state
                  /\ g.agent.registered = c.agent.registered
                  /\ g.agent.delta = Zero
<1>1. /\ c.agent \in Agent /\ c.bitmap \in [DOMAIN rows -> SUBSET FlowBit]
      /\ c.moved \in BOOLEAN /\ c.out \in Seq(Notification)
  BY DEF Context
<1>2. q.row \in DOMAIN rows /\ q.refused \in BOOLEAN
  BY DEF Common
<1>3. rows[q.row].next_state \in 1..NoNextState
  BY <1>2, RowType
<1>4. Zero \in Counters
  BY ConstantsAssumption DEF Zero, Counters
<1> DEFINE b == IF q.refused THEN [c.agent EXCEPT !.registered = FALSE]
                ELSE [c.agent EXCEPT !.current_state = rows[q.row].next_state,
                                     !.val = Zero, !.delta = Zero, !.interval = Zero]
           g == [c EXCEPT !.moved = TRUE, !.agent = b]
<1>5. GotoNextState(c, q) = g
  BY DEF GotoNextState, Context
<1>6. /\ b \in Agent
      /\ b.mon_type = c.agent.mon_type /\ b.total = c.agent.total
      /\ b.count = c.agent.count /\ b.notify = c.agent.notify
      /\ q.refused => ~b.registered
      /\ ~q.refused =>
           /\ b.current_state = rows[q.row].next_state
           /\ b.registered = c.agent.registered /\ b.delta = Zero
  <2>1. CASE q.refused
    BY <1>1, <2>1 DEF Agent
  <2>2. CASE ~q.refused
    BY <1>1, <1>3, <1>4, <2>2 DEF Agent
  <2> QED
    BY <1>2, <2>1, <2>2
<1> HIDE DEF b
<1>7. g \in Context /\ g.moved /\ g.bitmap = c.bitmap /\ g.out = c.out /\ g.agent = b
  BY <1>1, <1>6 DEF Context
<1> QED
  BY <1>5, <1>6, <1>7

\* What one action of a row does: nothing, a notification, or the move.
LEMMA PerformCases ==
  ASSUME NEW c \in Context, NEW q \in Common, NEW act \in Action
  PROVE  LET notifies == \/ Flagged(c.agent)
                         \/ act \in {"NOTIFY_CNTLR", "NOTIFY_CNTLR_AFTER_N_INTERVALS"}
             moves == /\ act = "GOTO_NXT_STATE" /\ ~Flagged(c.agent)
                      /\ rows[q.row].next_state # NoNextState
         IN  /\ \/ Perform(c, act, q) = c
                \/ /\ c.agent.registered /\ notifies
                   /\ Perform(c, act, q) = Send(c)
                \/ /\ c.agent.registered /\ moves
                   /\ Perform(c, act, q) = GotoNextState(c, q)
             /\ c.agent.registered /\ Flagged(c.agent) /\ MaySend(q)
                  => Perform(c, act, q) = Send(c)
             /\ c.agent.registered /\ moves /\ (\A f \in Flag : ~c.agent.notify[f])
                  => Perform(c, act, q) = GotoNextState(c, q)
<1>1. c.agent \in Agent
  BY DEF Context
<1>2. c.agent.notify \in [Flag -> BOOLEAN]
  BY <1>1 DEF Agent
<1> QED
  BY <1>2 DEF Perform, Wants, Flagged, Action, Flag

LEMMA PerformType ==
  ASSUME rows \in Table, NEW c \in Context, NEW q \in Common, NEW act \in Action
  PROVE  Perform(c, act, q) \in Context
<1>1. Send(c) \in Context
  BY SendEffect
<1>2. GotoNextState(c, q) \in Context
  BY GotoEffect
<1> QED
  BY <1>1, <1>2, PerformCases
-----------------------------------------------------------------------------
(***************************************************************************)
(* A whole run through the actions of a row, begun by the registered agent *)
(* a with the event bits "bits".                                           *)
(***************************************************************************)
Begun(a, bits) == [agent |-> a, bitmap |-> bits, moved |-> FALSE, out |-> <<>>]

\* Actions change nothing of the agent but by moving it, to the next state
\* with statistics that start from zero, or out of the table.
Kept(c, a, q) ==
  /\ c.agent.mon_type = a.mon_type /\ c.agent.total = a.total
  /\ c.agent.count = a.count /\ c.agent.notify = a.notify
  /\ ~c.moved => c.agent = a
  /\ c.moved /\ c.agent.registered =>
       /\ c.agent.current_state = rows[q.row].next_state
       /\ c.agent.delta = Zero

LEMMA KeptStep ==
  ASSUME rows \in Table, NEW a \in Agent, a.registered,
         NEW c \in Context, NEW q \in Common, NEW act \in Action, Kept(c, a, q)
  PROVE  Kept(Perform(c, act, q), a, q)
<1>1. CASE Perform(c, act, q) = c
  BY <1>1
<1>2. CASE Perform(c, act, q) = Send(c)
  <2>1. Send(c).agent = c.agent /\ Send(c).moved = c.moved
    BY SendEffect
  <2> QED
    BY <1>2, <2>1 DEF Kept
<1>3. CASE Perform(c, act, q) = GotoNextState(c, q)
  <2> DEFINE g == GotoNextState(c, q)
  <2>1. /\ g.moved
        /\ g.agent.mon_type = c.agent.mon_type /\ g.agent.total = c.agent.total
        /\ g.agent.count = c.agent.count /\ g.agent.notify = c.agent.notify
        /\ q.refused => ~g.agent.registered
        /\ ~q.refused => /\ g.agent.current_state = rows[q.row].next_state
                         /\ g.agent.delta = Zero
    BY GotoEffect
  <2> HIDE DEF g
  <2>2. Kept(g, a, q)
    BY <2>1 DEF Kept
  <2> QED
    BY <1>3, <2>2 DEF g
<1> QED
  BY <1>1, <1>2, <1>3, PerformCases

LEMMA RunKept ==
  ASSUME rows \in Table, NEW a \in Agent, a.registered, NEW q \in Common,
         NEW bits \in [DOMAIN rows -> SUBSET FlowBit]
  PROVE  LET actions == rows[q.row].action
         IN  \E done \in [0..Len(actions) -> Context] :
               /\ done[0] = Begun(a, bits)
               /\ \A k \in 1..Len(actions) :
                    done[k] = Perform(done[k - 1], actions[k], q)
               /\ \A k \in 0..Len(actions) : Kept(done[k], a, q)
               /\ Performed(Begun(a, bits), q) = done[Len(actions)]
<1> DEFINE actions == rows[q.row].action
           n == Len(actions)
<1>1. actions \in Seq(Action) /\ n \in Nat
  BY RowType DEF Common
<1>2. Begun(a, bits) \in Context
  BY DEF Begun, Context
<1>3. PICK done \in [0..n -> Context] :
        /\ done[0] = Begun(a, bits)
        /\ \A k \in 1..n : done[k] = Perform(done[k - 1], actions[k], q)
        /\ Performed(Begun(a, bits), q) = done[n]
  <2>1. \A x \in Context, act \in Action : Perform(x, act, q) \in Context
    BY PerformType
  <2> QED
    BY <1>1, <1>2, <2>1, PerformedRuns
<1> HIDE DEF actions
<1> DEFINE S == {k \in 0..n : Kept(done[k], a, q)}
<1>4. 0 \in S
  <2>1. Kept(Begun(a, bits), a, q)
    BY DEF Kept, Begun
  <2> QED
    BY <1>1, <1>3, <2>1
<1>5. ASSUME NEW k \in 1..n, k - 1 \in S PROVE k \in S
  <2>1. /\ actions[k] \in Action /\ done[k - 1] \in Context
        /\ Kept(done[k - 1], a, q) /\ done[k] = Perform(done[k - 1], actions[k], q)
    BY <1>1, <1>3, <1>5
  <2>2. Kept(done[k], a, q)
    BY <2>1, KeptStep
  <2> QED
    BY <2>2
<1>6. \A k \in 0..n : k \in S
  <2> HIDE DEF S
  <2> QED
    BY <1>1, <1>4, <1>5, Induction
<1> QED
  BY <1>3, <1>6 DEF actions

\* A flag that applies makes the first action publish every event.
LEMMA RunReports ==
  ASSUME rows \in Table, NEW a \in Agent, a.registered, NEW q \in Common,
         q.row = RowIndex(a), NEW bits \in [DOMAIN rows -> SUBSET FlowBit],
         Flagged(a), MaySend(q), rows[q.row].action # <<>>
  PROVE  LET end == Performed(Begun(a, bits), q)
         IN  /\ ~end.moved
             /\ \A s \in bits[q.row] \cap Stat :
                  \E j \in DOMAIN end.out : s \in end.out[j].flow
<1> DEFINE actions == rows[q.row].action
           n == Len(actions)
           Shown(out) == \A s \in bits[q.row] \cap Stat :
                           \E j \in DOMAIN out : s \in out[j].flow
<1>1. actions \in Seq(Action) /\ n \in Nat /\ n >= 1 /\ q.row \in DOMAIN rows
  BY RowType DEF Common
<1>2. PICK done \in [0..n -> Context] :
        /\ done[0] = Begun(a, bits)
        /\ \A k \in 1..n : done[k] = Perform(done[k - 1], actions[k], q)
        /\ \A k \in 0..n : Kept(done[k], a, q)
        /\ Performed(Begun(a, bits), q) = done[n]
  BY RunKept
<1> HIDE DEF actions
<1> DEFINE S == {k \in 0..n : ~done[k].moved /\ (k # 0 => Shown(done[k].out))}
<1>3. 0 \in S
  BY <1>1, <1>2 DEF Begun
<1>4. ASSUME NEW k \in 1..n, k - 1 \in S PROVE k \in S
  <2> DEFINE c == done[k - 1]
  <2>1. /\ c \in Context /\ ~c.moved /\ c.agent = a
        /\ k - 1 # 0 => Shown(c.out)
        /\ k - 1 = 0 => c.bitmap = bits /\ c.out = <<>>
    <3>1. k - 1 \in 0..n
      BY <1>1
    <3> QED
      BY <1>2, <1>4, <3>1 DEF Begun, Kept
  <2>2. done[k] = Send(c)
    <3>1. actions[k] \in Action /\ done[k] = Perform(c, actions[k], q)
      BY <1>1, <1>2
    <3> HIDE DEF c
    <3> QED
      BY <2>1, <3>1, PerformCases
  <2> HIDE DEF c
  <2>3. c.out \in Seq(Notification) /\ c.bitmap \in [DOMAIN rows -> SUBSET FlowBit]
    BY <2>1 DEF Context
  <2>4. /\ Send(c).moved = c.moved
        /\ c.bitmap[q.row] = {} => Send(c) = c
        /\ c.bitmap[q.row] # {} =>
             Send(c).out = Append(c.out,
               [row |-> q.row, flow |-> IF "unused" \in c.bitmap[q.row] THEN Stat
                                        ELSE c.bitmap[q.row]])
    BY <2>1, SendEffect
  <2>5. Shown(Send(c).out)
    <3>1. CASE c.bitmap[q.row] = {}
      BY <1>1, <2>1, <2>4, <3>1
    <3>2. CASE c.bitmap[q.row] # {}
      <4> DEFINE note == [row |-> q.row, flow |-> IF "unused" \in c.bitmap[q.row]
                                                 THEN Stat ELSE c.bitmap[q.row]]
                 m == Len(c.out)
                 out1 == Append(c.out, note)
      <4>1. /\ m \in Nat /\ DOMAIN c.out = 1..m /\ DOMAIN out1 = 1..m + 1
            /\ out1[m + 1] = note /\ \A j \in 1..m : out1[j] = c.out[j]
        <5> HIDE DEF note
        <5> QED
          BY <2>3
      <4>2. Send(c).out = out1
        BY <2>4, <3>2
      <4> HIDE DEF out1
      <4>3. CASE k - 1 # 0
        BY <2>1, <4>1, <4>2, <4>3
      <4>4. CASE k - 1 = 0
        <5>1. \A s \in bits[q.row] \cap Stat : s \in note.flow
          BY <2>1, <4>4
        <5> QED
          BY <4>1, <4>2, <5>1
      <4> QED
        BY <4>3, <4>4
    <3> QED
      BY <3>1, <3>2
  <2> QED
    BY <2>1, <2>2, <2>4, <2>5
<1>5. \A k \in 0..n : k \in S
  <2> HIDE DEF S
  <2> QED
    BY <1>1, <1>3, <1>4, Induction
<1>6. n \in S
  BY <1>1, <1>5
<1> QED
  BY <1>1, <1>2, <1>6

\* Without flags, a row that lists GOTO_NXT_STATE moves the agent.
LEMMA RunMoves ==
  ASSUME rows \in Table, NEW a \in Agent, a.registered, NEW q \in Common,
         NEW bits \in [DOMAIN rows -> SUBSET FlowBit],
         ListsGoto(rows[q.row]), \A f \in Flag : ~a.notify[f]
  PROVE  Performed(Begun(a, bits), q).moved
<1> DEFINE actions == rows[q.row].action
           n == Len(actions)
<1>1. actions \in Seq(Action) /\ n \in Nat
  BY RowType DEF Common
<1>2. PICK g \in 1..n : actions[g] = "GOTO_NXT_STATE"
  BY <1>1 DEF ListsGoto
<1>3. PICK done \in [0..n -> Context] :
        /\ done[0] = Begun(a, bits)
        /\ \A k \in 1..n : done[k] = Perform(done[k - 1], actions[k], q)
        /\ \A k \in 0..n : Kept(done[k], a, q)
        /\ Performed(Begun(a, bits), q) = done[n]
  BY RunKept
<1>4. ~Flagged(a)
  BY DEF Flagged, Flag, Action
<1> HIDE DEF actions
<1> DEFINE S == {k \in 0..n : k >= g => done[k].moved}
<1>5. 0 \in S
  BY <1>1
<1>6. ASSUME NEW k \in 1..n, k - 1 \in S PROVE k \in S
  <2> DEFINE c == done[k - 1]
  <2>1. /\ c \in Context /\ (k - 1 >= g => c.moved) /\ (~c.moved => c.agent = a)
        /\ actions[k] \in Action /\ done[k] = Perform(c, actions[k], q)
    <3>1. k - 1 \in 0..n
      BY <1>1
    <3>2. actions[k] \in Action
      BY <1>1
    <3>3. Kept(c, a, q) /\ (k - 1 >= g => c.moved) /\ c \in Context
      BY <1>3, <1>6, <3>1
    <3> QED
      BY <1>3, <3>2, <3>3 DEF Kept
  <2> HIDE DEF c
  <2>2. Send(c).moved = c.moved /\ GotoNextState(c, q).moved
    BY <2>1, SendEffect, GotoEffect
  <2>3. CASE c.moved
    <3>1. done[k].moved
      BY <2>1, <2>2, <2>3, PerformCases
    <3> QED
      BY <3>1
  <2>4. CASE ~c.moved /\ k = g
    <3>1. done[k] = GotoNextState(c, q)
      BY <1>2, <1>4, <2>1, <2>4, PerformCases DEF ListsGoto
    <3> QED
      BY <2>2, <3>1
  <2>5. CASE ~c.moved /\ k # g
    BY <1>2, <2>1, <2>5
  <2> QED
    BY <2>3, <2>4, <2>5
<1>7. \A k \in 0..n : k \in S
  <2> HIDE DEF S
  <2> QED
    BY <1>1, <1>5, <1>6, Induction
<1>8. n \in S
  BY <1>1, <1>7
<1> QED
  BY <1>1, <1>2, <1>3, <1>8
-----------------------------------------------------------------------------
(***************************************************************************)
(* Where the events come from that a run publishes: a run only takes bits  *)
(* away, and publishes those it takes, unless an unused one makes up more. *)
(***************************************************************************)
NotedOf(n, c, bits) ==
  /\ n.row \in DOMAIN rows
  /\ n.flow \subseteq (IF "unused" \in bits[n.row] THEN Stat ELSE bits[n.row])
  /\ "unused" \notin bits[n.row] => n.flow \cap c.bitmap[n.row] = {}

Apart(m, n, bits) ==
  m.row = n.row /\ m.flow \cap n.flow # {} => "unused" \in bits[m.row]

Traced(c, bits) ==
  /\ \A r \in DOMAIN rows :
       /\ c.bitmap[r] \subseteq bits[r]
       /\ "unused" \in bits[r] => "unused" \in c.bitmap[r]
  /\ \A j \in DOMAIN c.out : NotedOf(c.out[j], c, bits)
  /\ \A j, k \in DOMAIN c.out : j # k => Apart(c.out[j], c.out[k], bits)

LEMMA SendTraced ==
  ASSUME rows \in Table, NEW c \in Context,
         NEW bits \in [DOMAIN rows -> SUBSET FlowBit], Traced(c, bits)
  PROVE  Traced(Send(c), bits)
<1> DEFINE r == RowIndex(c.agent)
           s == Send(c)
           flow == IF "unused" \in c.bitmap[r] THEN Stat ELSE c.bitmap[r]
           m == [row |-> r, flow |-> flow]
<1>1. CASE c.bitmap[r] = {}
  BY <1>1, SendEffect
<1>2. CASE c.bitmap[r] # {}
  <2>1. /\ c.agent \in Agent /\ c.bitmap \in [DOMAIN rows -> SUBSET FlowBit]
        /\ c.out \in Seq(Notification)
    BY DEF Context
  <2>2. r \in DOMAIN rows
    BY <2>1, RowIndexType
  <2>3. /\ s.bitmap = [c.bitmap EXCEPT ![r] = @ \ Stat]
        /\ s.out = Append(c.out, m)
    BY <1>2, SendEffect
  <2>4. /\ c.bitmap[r] \subseteq bits[r]
        /\ "unused" \in bits[r] <=> "unused" \in c.bitmap[r]
    BY <2>2 DEF Traced
  <2>5. "unused" \notin bits[r] => s.bitmap[r] = {}
    BY <2>1, <2>2, <2>3, <2>4 DEF FlowBit
  <2>6. /\ m.row = r
        /\ m.flow \subseteq (IF "unused" \in bits[r] THEN Stat ELSE bits[r])
        /\ "unused" \notin bits[r] => m.flow = c.bitmap[r]
    BY <2>4
  <2>7. /\ \A j \in DOMAIN c.out : s.out[j] = c.out[j]
        /\ \A j \in DOMAIN s.out : j \in DOMAIN c.out \/ s.out[j] = m
        /\ \A j, k \in DOMAIN s.out :
             j # k => j \in DOMAIN c.out \/ k \in DOMAIN c.out
    BY <2>1, <2>3
  <2> HIDE DEF s, m, flow, r
  <2>8. \A i \in DOMAIN rows :
          /\ s.bitmap[i] \subseteq c.bitmap[i]
          /\ "unused" \in bits[i] => "unused" \in s.bitmap[i]
    BY <2>1, <2>2, <2>3 DEF Traced, Stat
  <2>9. ASSUME NEW j \in DOMAIN s.out PROVE NotedOf(s.out[j], s, bits)
    <3>1. CASE j \in DOMAIN c.out
      <4>1. NotedOf(c.out[j], c, bits)
        BY <3>1 DEF Traced
      <4> QED
        BY <2>7, <2>8, <3>1, <4>1 DEF NotedOf
    <3>2. CASE s.out[j] = m
      BY <2>2, <2>5, <2>6, <3>2 DEF NotedOf
    <3> QED
      BY <2>7, <3>1, <3>2
  <2>10. ASSUME NEW j \in DOMAIN c.out
         PROVE  Apart(c.out[j], m, bits) /\ Apart(m, c.out[j], bits)
    <3>1. NotedOf(c.out[j], c, bits)
      BY DEF Traced
    <3> QED
      BY <2>6, <3>1 DEF NotedOf, Apart
  <2>11. ASSUME NEW j \in DOMAIN s.out, NEW k \in DOMAIN s.out, j # k
         PROVE  Apart(s.out[j], s.out[k], bits)
    <3>1. CASE j \in DOMAIN c.out /\ k \in DOMAIN c.out
      BY <2>7, <2>11, <3>1 DEF Traced
    <3>2. CASE j \in DOMAIN c.out /\ s.out[k] = m
      BY <2>7, <2>10, <3>2
    <3>3. CASE s.out[j] = m /\ k \in DOMAIN c.out
      BY <2>7, <2>10, <3>3
    <3> QED
      BY <2>7, <2>11, <3>1, <3>2, <3>3
  <2>12. \A i \in DOMAIN rows : s.bitmap[i] \subseteq bits[i]
    BY <2>8 DEF Traced
  <2>13. Traced(s, bits)
    BY <2>8, <2>9, <2>11, <2>12 DEF Traced
  <2> QED
    BY <2>13 DEF s
<1> QED
  BY <1>1, <1>2

LEMMA RunTraced ==
  ASSUME rows \in Table, NEW a \in Agent, a.registered,
         NEW q \in Common, NEW bits \in [DOMAIN rows -> SUBSET FlowBit]
  PROVE  Traced(Performed(Begun(a, bits), q), bits)
<1> DEFINE actions == rows[q.row].action
           n == Len(actions)
<1>1. actions \in Seq(Action) /\ n \in Nat
  BY RowType DEF Common
<1>2. PICK done \in [0..n -> Context] :
        /\ done[0] = Begun(a, bits)
        /\ \A k \in 1..n : done[k] = Perform(done[k - 1], actions[k], q)
        /\ Performed(Begun(a, bits), q) = done[n]
  BY RunKept
<1> HIDE DEF actions
<1> DEFINE S == {k \in 0..n : Traced(done[k], bits)}
<1>3. 0 \in S
  BY <1>1, <1>2 DEF Begun, Traced
<1>4. ASSUME NEW k \in 1..n, k - 1 \in S PROVE k \in S
  <2> DEFINE c == done[k - 1]
  <2> HIDE DEF n
  <2>1. k \in 0..n /\ k - 1 \in 0..n
    BY <1>1, <1>4
  <2>2. /\ c \in Context /\ Traced(c, bits)
        /\ done[k] = Perform(c, actions[k], q)
    BY <1>2, <1>4, <2>1
  <2>3. actions[k] \in Action
    BY <1>1, <1>4 DEF n
  <2> HIDE DEF c
  <2>4. CASE done[k] = c
    BY <2>2, <2>4
  <2>5. CASE done[k] = Send(c)
    BY <1>1, <2>2, <2>5, SendTraced
  <2>6. CASE done[k] = GotoNextState(c, q)
    <3>1. /\ done[k].bitmap = c.bitmap /\ done[k].out = c.out
      BY <1>1, <2>2, <2>6, GotoEffect
    <3>2. Traced(done[k], bits)
      BY <2>2, <3>1 DEF Traced, NotedOf
    <3> QED
      BY <3>2
  <2> QED
    BY <2>2, <2>4, <2>5, <2>6, <2>3, PerformCases
<1>5. \A k \in 0..n : k \in S
  <2> HIDE DEF S
  <2> QED
    BY <1>1, <1>3, <1>4, Induction
<1> QED
  BY <1>1, <1>2, <1>5
-----------------------------------------------------------------------------
(***************************************************************************)
(* Counters, and the agent at the start of a poll.                         *)
(***************************************************************************)
LEMMA Modulo ==
  ASSUME NEW m \in Nat, m > 0
  PROVE  /\ \A x \in Nat : x % m \in 0..m - 1
         /\ \A x \in 0..m - 1 : x % m = x
         /\ \A x \in m..2 * m - 1 : x % m = x - m
OBVIOUS

\* Counting on modulo W, and the distance back to the start, for less than W.
LEMMA Distance ==
  ASSUME NEW d \in 0..W - 1, NEW g \in 0..MaxGrowth
  PROVE  /\ (((d + g) % W) + W - d) % W = g
         /\ (((d + g) % W) + 1) % W = (d + (g + 1)) % W \/ g = MaxGrowth
<1>1. W \in Nat /\ W > 0 /\ MaxGrowth \in Nat /\ g <= W - 1
  BY ConstantsAssumption
<1>2. CASE d + g < W
  <2>1. (d + g) % W = d + g
    BY <1>1, <1>2, Modulo
  <2>2. (d + g + W - d) % W = g
    BY <1>1, <1>2, Modulo
  <2>3. (((d + g) % W) + 1) % W = (d + (g + 1)) % W
    BY <1>1, <2>1
  <2> QED
    BY <2>1, <2>2, <2>3
<1>3. CASE d + g >= W
  <2>1. (d + g) % W = d + g - W
    BY <1>1, <1>3, Modulo
  <2>2. (d + g - W + W - d) % W = g
    BY <1>1, <1>3, Modulo
  <2>3. d + g - W + 1 \in 0..W - 1
    BY <1>1, <1>3
  <2>4. g # MaxGrowth => (d + (g + 1)) % W = d + (g + 1) - W
    BY <1>1, <1>3, Modulo
  <2> QED
    BY <1>1, <1>3, <2>1, <2>2, <2>3, <2>4, Modulo
<1> QED
  BY <1>1, <1>2, <1>3

LEMMA TickEffect ==
  ASSUME NEW a \in Agent, a.total # 0 => a.count < a.total
  PROVE  LET t == Tick(a)
         IN  /\ t \in Agent /\ (t.total # 0 => t.count < t.total)
             /\ t.registered = a.registered /\ t.mon_type = a.mon_type
             /\ t.current_state = a.current_state /\ t.total = a.total
             /\ t.notify = a.notify /\ t.delta = a.delta
<1>1. a.total \in Nat /\ a.count \in Nat
  BY ConstantsAssumption DEF Agent
<1>2. a.total # 0 => /\ (a.count + 1) % a.total \in Nat
                     /\ (a.count + 1) % a.total < a.total
  BY <1>1, Modulo
<1> QED
  BY <1>2 DEF Tick, Agent

LEMMA ShiftEffect ==
  ASSUME NEW a \in Agent, NEW reading \in Counters
  PROVE  LET t == Shift(a, reading)
         IN  /\ t \in Agent /\ t.delta = reading
             /\ t.interval = [s \in Stat |-> (reading[s] + W - a.delta[s]) % W]
             /\ t.registered = a.registered /\ t.mon_type = a.mon_type
             /\ t.current_state = a.current_state /\ t.total = a.total
             /\ t.count = a.count /\ t.notify = a.notify
<1> DEFINE interval == [s \in Stat |-> (reading[s] + W - a.delta[s]) % W]
<1>1. a.delta \in Counters
  BY DEF Agent
<1>2. interval \in Counters
  <2>1. ASSUME NEW s \in Stat
        PROVE  (reading[s] + W - a.delta[s]) % W \in 0..W - 1
    <3>1. reading[s] + W - a.delta[s] \in Nat
      BY <1>1, ConstantsAssumption DEF Counters
    <3> QED
      BY <3>1, ConstantsAssumption, Modulo
  <2> QED
    BY <2>1 DEF Counters
<1>3. Shift(a, reading) = [a EXCEPT !.val = a.delta, !.delta = reading,
                                    !.interval = interval]
  BY DEF Shift
<1> HIDE DEF interval
<1>4. Shift(a, reading).interval = interval
  BY <1>3 DEF Agent
<1>5. LET t == Shift(a, reading)
      IN  /\ t \in Agent /\ t.delta = reading
          /\ t.registered = a.registered /\ t.mon_type = a.mon_type
          /\ t.current_state = a.current_state /\ t.total = a.total
          /\ t.count = a.count /\ t.notify = a.notify
  BY <1>1, <1>2, <1>3 DEF Agent
<1> QED
  BY <1>4, <1>5 DEF interval
-----------------------------------------------------------------------------
(***************************************************************************)
(* The parts of a poll: the agent, the events and the bits its actions     *)
(* start from, what the actions have in common, and how they end.          *)
(***************************************************************************)
Flow == MonitorsFlow(agent)

Polled(fails) == IF Flow THEN Shift(Tick(agent), Reading(fails)) ELSE Tick(agent)

Event(fails) ==
  IF Flow THEN Exceeded(Polled(fails), rows[RowIndex(agent)]) ELSE {}

Bits(fails) ==
  IF Flow THEN [bitmap EXCEPT ![RowIndex(agent)] = (@ \ Stat) \cup Event(fails)]
  ELSE bitmap

Query(fails, stale, refused) ==
  [row |-> RowIndex(agent), refused |-> refused,
   notification |-> IF Flow /\ Polled(fails).mon_type = "FP"
                    THEN Event(fails) # {} ELSE stale]

End(fails, stale, refused) ==
  Performed(Begun(Polled(fails), Bits(fails)), Query(fails, stale, refused))

Grown ==
  {s \in Stat : /\ growth[s] > rows[RowIndex(agent)].threshold[s]
               /\ rows[RowIndex(agent)].threshold[s] # 0 /\ Flow}

PollEnds(fails, stale, refused, end) ==
  /\ fails => ReadFails /\ Flow
  /\ agent' = end.agent /\ bitmap' = end.bitmap
  /\ register' = IF end.moved THEN Zero ELSE register
  /\ growth' = IF Flow \/ end.moved THEN Zero ELSE growth
  /\ trusted' = (end.moved \/ IF Flow THEN ~fails ELSE trusted)
  /\ last' = [op |-> "poll", row |-> RowIndex(agent), exceeded |-> Grown,
              real |-> trusted /\ ~fails, moved |-> end.moved, out |-> end.out]

LEMMA PollParts ==
  ASSUME Poll
  PROVE  /\ agent.registered /\ UNCHANGED rows
         /\ \E fails, stale, refused \in BOOLEAN :
              PollEnds(fails, stale, refused, End(fails, stale, refused))
<1>1. agent.registered /\ UNCHANGED rows
  BY DEF Poll
<1>2. PICK fails, stale, refused \in BOOLEAN :
        LET i     == RowIndex(agent)
            flow  == MonitorsFlow(agent)
            a     == IF flow THEN Shift(Tick(agent), Reading(fails)) ELSE Tick(agent)
            event == IF flow THEN Exceeded(a, rows[i]) ELSE {}
            bits  == IF flow THEN [bitmap EXCEPT ![i] = (@ \ Stat) \cup event]
                     ELSE bitmap
            q     == [row |-> i, refused |-> refused,
                      notification |-> IF flow /\ a.mon_type = "FP"
                                       THEN event # {} ELSE stale]
            end   == Performed([agent |-> a, bitmap |-> bits, moved |-> FALSE,
                                out |-> <<>>], q)
            grown == {s \in Stat : /\ growth[s] > rows[i].threshold[s]
                                   /\ rows[i].threshold[s] # 0 /\ flow}
        IN  /\ fails => ReadFails /\ flow
            /\ agent' = end.agent
            /\ bitmap' = end.bitmap
            /\ register' = IF end.moved THEN Zero ELSE register
            /\ growth' = IF flow \/ end.moved THEN Zero ELSE growth
            /\ trusted' = (end.moved \/ IF flow THEN ~fails ELSE trusted)
            /\ last' = [op |-> "poll", row |-> i, exceeded |-> grown,
                        real |-> trusted /\ ~fails,
                        moved |-> end.moved, out |-> end.out]
  BY Zenon DEF Poll
<1>3. PollEnds(fails, stale, refused, End(fails, stale, refused))
  BY <1>2, Zenon DEF PollEnds, End, Query, Bits, Event, Polled, Grown, Flow, Begun
<1> QED
  BY <1>1, <1>3

\* Types of the parts.
LEMMA PollTypes ==
  ASSUME TypeOK, agent.registered, NEW fails \in BOOLEAN, NEW stale \in BOOLEAN,
         NEW refused \in BOOLEAN
  PROVE  /\ RowIndex(agent) \in DOMAIN rows /\ Flow \in BOOLEAN
         /\ Polled(fails) \in Agent /\ Polled(fails).registered
         /\ Polled(fails).total # 0 => Polled(fails).count < Polled(fails).total
         /\ RowIndex(Polled(fails)) = RowIndex(agent)
         /\ Polled(fails).mon_type = agent.mon_type
         /\ Polled(fails).total = agent.total /\ Polled(fails).notify = agent.notify
         /\ Polled(fails).delta = IF Flow THEN Reading(fails) ELSE agent.delta
         /\ Flow => Polled(fails).interval =
                      [s \in Stat |-> (Reading(fails)[s] + W - agent.delta[s]) % W]
         /\ Event(fails) \subseteq Stat
         /\ Bits(fails) \in [DOMAIN rows -> SUBSET FlowBit]
         /\ Query(fails, stale, refused) \in Common
         /\ Query(fails, stale, refused).row = RowIndex(agent)
         /\ Query(fails, stale, refused).refused = refused
<1> DEFINE i == RowIndex(agent)
           t == Tick(agent)
<1>1. /\ rows \in Table /\ agent \in Agent /\ (agent.total # 0 => agent.count < agent.total)
      /\ bitmap \in [DOMAIN rows -> SUBSET FlowBit] /\ register \in Counters
  BY DEF TypeOK, Table
<1>2. i \in DOMAIN rows
  BY <1>1, RowIndexType
<1>3. Flow \in BOOLEAN
  BY DEF Flow, MonitorsFlow
<1>4. Reading(fails) \in Counters
  BY <1>1, ConstantsAssumption DEF Reading, Zero, Counters
<1>5. /\ t \in Agent /\ (t.total # 0 => t.count < t.total)
      /\ t.registered = agent.registered /\ t.mon_type = agent.mon_type
      /\ t.current_state = agent.current_state /\ t.total = agent.total
      /\ t.notify = agent.notify /\ t.delta = agent.delta
  BY <1>1, TickEffect
<1> DEFINE s == Shift(t, Reading(fails))
<1>6. /\ s \in Agent /\ s.delta = Reading(fails)
      /\ s.interval = [x \in Stat |-> (Reading(fails)[x] + W - t.delta[x]) % W]
      /\ s.registered = t.registered /\ s.mon_type = t.mon_type
      /\ s.current_state = t.current_state /\ s.total = t.total
      /\ s.count = t.count /\ s.notify = t.notify
  <2> HIDE DEF t
  <2> QED
    BY <1>4, <1>5, ShiftEffect
<1> HIDE DEF s, t
<1>7. Polled(fails) = IF Flow THEN s ELSE t
  BY DEF Polled, s, t
<1>8. /\ Polled(fails) \in Agent /\ Polled(fails).registered
      /\ Polled(fails).total # 0 => Polled(fails).count < Polled(fails).total
      /\ Polled(fails).current_state = agent.current_state
      /\ Polled(fails).mon_type = agent.mon_type
      /\ Polled(fails).total = agent.total /\ Polled(fails).notify = agent.notify
      /\ Polled(fails).delta = IF Flow THEN Reading(fails) ELSE agent.delta
      /\ Flow => Polled(fails).interval =
                   [x \in Stat |-> (Reading(fails)[x] + W - agent.delta[x]) % W]
  BY <1>5, <1>6, <1>7
<1>9. RowIndex(Polled(fails)) = i
  BY <1>8 DEF RowIndex
<1>10. Event(fails) \subseteq Stat
  BY DEF Event, Exceeded
<1>11. Bits(fails) \in [DOMAIN rows -> SUBSET FlowBit]
  <2>1. Event(fails) \subseteq FlowBit
    BY <1>10 DEF FlowBit
  <2> QED
    BY <1>1, <1>2, <2>1 DEF Bits
<1>12. /\ Query(fails, stale, refused) \in Common
       /\ Query(fails, stale, refused).row = i
       /\ Query(fails, stale, refused).refused = refused
  BY <1>2 DEF Query, Common
<1> QED
  BY <1>2, <1>3, <1>8, <1>9, <1>10, <1>11, <1>12

\* How a poll ends, whatever the actions of the row are.
LEMMA PollKept ==
  ASSUME TypeOK, agent.registered, NEW fails \in BOOLEAN, NEW stale \in BOOLEAN,
         NEW refused \in BOOLEAN
  PROVE  LET end == End(fails, stale, refused)
         IN  end \in Context /\ Kept(end, Polled(fails), Query(fails, stale, refused))
<1> DEFINE a == Polled(fails)
           q == Query(fails, stale, refused)
           n == Len(rows[q.row].action)
<1>1. /\ rows \in Table /\ a \in Agent /\ a.registered /\ q \in Common
      /\ Bits(fails) \in [DOMAIN rows -> SUBSET FlowBit]
  BY PollTypes DEF TypeOK, Table
<1>2. n \in Nat
  <2>1. rows[q.row].action \in Seq(Action)
    BY <1>1, RowType DEF Common
  <2> QED
    BY <2>1
<1> HIDE DEF a, q
<1>3. PICK done \in [0..n -> Context] :
        /\ \A k \in 0..n : Kept(done[k], a, q)
        /\ Performed(Begun(a, Bits(fails)), q) = done[n]
  BY <1>1, RunKept
<1> QED
  BY <1>2, <1>3 DEF End, a, q
-----------------------------------------------------------------------------
(***************************************************************************)
(* Type correctness.                                                       *)
(***************************************************************************)
LEMMA InitType == Init => TypeOK
<1> SUFFICES ASSUME Init PROVE TypeOK
  OBVIOUS
<1>1. rows \in Seq(Row) \ {<<>>}
  BY ConstantsAssumption DEF Init
<1>2. Zero \in Counters /\ Zero \in [Stat -> 0..MaxGrowth]
  BY ConstantsAssumption DEF Zero, Counters
<1>3. PICK type \in MonTypes, n \in Totals :
        agent = [registered |-> TRUE, mon_type |-> type, current_state |-> 1,
                 total |-> n, count |-> 0,
                 notify |-> [f \in Flag |-> Lists(rows, f)],
                 val |-> Zero, delta |-> Zero, interval |-> Zero]
  BY DEF Init
<1>4. [f \in Flag |-> Lists(rows, f)] \in [Flag -> BOOLEAN]
  BY DEF Lists
<1>5. type \in MonType /\ n \in Nat
  BY ConstantsAssumption
<1>6. agent \in Agent /\ (agent.total # 0 => agent.count < agent.total)
  <2> HIDE DEF Flag, Stat, Zero, MonType
  <2> QED
    BY <1>2, <1>3, <1>4, <1>5 DEF Agent, NoNextState
<1>7. bitmap \in [DOMAIN rows -> SUBSET FlowBit]
  BY ConstantsAssumption DEF Init
<1>8. last \in Report
  BY DEF Init, Quiet, Report, Notification
<1> QED
  BY <1>1, <1>2, <1>6, <1>7, <1>8 DEF Init, TypeOK

LEMMA QuietType == Quiet \in Report
BY DEF Quiet, Report

LEMMA TrafficType == ASSUME TypeOK, NEW s \in Stat, Traffic(s) PROVE TypeOK'
<1>1. register' \in Counters
  <2>1. (register[s] + 1) % W \in 0..W - 1
    <3>1. register[s] + 1 \in Nat /\ W \in Nat /\ W > 0
      BY ConstantsAssumption DEF TypeOK, Counters
    <3> QED
      BY <3>1, Modulo
  <2> QED
    BY <2>1 DEF Traffic, TypeOK, Counters
<1>2. growth' \in [Stat -> 0..MaxGrowth]
  BY ConstantsAssumption DEF Traffic, TypeOK
<1> QED
  BY <1>1, <1>2, QuietType DEF Traffic, TypeOK

LEMMA PollType == ASSUME TypeOK, Poll PROVE TypeOK'
<1>1. agent.registered /\ UNCHANGED rows
  BY PollParts
<1>2. PICK fails, stale, refused \in BOOLEAN :
        PollEnds(fails, stale, refused, End(fails, stale, refused))
  BY PollParts
<1> DEFINE end == End(fails, stale, refused)
<1>3. end \in Context /\ Kept(end, Polled(fails), Query(fails, stale, refused))
  BY <1>1, PollKept
<1>4. PollEnds(fails, stale, refused, end)
  BY <1>2
<1> HIDE DEF end
<1>5. /\ end.agent \in Agent /\ end.bitmap \in [DOMAIN rows -> SUBSET FlowBit]
      /\ end.moved \in BOOLEAN /\ end.out \in Seq(Notification)
  BY <1>3 DEF Context
<1>6. agent' \in Agent /\ (agent'.total # 0 => agent'.count < agent'.total)
  <2>1. end.agent.total = Polled(fails).total /\ end.agent.count = Polled(fails).count
    BY <1>3 DEF Kept
  <2>2. Polled(fails).total # 0 => Polled(fails).count < Polled(fails).total
    BY <1>1, PollTypes
  <2> QED
    BY <1>4, <1>5, <2>1, <2>2 DEF PollEnds
<1>7. /\ register' \in Counters /\ growth' \in [Stat -> 0..MaxGrowth]
  <2>1. Zero \in Counters /\ Zero \in [Stat -> 0..MaxGrowth]
    BY ConstantsAssumption DEF Zero, Counters
  <2> QED
    BY <1>4, <2>1 DEF PollEnds, TypeOK
<1>8. trusted' \in BOOLEAN
  BY <1>4, <1>5 DEF PollEnds, TypeOK
<1>9. last' \in Report
  <2>1. RowIndex(agent) \in Nat
    BY RowIndexType DEF TypeOK, Table
  <2>2. Grown \in SUBSET Stat
    BY DEF Grown
  <2>3. (trusted /\ ~fails) \in BOOLEAN
    OBVIOUS
  <2> HIDE DEF Stat
  <2> QED
    BY <1>4, <1>5, <2>1, <2>2, <2>3 DEF PollEnds, Report
<1>10. bitmap' \in [DOMAIN rows' -> SUBSET FlowBit]
  BY <1>1, <1>4, <1>5 DEF PollEnds
<1>11. rows' \in Seq(Row) \ {<<>>}
  BY <1>1 DEF TypeOK
<1> QED
  BY <1>6, <1>7, <1>8, <1>9, <1>10, <1>11 DEF TypeOK

\* A threshold changes in one row, and nothing else of the table does.
LEMMA ThresholdEffect ==
  ASSUME TypeOK, NEW t \in Thresholds, ModifyEventThresholds(t)
  PROVE  /\ rows' \in Table /\ DOMAIN rows' = DOMAIN rows /\ Len(rows') = Len(rows)
         /\ \A i \in DOMAIN rows :
              /\ rows'[i].flow_exists = rows[i].flow_exists
              /\ rows'[i].action = rows[i].action
              /\ rows'[i].next_state = rows[i].next_state
<1> DEFINE r == RowIndex(agent)
           row == [rows[r] EXCEPT !.threshold = t]
<1>1. rows \in Table /\ r \in DOMAIN rows
  BY RowIndexType DEF TypeOK, Table
<1>2. t \in [Stat -> Nat]
  BY ConstantsAssumption
<1>3. /\ row \in Row /\ row.flow_exists = rows[r].flow_exists
      /\ row.action = rows[r].action /\ row.next_state = rows[r].next_state
  <2>1. rows[r] \in Row
    BY <1>1, RowType
  <2> QED
    BY <1>2, <2>1 DEF Row
<1>4. rows' = [rows EXCEPT ![r] = row]
  BY DEF ModifyEventThresholds
<1> HIDE DEF row, r
<1>5. rows' \in Seq(Row) /\ Len(rows') = Len(rows) /\ DOMAIN rows' = DOMAIN rows
  BY <1>1, <1>3, <1>4 DEF Table
<1>6. rows' # <<>>
  BY <1>1, <1>5 DEF Table
<1> QED
  BY <1>1, <1>3, <1>4, <1>5, <1>6 DEF Table

LEMMA NextType == ASSUME TypeOK, [Next]_vars PROVE TypeOK'
<1>1. ASSUME NEW s \in Stat, Traffic(s) PROVE TypeOK'
  BY <1>1, TrafficType
<1>2. CASE Poll
  BY <1>2, PollType
<1>3. ASSUME NEW t \in Thresholds, ModifyEventThresholds(t) PROVE TypeOK'
  BY <1>3, ThresholdEffect, QuietType DEF ModifyEventThresholds, TypeOK, Table
<1>4. ASSUME NEW f \in Toggled, EnableDisableAction(f) PROVE TypeOK'
  <2>1. f \in Flag /\ agent.notify \in [Flag -> BOOLEAN]
    BY ConstantsAssumption DEF TypeOK, Agent
  <2>2. [agent.notify EXCEPT ![f] = ~@] \in [Flag -> BOOLEAN]
    BY <2>1
  <2>3. agent' = [agent EXCEPT !.notify = [agent.notify EXCEPT ![f] = ~@]]
    BY <1>4 DEF EnableDisableAction
  <2>4. agent' \in Agent /\ agent'.total = agent.total /\ agent'.count = agent.count
    BY <2>2, <2>3 DEF TypeOK, Agent
  <2> QED
    BY <1>4, <2>4, QuietType DEF EnableDisableAction, TypeOK
<1>5. CASE UNCHANGED vars
  BY <1>5 DEF vars, TypeOK
<1> QED
  BY <1>1, <1>2, <1>3, <1>4, <1>5 DEF Next

\* The types of the variables, whatever tables and requests a controller sends
\* to s_timer_event and the handlers between two polls.
THEOREM SpecTypeOK == Spec => []TypeOK
BY InitType, NextType, PTL DEF Spec
-----------------------------------------------------------------------------
(***************************************************************************)
(* The counters.  As long as readings succeed, the switch's counter is the *)
(* one last read and what the flow has counted since, modulo W.            *)
(***************************************************************************)
Follows ==
  trusted /\ agent.registered =>
    \A s \in Stat : register[s] = (agent.delta[s] + growth[s]) % W

LEMMA ZeroFollows == \A s \in Stat : Zero[s] = (Zero[s] + Zero[s]) % W
<1>1. 0 % W = 0
  BY ConstantsAssumption, Modulo
<1> QED
  BY <1>1 DEF Zero

\* The interval of a poll both ends of which are read.
LEMMA PollExact ==
  ASSUME TypeOK, Follows, trusted, agent.registered, Flow
  PROVE  Polled(FALSE).interval = growth
<1>1. /\ Polled(FALSE).interval =
           [s \in Stat |-> (Reading(FALSE)[s] + W - agent.delta[s]) % W]
  BY PollTypes
<1>2. ASSUME NEW s \in Stat
      PROVE  (Reading(FALSE)[s] + W - agent.delta[s]) % W = growth[s]
  <2>1. Reading(FALSE)[s] = (agent.delta[s] + growth[s]) % W
    BY DEF Reading, Follows
  <2>2. agent.delta[s] \in 0..W - 1 /\ growth[s] \in 0..MaxGrowth
    BY DEF TypeOK, Agent, Counters
  <2> QED
    BY <2>1, <2>2, Distance
<1>3. growth = [s \in Stat |-> growth[s]]
  BY DEF TypeOK
<1> QED
  BY <1>1, <1>2, <1>3

LEMMA PollFollows == ASSUME TypeOK, Follows, Poll PROVE Follows'
<1>1. agent.registered
  BY PollParts
<1>2. PICK fails, stale, refused \in BOOLEAN :
        PollEnds(fails, stale, refused, End(fails, stale, refused))
  BY PollParts
<1> DEFINE end == End(fails, stale, refused)
           a == Polled(fails)
           q == Query(fails, stale, refused)
<1>3. Kept(end, a, q) /\ end.moved \in BOOLEAN
  BY <1>1, PollKept DEF Context
<1>4. PollEnds(fails, stale, refused, end)
  BY <1>2
<1>5. a.delta = IF Flow THEN Reading(fails) ELSE agent.delta
  BY <1>1, PollTypes
<1> HIDE DEF end, a, q
<1>6. SUFFICES ASSUME trusted', agent'.registered, NEW s \in Stat
               PROVE  register'[s] = (agent'.delta[s] + growth'[s]) % W
  BY DEF Follows
<1>7. CASE end.moved
  <2>1. register' = Zero /\ growth' = Zero /\ agent'.delta = Zero
    BY <1>3, <1>4, <1>6, <1>7 DEF PollEnds, Kept
  <2> QED
    BY <2>1, ZeroFollows
<1>8. CASE ~end.moved /\ Flow
  <2>1. /\ ~fails /\ register' = register /\ growth' = Zero
        /\ agent'.delta = register
    BY <1>3, <1>4, <1>5, <1>6, <1>8 DEF PollEnds, Kept, Reading
  <2>2. register[s] \in 0..W - 1 /\ W \in Nat /\ W > 0
    BY ConstantsAssumption DEF TypeOK, Counters
  <2>3. (register[s] + 0) % W = register[s]
    BY <2>2, Modulo
  <2> QED
    BY <2>1, <2>3 DEF Zero
<1>9. CASE ~end.moved /\ ~Flow
  <2>1. /\ trusted /\ register' = register /\ growth' = growth
        /\ agent'.delta = agent.delta
    BY <1>3, <1>4, <1>5, <1>6, <1>9 DEF PollEnds, Kept
  <2> QED
    BY <1>1, <2>1 DEF Follows
<1> QED
  BY <1>3, <1>7, <1>8, <1>9

LEMMA NextFollows == ASSUME TypeOK, Follows, [Next]_vars PROVE Follows'
<1>1. ASSUME NEW t \in Stat, Traffic(t) PROVE Follows'
  <2> SUFFICES ASSUME trusted, NEW s \in Stat
               PROVE  register'[s] = (agent.delta[s] + growth'[s]) % W
    BY <1>1 DEF Follows, Traffic
  <2>1. /\ register \in [Stat -> 0..W - 1] /\ growth \in [Stat -> 0..MaxGrowth]
        /\ agent.delta \in [Stat -> 0..W - 1]
    BY DEF TypeOK, Agent, Counters
  <2>2. register[s] = (agent.delta[s] + growth[s]) % W
    BY <1>1 DEF Follows, Traffic
  <2>3. CASE s = t
    <3>1. register'[s] = (register[s] + 1) % W /\ growth'[s] = growth[s] + 1
      BY <1>1, <2>1, <2>3 DEF Traffic
    <3>2. growth[s] # MaxGrowth
      BY <1>1, <2>1, <2>3, ConstantsAssumption DEF Traffic
    <3>3. agent.delta[s] \in 0..W - 1 /\ growth[s] \in 0..MaxGrowth
      BY <2>1
    <3>4. (((agent.delta[s] + growth[s]) % W) + 1) % W = (agent.delta[s] + (growth[s] + 1)) % W
      BY <3>2, <3>3, Distance
    <3> QED
      BY <2>2, <3>1, <3>4
  <2>4. CASE s # t
    BY <1>1, <2>1, <2>2, <2>4 DEF Traffic
  <2> QED
    BY <2>3, <2>4
<1>2. CASE Poll
  BY <1>2, PollFollows
<1>3. ASSUME NEW t \in Thresholds, ModifyEventThresholds(t) PROVE Follows'
  BY <1>3 DEF ModifyEventThresholds, Follows
<1>4. ASSUME NEW f \in Toggled, EnableDisableAction(f) PROVE Follows'
  <2>1. agent'.delta = agent.delta /\ agent'.registered = agent.registered
    BY <1>4 DEF EnableDisableAction, TypeOK, Agent
  <2> QED
    BY <1>4, <2>1 DEF EnableDisableAction, Follows
<1>5. CASE UNCHANGED vars
  BY <1>5 DEF vars, Follows
<1> QED
  BY <1>1, <1>2, <1>3, <1>4, <1>5 DEF Next

LEMMA SpecFollows == Spec => [](TypeOK /\ Follows)
<1>1. Init => Follows
  <2> SUFFICES ASSUME Init PROVE Follows
    OBVIOUS
  <2>1. register = Zero /\ growth = Zero /\ agent.delta = Zero
    BY DEF Init
  <2> QED
    BY <2>1, ZeroFollows DEF Follows
<1> QED
  BY <1>1, InitType, NextType, NextFollows, PTL DEF Spec
-----------------------------------------------------------------------------
(***************************************************************************)
(* What a poll does, whatever the tables are.                              *)
(***************************************************************************)
LEMMA OnlyPolls == ASSUME Next, last'.op = "poll" PROVE Poll
<1>1. \A s \in Stat : ~Traffic(s)
  BY DEF Traffic, Quiet
<1>2. \A t \in Thresholds : ~ModifyEventThresholds(t)
  BY DEF ModifyEventThresholds, Quiet
<1>3. \A f \in Toggled : ~EnableDisableAction(f)
  BY DEF EnableDisableAction, Quiet
<1> QED
  BY <1>1, <1>2, <1>3 DEF Next

\* What exceeded its threshold is what the flow has counted too much of.
LEMMA PollGrown ==
  ASSUME TypeOK, Follows, trusted, agent.registered
  PROVE  Grown = Event(FALSE)
<1>1. CASE ~Flow
  BY <1>1 DEF Grown, Event
<1>2. CASE Flow
  BY <1>2, PollExact DEF Grown, Event, Exceeded
<1> QED
  BY <1>1, <1>2

\* Shift: the interval an agent is given is what its flow has counted since the
\* last poll, for any modulus and any growth below it, also when the counter
\* has wrapped and whatever the row's actions have done.
THEOREM SpecIntervalExact == Spec => IntervalExact
<1>1. ASSUME TypeOK /\ Follows, [Next]_vars
      PROVE  [last'.op = "poll" /\ MonitorsFlow(agent) /\ ~last'.moved /\ last'.real
              => agent'.interval = growth]_vars
  <2> SUFFICES ASSUME Next, last'.op = "poll", MonitorsFlow(agent), ~last'.moved,
                      last'.real
               PROVE  agent'.interval = growth
    BY <1>1
  <2>1. Poll
    BY OnlyPolls
  <2>2. agent.registered
    BY <2>1, PollParts
  <2>3. PICK fails, stale, refused \in BOOLEAN :
          PollEnds(fails, stale, refused, End(fails, stale, refused))
    BY <2>1, PollParts
  <2> DEFINE end == End(fails, stale, refused)
             a == Polled(fails)
  <2>4. ~end.moved => end.agent = a
    BY <1>1, <2>2, PollKept DEF Kept
  <2>5. PollEnds(fails, stale, refused, end)
    BY <2>3
  <2> HIDE DEF end
  <2>6. trusted /\ ~fails /\ ~end.moved /\ agent' = end.agent
    BY <2>5 DEF PollEnds
  <2>7. agent' = Polled(FALSE)
    <3>1. fails = FALSE
      BY <2>6
    <3> QED
      BY <2>4, <2>6, <3>1
  <2> QED
    BY <1>1, <2>2, <2>6, <2>7, PollExact DEF Flow
<1> QED
  BY <1>1, SpecFollows, PTL DEF Spec, IntervalExact

\* Perform, Send: an agent with a flag that applies publishes every event of
\* the interval, whatever else its rows list and whatever is left in its bits.
THEOREM SpecFlowEventReported == Spec => FlowEventReported
<1>1. ASSUME TypeOK /\ Follows, [Next]_vars
      PROVE  [last'.op = "poll" /\ last'.real /\ rows[last'.row].action # <<>>
                /\ \/ agent.notify["NOTIFY_CNTLR"] /\ agent.total = 0
                   \/ agent.notify["NOTIFY_CNTLR_AFTER_N_INTERVALS"] /\ agent'.count = 0
              => last'.exceeded \subseteq Reported']_vars
  <2> SUFFICES ASSUME Next, last'.op = "poll", last'.real,
                      rows[last'.row].action # <<>>,
                      \/ agent.notify["NOTIFY_CNTLR"] /\ agent.total = 0
                      \/ agent.notify["NOTIFY_CNTLR_AFTER_N_INTERVALS"] /\ agent'.count = 0
               PROVE  last'.exceeded \subseteq Reported'
    BY <1>1
  <2>1. Poll
    BY OnlyPolls
  <2>2. agent.registered
    BY <2>1, PollParts
  <2>3. PICK fails, stale, refused \in BOOLEAN :
          PollEnds(fails, stale, refused, End(fails, stale, refused))
    BY <2>1, PollParts
  <2> DEFINE end == End(fails, stale, refused)
             a == Polled(fails)
             q == Query(fails, stale, refused)
             bits == Bits(fails)
  <2>4. Kept(end, a, q) /\ end.out \in Seq(Notification)
    BY <1>1, <2>2, PollKept DEF Context
  <2>5. PollEnds(fails, stale, refused, end)
    BY <2>3
  <2>6. /\ rows \in Table /\ a \in Agent /\ a.registered /\ q \in Common
        /\ q.row = RowIndex(a) /\ q.row = RowIndex(agent)
        /\ a.total = agent.total /\ a.notify = agent.notify
        /\ bits \in [DOMAIN rows -> SUBSET FlowBit]
    BY <1>1, <2>2, PollTypes DEF TypeOK, Table
  <2>7. end = Performed(Begun(a, bits), q)
    BY DEF End
  <2> HIDE DEF end, a, q, bits
  <2>8. /\ trusted /\ ~fails /\ agent' = end.agent /\ last'.row = RowIndex(agent)
        /\ last'.exceeded = Grown /\ last'.out = end.out
    BY <2>5 DEF PollEnds
  <2>9. Flagged(a)
    BY <2>4, <2>6, <2>8 DEF Kept, Flagged
  <2>10. Grown = Event(fails)
    <3>1. fails = FALSE
      BY <2>8
    <3> QED
      BY <1>1, <2>2, <2>8, <3>1, PollGrown
  <2>11. SUFFICES ASSUME NEW s \in Event(fails)
                  PROVE  \E j \in DOMAIN end.out : s \in end.out[j].flow
    BY <2>8, <2>10 DEF Reported
  <2>12. Flow /\ s \in Stat /\ s \in bits[q.row]
    <3>1. Flow /\ s \in Stat
      BY <2>11 DEF Event, Exceeded
    <3>2. q.row \in DOMAIN bitmap
      BY <1>1, <2>6 DEF TypeOK, Common
    <3> QED
      BY <2>6, <2>11, <3>1, <3>2 DEF bits, Bits
  <2>13. MaySend(q)
    BY <2>6, <2>12 DEF MaySend, Flow, MonitorsFlow
  <2>14. \A x \in bits[q.row] \cap Stat : \E j \in DOMAIN end.out : x \in end.out[j].flow
    <3>1. rows[q.row].action # <<>>
      BY <2>6, <2>8
    <3>2. LET e == Performed(Begun(a, bits), q)
          IN  \A x \in bits[q.row] \cap Stat : \E j \in DOMAIN e.out : x \in e.out[j].flow
      BY <2>6, <2>9, <2>13, <3>1, RunReports
    <3> QED
      BY <2>7, <3>2
  <2> QED
    BY <2>12, <2>14
<1> QED
  BY <1>1, SpecFollows, PTL DEF Spec, FlowEventReported

\* GotoNextState: an agent without a set flag leaves a row that lists
\* GOTO_NXT_STATE for its next state, at whatever place it lists it.
THEOREM SpecGotoTakenUnflagged == Spec => GotoTakenUnflagged
<1>1. ASSUME TypeOK, [Next]_vars
      PROVE  [last'.op = "poll" /\ ListsGoto(rows[last'.row])
                /\ (\A f \in Flag : ~agent.notify[f])
              => Left(agent', rows[last'.row])]_vars
  <2> SUFFICES ASSUME Next, last'.op = "poll", ListsGoto(rows[last'.row]),
                      \A f \in Flag : ~agent.notify[f]
               PROVE  Left(agent', rows[last'.row])
    BY <1>1
  <2>1. Poll
    BY OnlyPolls
  <2>2. agent.registered
    BY <2>1, PollParts
  <2>3. PICK fails, stale, refused \in BOOLEAN :
          PollEnds(fails, stale, refused, End(fails, stale, refused))
    BY <2>1, PollParts
  <2> DEFINE end == End(fails, stale, refused)
             a == Polled(fails)
             q == Query(fails, stale, refused)
             bits == Bits(fails)
  <2>4. Kept(end, a, q)
    BY <1>1, <2>2, PollKept
  <2>5. PollEnds(fails, stale, refused, end)
    BY <2>3
  <2>6. /\ rows \in Table /\ a \in Agent /\ a.registered /\ q \in Common
        /\ q.row = RowIndex(agent) /\ a.notify = agent.notify
        /\ bits \in [DOMAIN rows -> SUBSET FlowBit]
    BY <1>1, <2>2, PollTypes DEF TypeOK, Table
  <2>7. end = Performed(Begun(a, bits), q)
    BY DEF End
  <2> HIDE DEF end, a, q, bits
  <2>8. agent' = end.agent /\ last'.row = q.row
    BY <2>5, <2>6 DEF PollEnds
  <2>9. end.moved
    BY <2>6, <2>7, <2>8, RunMoves
  <2> QED
    BY <2>4, <2>8, <2>9 DEF Kept, Left
<1> QED
  BY <1>1, SpecTypeOK, PTL DEF Spec, GotoTakenUnflagged
-----------------------------------------------------------------------------
(***************************************************************************)
(* Where published events come from, for all tables and whatever memory a  *)
(* new row was given.                                                      *)
(***************************************************************************)

\* The bits a poll starts from are its events, in the row of the interval.
LEMMA PollBits ==
  ASSUME TypeOK, agent.registered, NEW fails \in BOOLEAN
  PROVE  LET i == RowIndex(agent)
         IN  /\ \A r \in DOMAIN rows :
                  "unused" \in Bits(fails)[r] <=> "unused" \in bitmap[r]
             /\ \A r \in DOMAIN rows : r # i \/ ~Flow => Bits(fails)[r] = bitmap[r]
             /\ Flow /\ "unused" \notin bitmap[i] => Bits(fails)[i] = Event(fails)
<1>1. /\ bitmap \in [DOMAIN rows -> SUBSET FlowBit]
      /\ RowIndex(agent) \in DOMAIN rows /\ Event(fails) \subseteq Stat
  BY PollTypes DEF TypeOK
<1>2. CASE Flow
  BY <1>1, <1>2 DEF Bits, FlowBit, Stat
<1>3. CASE ~Flow
  BY <1>3 DEF Bits
<1> QED
  BY <1>2, <1>3

\* How a poll ends, and what it has published.
LEMMA PollTraced ==
  ASSUME TypeOK, Follows, Poll
  PROVE  \E fails \in BOOLEAN, end \in Context :
           /\ bitmap' = end.bitmap /\ last'.out = end.out
           /\ last'.row = RowIndex(agent) /\ last'.exceeded = Grown
           /\ last'.real = (trusted /\ ~fails)
           /\ Traced(end, Bits(fails))
<1>1. agent.registered
  BY PollParts
<1>2. PICK fails, stale, refused \in BOOLEAN :
        PollEnds(fails, stale, refused, End(fails, stale, refused))
  BY PollParts
<1> DEFINE end == End(fails, stale, refused)
           a == Polled(fails)
           q == Query(fails, stale, refused)
           bits == Bits(fails)
<1>3. /\ rows \in Table /\ a \in Agent /\ a.registered /\ q \in Common
      /\ bits \in [DOMAIN rows -> SUBSET FlowBit]
  BY <1>1, PollTypes DEF TypeOK, Table
<1>4. end = Performed(Begun(a, bits), q)
  BY DEF End
<1>5. end \in Context
  BY <1>1, PollKept
<1>6. PollEnds(fails, stale, refused, end)
  BY <1>2
<1> HIDE DEF end, a, q, bits
<1>7. Traced(end, bits)
  BY <1>3, <1>4, RunTraced
<1>8. /\ bitmap' = end.bitmap /\ last'.out = end.out
      /\ last'.row = RowIndex(agent) /\ last'.exceeded = Grown
      /\ last'.real = (trusted /\ ~fails)
  BY <1>6 DEF PollEnds
<1> QED
  BY <1>5, <1>7, <1>8 DEF bits

\* Send: an event a poll publishes is one of the interval, if it is published
\* of the row the interval was in and no unused bit is set in that; otherwise
\* it was there before, or an unused bit makes it up.
THEOREM SpecEventsHaveSource == Spec => EventsHaveSource
<1> DEFINE From(r) == IF "unused" \in bitmap[r] THEN Stat
                      ELSE IF r = last'.row /\ MonitorsFlow(agent) THEN last'.exceeded
                      ELSE bitmap[r]
<1>1. ASSUME TypeOK /\ Follows, [Next]_vars
      PROVE  [last'.op = "poll" /\ last'.real =>
                \A j \in DOMAIN last'.out :
                  last'.out[j].flow \subseteq From(last'.out[j].row)]_vars
  <2> SUFFICES ASSUME Next, last'.op = "poll", last'.real,
                      NEW j \in DOMAIN last'.out
               PROVE  last'.out[j].flow \subseteq From(last'.out[j].row)
    BY <1>1
  <2> DEFINE n == last'.out[j]
  <2>1. Poll /\ agent.registered
    BY OnlyPolls, PollParts
  <2>2. PICK fails \in BOOLEAN, end \in Context :
          /\ last'.out = end.out
          /\ last'.row = RowIndex(agent) /\ last'.exceeded = Grown
          /\ last'.real = (trusted /\ ~fails)
          /\ Traced(end, Bits(fails))
    BY <1>1, <2>1, PollTraced
  <2>3. fails = FALSE /\ trusted
    BY <2>2
  <2>4. NotedOf(n, end, Bits(FALSE))
    BY <2>2, <2>3 DEF Traced
  <2> HIDE DEF n
  <2>5. /\ n.row \in DOMAIN rows
        /\ n.flow \subseteq (IF "unused" \in Bits(FALSE)[n.row] THEN Stat
                             ELSE Bits(FALSE)[n.row])
    BY <2>4 DEF NotedOf
  <2>6. last'.exceeded = Event(FALSE)
    BY <1>1, <2>1, <2>2, <2>3, PollGrown
  <2>7. /\ "unused" \in Bits(FALSE)[n.row] <=> "unused" \in bitmap[n.row]
        /\ n.row # last'.row \/ ~Flow => Bits(FALSE)[n.row] = bitmap[n.row]
        /\ n.row = last'.row /\ Flow /\ "unused" \notin bitmap[n.row]
             => Bits(FALSE)[n.row] = Event(FALSE)
    BY <1>1, <2>1, <2>2, <2>5, PollBits
  <2> QED
    BY <2>5, <2>6, <2>7 DEF n, Flow
<1> QED
  BY <1>1, SpecFollows, PTL DEF Spec, EventsHaveSource

LEMMA PollOnce == ASSUME TypeOK, Follows, Poll PROVE NoEventTwice'
<1>1. agent.registered
  BY PollParts
<1>2. PICK fails \in BOOLEAN, end \in Context :
        /\ bitmap' = end.bitmap /\ last'.out = end.out
        /\ Traced(end, Bits(fails))
  BY PollTraced
<1>3. ASSUME NEW j \in DOMAIN end.out, NEW k \in DOMAIN end.out, j # k,
             end.out[j].row = end.out[k].row,
             end.out[j].flow \cap end.out[k].flow # {}
      PROVE  "unused" \in end.bitmap[end.out[j].row]
  <2>1. /\ Apart(end.out[j], end.out[k], Bits(fails))
        /\ NotedOf(end.out[j], end, Bits(fails))
    BY <1>2, <1>3 DEF Traced
  <2>2. "unused" \in Bits(fails)[end.out[j].row]
    BY <1>3, <2>1 DEF Apart
  <2> QED
    BY <1>2, <2>1, <2>2 DEF Traced, NotedOf
<1> QED
  BY <1>2, <1>3 DEF NoEventTwice

LEMMA NextOnce ==
  ASSUME TypeOK, Follows, NoEventTwice, [Next]_vars PROVE NoEventTwice'
<1>1. ASSUME last' = Quiet PROVE NoEventTwice'
  BY <1>1 DEF Quiet, NoEventTwice
<1>2. CASE UNCHANGED vars
  BY <1>2 DEF vars, NoEventTwice
<1> QED
  BY <1>1, <1>2, PollOnce
     DEF Next, Traffic, ModifyEventThresholds, EnableDisableAction

\* Send: a row with any number of notifications, before and after any number
\* of moves, publishes an event once, unless it holds an unused bit.
THEOREM SpecNoEventTwice == Spec => []NoEventTwice
<1>1. Init => NoEventTwice
  BY DEF Init, Quiet, NoEventTwice
<1> QED
  BY <1>1, SpecFollows, NextOnce, PTL DEF Spec
=============================================================================
