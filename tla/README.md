# Monitoring automata: verification project

The repository holds a daemon that runs on an OpenNSL switch. A controller asks
it (through a NETCONF server and a ZeroMQ REP socket) to run *monitoring
agents*. An agent is a small automaton: a table whose rows name a flow, event
thresholds, actions and a next state. The daemon installs the flow of the
agent's current row in the TCAM, reads its counters when the agent's poll timer
fires, compares the traffic of the interval with the thresholds, and runs the
row's actions: notifications to the controller, and `GOTO_NXT_STATE`, which
replaces the flow. This directory holds TLA+ models of that daemon, the TLC
configurations that check them, and proofs for TLAPS.

`MA` stands for `src/src/monitor-automata.c`, `MU` for
`src/src/monitoring_utilities.c`, `MH` for `src/src/monitor-automata.h`.
The exact lines behind every definition are in `PROJECT.json` under `map`.

## 1. Inventory

All of the daemon runs in one thread, the czmq reactor (`zloop_start`): handlers
of sockets and timers run one after the other to completion. What makes it hard
is therefore not preemption but the *order* in which handlers run, the state
they leave for each other, and the operations of the switch that fail halfway.

| Component | State | Operations | Module |
|---|---|---|---|
| Agent table and poll timers | `agent_hmap`; per agent `mon_id`, `poll_time`, `timer_id`; the reactor's timers | MON_HELLO, MON_STOP, MON_PARAM_CHANGE, `s_timer_event` (which agents it polls) | `AgentTimers` |
| Flow entries in the switch | per agent `flow_entry_id`, `stat_id`, current row; the switch's entries and statistics objects | create / attach / install, destroy, GOTO_NXT_STATE | `FlowEntries` |
| Automaton of an agent | rows with thresholds and event bitmaps, `current_state`, counters of three moments, notify flags, interval counter | the body of the loop of `s_timer_event`; modify-event-thresholds, enable-disable-action | `Automaton` |
| TCAM shortage alarm | `tcam_timer_interval`, `tcam_thresholds`, `send_switch_notification`, two timers | periodic check, muting timer, configure-tcam-timer, fp-entry-threshold | `TcamAlarm` |
| NETCONF request server | the REP socket's turn, the set of agents, what its clients have been told | one reply per request: `s_netconf_socket_event`, `check_msg_type` | `NetconfServer`, against `AgentRegistry` |
| State table parser | the reader, the row being filled, its event and action lists | `processNode`, `streamFile` | `StateTable` |
| Start-up, L3 interfaces | field group, routing objects of the switch, sockets | `main`, `init_open_nsl`, `bcm_application_init`, `configure_test_environment`, `mon_fp_stats_group_create` | `Startup` |
| Replies without state | - | port statistics, heavy hitter, device id, group status | that they are sent: `NetconfServer`; their contents are not modelled |
| Locked agent list, key vector | `lists.c`, `vector.c` | insert, find, remove | not modelled (no caller in the daemon) |
| Buffer statistics | - | compiled out (`BST` is never defined) | not modelled |
| `util.c`, `zhelpers.h`, OpenNSL, czmq, libxml2 | - | third-party | from their use only |

How they interact. `main` runs the start-up and then the reactor, whatever came of
the start-up's calls of the switch. The request server calls the agent table (which timers run),
the flow entries (which flows are installed) and the automaton (flags and
thresholds). A poll timer carries the `mon_id` of *one* agent and polls *all*
agents with that agent's poll-time; polling runs the automaton, and a move of
the automaton calls the flow entries. A refused move removes the agent from the
table from within the poll. The alarm only reads the table's size and the
switch's count of free entries.

What is hard, and what makes each part correct:

* **Timers.** A group (all agents of one poll-time) shares one timer that one of
  its agents owns. Ownership moves when the owner stops, changes its poll-time,
  or disappears. Correct means: never two timers for a group, never a group
  without, never a timer nobody can cancel, and every agent polled for ever.
* **Flow entries.** Eight operations of the switch may fail, the code looks at
  some of the results, and ids of destroyed objects are handed out again.
  Correct means: the current row's flow is installed and counted, nothing is
  left behind, and no agent touches the entry of another one.
* **Automaton.** Event bits, free-running counters, flags and the list of actions
  interact over several polls. Correct means: an event is reported if and only
  if the interval's traffic exceeded the threshold, once; moves are taken.
* **Parser.** Three nested loops read one stream of nodes and end only at nodes
  they expect, and a document announces its sizes apart from what it lists.
  Correct means: with sizes that agree they end, each element lands in its row, and
  no write leaves the memory that the announced sizes gave it.
* **Requests.** A REP socket must be answered exactly once per request, on every
  path of a handler with a dozen returns, and agents disappear without a request.
  Correct means: what a controller is told is what there is, and every request
  is answered.
* **Start-up.** Ten calls of the switch in a row, each of which may fail, with
  nothing undone and the result ignored. Correct means: wherever it stops, what
  has been made does not refer to what has not.
* **Alarm.** Two timers of one period fall due together and the period can be
  changed in between. Correct means: muted by exactly one timer, alarms keep
  their distance, no shortage stays unreported.

`PROJECT.json` lists the hazards line by line, and the properties that cover
them.

## 2. Plan

What has been done, in this order, and what is left:

1. `PollService` / `AgentTimers` / `AgentTimersProofs` - the group timers, what
   they promise, and the proofs. *Done.*
2. `FlowEntries`, `Automaton`, `TcamAlarm` - the other parts with state. *Done,
   except for the port events of the automaton.*
3. `FlowEntriesProofs`: the properties that hold whatever fails;
   `FlowEntriesExactProofs`: those that hold if the switch only refuses entries.
   *Done.*
4. `StateTable` - the parser of MON_HELLO's XML file. *Done.*
5. `Startup`, `NetconfServer`, `AgentRegistry` - the daemon from `main` on, as its
   controllers see it; `NetconfServer` composes the two others. *Done*, with
   `StartupProofs` and `NetconfServerProofs`.
6. `TcamAlarmProofs`, `AutomatonProofs`, `StateTableProofs`: with them every safety
   property of every passing run is a theorem, except `OnlySoundTables`. *Done.*
7. Left: the composition of `AgentTimers`, `FlowEntries` and `Automaton` in one poll
   that visits agent after agent. Each of the three already allows what the
   others may do to it (a refused flow, a poll in any order, a discarded agent).

## 3. The modules

### AgentTimers

An agent is named by its object (`Handle`), because nothing keeps two objects
from having one `mon_id`. `mon_id`, `poll_time` and `timer_id` are the fields of
the object; `zloop` holds the running timers and the last id given out (czmq
counts up and never reuses ids, and the TCAM check took the first one). One
action per handler: `MonHello`, `MonHelloNoFile` (the file does not open; the
zeroed object is registered all the same), `MonHelloRefused`, `MonStop`,
`MonParamChange`, `MonUnknown` (NULL is dereferenced: `up` becomes FALSE),
`OtherHandler`, and `TimerEvent` with its three cases (the agent is gone; the
group is polled; a move is refused in the middle of the group, after any part of
the group has been polled, as the order of the hash map is arbitrary).
Memory is not modelled. `PollInstallFails` frees an agent twice, which the
allocator may or may not survive: `up` is either value afterwards.

`Release` and `Enter` are the two halves of a hand-over. MON_PARAM_CHANGE does
both in one handler, with the timers' delay taken from a local that only the
MON_HELLO branch assigns (`StrayDelay`).

`Faults` selects which of the following may happen: a second HELLO for an id
(`duplicate`), a file that does not open (`nofile`), an unknown id (`unknown`), a
refused flow (`install`).

`PollService` is what the controller may expect: agents are registered, change
group and leave, a poll serves a group as a whole, and every registered agent is
served again and again. `AgentTimers` implements it with a refinement mapping
that keeps registered agents and who was polled, and forgets timers altogether.

### FlowEntries

`hw` is the switch: entries (owner, flow, statistics object, installed) and
statistics objects; ids are positive and are reused once free. `EntryCreate`,
`StatAttachInstall`, `StartFlow` and `Destroy` are the functions of the code as
sets of outcomes: a `Failing` operation may return any of `ErrorCode`, and the
functions go on or stop as the code does. So a code other than -1 of
`mon_fp_stats_feature_entry_create` is stored as an entry id, a failing
statistics step leaves `stat_id` as it was, and destroying stops at the first
failing step. Actions: `MonHello`, `MonStop`, `GotoNextState` (the call from
`s_timer_event`). One iteration of the polling loop is one action: the code goes
through several agents without a handler in between, the model also interleaves
requests there, which only adds behaviours.

`Stored` models that rows come from `malloc` and that `flow_exists` is only ever
set: a row without a flow may be stored as a row with a stray one. When no entry
is free and creating may not fail, `MonHello` is not enabled: such runs describe a
switch with room for everybody. A row is assumed to list GOTO_NXT_STATE at most once, and next
states start at 1 (0 makes the code read before its array).

### Automaton

One agent, between MON_HELLO and its end. `Poll` is one iteration of the loop of
`s_timer_event`, in the order of the code: tick the interval counter, shift the
end-of-interval counters to the start, read the flow's counters, take the
difference modulo `W`, set and reset the row's event bits, compare the port
threshold, then run the row's actions one after the other (`Performed`, a
recursive function of the number of actions done, made of `Perform`). `Perform`
is the code's chain of `else if`, in which "this action *or* the agent's flag"
lets an earlier branch claim a later branch's action. `Send` and `GotoNextState` work
on the row the agent is in *by then*, as in the code.

Uninitialised data is nondeterministic: `StrayBits` are the bits a new row's
bitmap may hold, `stale` is the value the local `notification` keeps from the
agent polled before. `growth` and `trusted` are ghosts: what the flow has
counted since it was last read, and whether that read succeeded.

Of the notifications only flow events are modelled. Link utilisation and port
data notifications, and mon_status, publish values and change no state. The
branch of NOTIFY_LINK_UTILIZATION is kept, because it keeps actions from later
branches.

Port events are not compared in the model because they are not compared
with the controller's thresholds in the code: the parser advances `table->event` while it fills the list and never rewinds it
(MA 325-330 and following), and `check_events_bst_port_stats` then reads past its end.

### StateTable

A document is what the controller means: the parameters, the announced number of
rows, and rows, of which there may be none. `Text` gives the nodes the reader
delivers for it, in the order in which the code expects them: a header
(parameters and `TotalStates`), then a section for each row, with `next-state` after
everything else in it. `section` and `pos` are the reader's place. Nodes the code
passes over (`Ignored`) stand where a document leaves an element out. `loop` says
which of the three nested loops reads the next node: `streamFile`'s, the one over
`input-events`, which goes on to the end tag of the row, or the one over the
actions. Each action reads one node. `state_table_rows` is the array from malloc,
with `Stray` for what nobody has written; `wild` records a write outside of what
was allocated, and stands for everything that may happen then.

`RowFor` and `FlowFor` state what the controller means by a row. The code does not
store a flow's MAC addresses as sent: `src_mac` is given to the log instead of being
copied (MA 452), and each mask is copied over its address (MA 464, 470). `StoredIn` has it
as the code does, and `ParsedExactly` leaves the MAC addresses of such flows out. Only the row is affected, and not
the installed entry, since the MAC qualifiers are compiled out (`QUALIFY_ALL`). Likewise, `source_ip` is a
byte that takes `atoi` of a dotted address, of whatever row comes last (`FirstByte`).
`FlowEntries` and `Automaton` take such tables as their constants.

A document announces the number of its rows, and of the events and actions of each
row, apart from what it lists, and the code does not compare the two. Any document
is a behaviour of the model. `Sound` are those whose sizes agree: room for every row and every event,
and in each row at least one action announced, not more than listed (fewer is
in order: the elements left over are passed), and not more than nine, as
`action_string` has room for `A` and one digit, and every element in the loop over the actions is counted and printed
there (MA 515-518, `OneDigit`). With other documents

* a row, an event or an action for which there is no room is a stray write (`wild`);
* an announced action that is not listed lets the loop over the actions go on
  past the end of the row (`PassedOver`), count the elements of the next row, and
  at the end of the file read nothing for ever (`Spin`), because no inner loop looks at the
  reader's result;
* a row that announces no action but has an `action` element does the same, because the count is
  increased before it is compared for equality (MA 545).

A row always has an `action` element here, and no announced number is negative.

### TcamAlarm

Discrete time. A timer is a countdown and a period; no tick passes while a timer
is due, that is, the daemon keeps up with its timers; timers that are due at the
same instant fire in any order. `since`, `spacing`, `steady` and `silent` are
ghosts for the properties.

### Startup

One action per step of `main` before the reactor, with `pc` as the place in it.
`sw` is the set of objects the routing set-up has made in the switch, each with the
side (ingress or egress) it is for, or with the egress object it leads to:
`l3egid` is a local without an initial value, `"stray"` here. `VlanPortAdd` and
`CreateL3Intf` are the helpers as sets of outcomes; the first returns before it
adds the port if the VLAN cannot be created, also when it exists already, and
the second goes on in that case. `preset` is a ghost: the sides whose VLAN the
switch had before. A failure ends the set-up and not the program. Two failures
are noticed by nobody: the creation of the field group (`main` tests `!rc` of a
function that returns true or a negative code, so that the daemon may serve with
`fp_mon_stats_grps = -1`, and all flows are refused from then on), and a REP
socket that cannot be bound (`bound` is FALSE and no request ever arrives).

### NetconfServer and AgentRegistry

`NetconfServer` extends `Startup` with the requests. `Serve` is one call of
`s_netconf_socket_event`: it receives the request of some client, carries it out
and answers it; `Outcomes` is the dispatch by kind of request to the possible
outcomes, an outcome being the agents it leaves and the reply. The reply `"none"`
is a handler that returns without one (an unknown type, MA 1551-1555): the
socket is left in `"send"` and delivers no further request. `"dead"` is a NULL that
is dereferenced (MON_STOP and MON_PARAM_CHANGE of an unknown id). `PollDiscards`
is `s_timer_event` removing an agent whose next flow is refused (MA 1257), about
which nobody is told; the comment there has the notification as "TO DO". The agent
is freed twice there, which the process may or may not survive (`alive` is
either value afterwards, as `up` in `AgentTimers.PollInstallFails`).
`believed` is what the controllers have been told: they start agents they do not
believe in, and stop or change agents they do.

Requests are kept to their kind and agent. What they do to timers, entries, row
tables and the alarm is in the other modules. Here each client waits for its reply, each agent is
managed by one client, requests are sent once the socket is bound, and the file
of a MON_HELLO can be read (`AgentTimers` has the case where it cannot, and the
cases where ids are used twice or are unknown).

`AgentRegistry` is what a controller may expect: every request is answered, takes
effect then and only then, and the daemon goes down only over a request it
does not know, one about an agent it does not have, or together with an agent
that it loses (`Lose`), which happens only in between requests. The refinement takes the agent table for the registry, and a socket that
owes a reply, or a dead process, for "down".

### MC modules

`MCAgentTimers`, `MCFlowEntries`, `MCAutomaton`, `MCStateTable`, `MCTcamAlarm`, `MCNetconfServer` hold the values of
the constants and the symmetry sets. Operators commented "Seeded fault" in the modules are mutated forms of the definition they precede;
no specification uses them. Each property is known to fail when the matching one is put in.

## 4. The runs

| Run | Shows |
|---|---|
| `timers_any` | With every fault: no group with two owners, and every held id is that agent's running timer. |
| `timers_live` | No faults: every timer is held, every group is served by exactly one timer, each agent is polled again and again, and `PollService` is implemented, fairness included. |
| `timers_refused` (violation) | A refused move takes the group's timer ownership with it; the group is not polled any more. |
| `timers_delay` (violation) | MON_PARAM_CHANGE runs the new timer with an uninitialised delay. |
| `flows_ok` | Entries may be refused, with the code the daemon looks for: the current row's flow is installed and counted, and neither an entry nor a statistics object is left behind. |
| `flows_any` | Any operation may fail in any way: an agent never holds or touches another agent's entry (tables whose rows all have a flow, or that have one row). |
| `flows_refused` (violation) | A full TCAM's error code is taken for an entry; the agent runs without a flow. |
| `flows_mixed` (violation) | A move to a row without a flow keeps freed ids; MON_STOP then destroys another agent's entry. |
| `poll_events` | Across wrap-around, moves, failing reads, changed thresholds and flags, stray bits from malloc and notifications before and after moves: an exceeded threshold is reported at once, an event once in a poll, and one of the row polled only if the interval exceeded its threshold; intervals are exact; an agent without flags takes every move. |
| `table_parse` | Sound documents with no row, and with one and two rows of eight kinds, with and without a spare row: the parser ends, stays inside its memory, touches no finished row, and leaves the table of the document. Documents with too few rows, events or actions, no action, or more than nine: none of them is parsed without a stray write. |
| `server_requests` | The daemon from `main` on, with every outcome of its start-up and every kind of request, two clients with an agent each: the replies tell which agents there are, but for those discarded while polled; it dies only in discarding one, or over a request about one of those; it is an `AgentRegistry`, whose requests are answered; and a start-up that breaks off leaves nothing dangling. |
| `tcam_checks` | Whatever is configured, and with a status that may be unreadable: one muting timer, spaced alarms, at most one unreported check. |

Each violation is one of the `findings` of `PROJECT.json`, with the line of the
code and the comment it contradicts.

The passing runs also show, by what their properties have to except, further
weaknesses that have no run of their own:

* A failed read of the counters counts as zero (MU 876), and the differences to
  it are wrong in two intervals; `IntervalExact` and `EventsHaveSource` speak of
  intervals whose two ends were read.
* An unreadable group status counts as no free entries (MU 546) and raises the
  alarm, whatever the switch has free: no property says that an alarm means a shortage.
* A notification after a GOTO_NXT_STATE in the same row reports what the new
  row's bits were at its last visit, however long ago (MU 1126).
* A stray bit in a row's bitmap, other than the two of flow events, is never reset
  and makes every notification report both events (MU 1126). `EventsHaveSource` names
  these two cases, `NoEventTwice` the second; without the exceptions they fail.
* With NOTIFY_CNTLR in any row and no number of intervals, the flag that the
  parser sets (MA 528-531) makes the first branch (MA 1177) take every action, so that a
  GOTO_NXT_STATE in the table is never reached; `GotoTakenUnflagged` speaks of agents
  without flags.
* A VLAN that exists already leaves the port out of it (l3-interface-config.c
  93-98); `Anchored` asks for the port's membership only if the VLAN was not there before.
* A message of an unknown type is not answered and blocks all later ones (MA
  1551); the daemon may die of freeing a discarded agent twice (MA 1257-1258), and
  a controller's MON_STOP of an agent that was discarded kills it
  (MA 1458). `ImplementsRegistry` and `DiesOfDropped` name these cases; without
  their exceptions they fail.
* A source MAC address is not stored, and a mask replaces its address (MA 452, 464,
  470): `ParsedExactly` leaves these fields out of the flows concerned.
* Of a window of N intervals only the events of the last one are still there when
  the notification is due (MU 973); `FlowEventReported` speaks of one interval.
* After a GOTO_NXT_STATE that is refused with a code other than -1 the agent keeps
  its freed statistics id (MU 838); `flows_ok` allows the code -1 only.

**Bounds.** Three handles, three ids and two poll-times let two agents share a
group while a third changes sides, which every clause of the hand-over needs; a
fourth agent would only make groups larger, and the proofs cover any number.
`MaxTimerId` (5 to 7) bounds the timers ever created: two are enough for a
hand-over, 7 leaves room for three of them in a row. Two or three entry and
statistics ids make ids scarce enough to be reused at once; two flows tell the
old row from the new one; -1 and -14 are the code the caller looks for and one it
does not. `timers_any` and `flows_any` use symmetry over the objects, whose names
nothing depends on. `W = 3` with growth up to 2 makes counters wrap within two polls while
an interval's growth stays below the modulus, the condition under which the
difference is exact for 2^64. Tables have one or two rows, next states beyond the table
included. Alarm intervals of 1 to 3 ticks give periods that divide, miss and
exceed one another; `MaxTime` only stops the ghost clocks. Two clients with an agent each are enough for a request to
wait while another one, or a poll, changes what it finds; every kind of request
and every combination of VLANs there before is in the run.

`CHECK_DEADLOCK FALSE` is set where the system may stop: the daemon has died
(`up` is FALSE; `alive` is FALSE or `main` has returned), the socket is stuck, the agent is gone, or the bound on timers is reached.

Two rows are enough for the parser to carry something over from one row to the
next, which is all its counters and pointers could get wrong. Of the documents that
are not sound the run has one disagreement each, in the only, the first or the last of two
rows, or a row more than announced; nine and ten actions are either side of the
room in `action_string`.

The tables of `poll_events` move from a flow to no flow and back, beyond the table,
from flow to flow and to the same row, and notify before, after and between moves.
Rows may hold one stray bit of a flow event and one of the others.

**Fairness.** `FairSpec` of `AgentTimers` assumes weak fairness of each timer that
keeps running: `zloop_start` fires every timer that is due before it waits again,
and a timer created with 0 repetitions is due again and again. No fairness is
assumed of the controller. A timer that is ended and replaced by a new one
starts waiting again; a controller that does this for ever could starve a
group, and the bound `MaxTimerId` is what excludes it: the liveness results
are about a controller that stops creating timers eventually. `FairSpec` of
`NetconfServer` assumes weak fairness of serving each client: the poller calls the
handler whenever the socket can receive, and a REP socket takes requests from its
peers in turn, so that no client with a request waits for ever while the socket
is served. Nothing is assumed of clients, polls or the start-up. `FairSpec` of
`StateTable` lets the parser go on: it runs inside one handler, and nothing
interrupts it.

## 5. The proofs

`AgentTimersProofs` (checked by TLAPS, for every value of the constants that
satisfies `ConstantsAssumption`, that is any set of handles, ids and poll-times):

* `TypeCorrect`, `OneHolderTheorem`, `HeldTimersTheorem`: whatever faults occur.
* `TimersHeldTheorem`: if the switch refuses no flow.
* `GroupServedTheorem`, `OneTimerPollsTheorem`: if, in addition, ids are unique.
* `ImplementsServiceSafely`: without faults, every behaviour is one of
  `PollService`, its fairness left aside.

The invariant behind the first group says, beside types, that the ids of timers
are at most `zloop.last` and pairwise different, that an id held by an agent is
that of a running timer with the agent's `mon_id`, that no two agents hold the
same id, and that no two agents of a group hold one at all. None of these is
inductive alone: that ending a timer does not take away another agent's needs
that ids are not shared, and that starting one keeps the group single needs the test of
`Enter` on the timers as `Release` has left them. The second group adds that
each non-empty group has a holder: an heir exists for as long as the group has
another member, because that member holds nothing (one holder per group). With
unique ids, the holder's timer finds the holder and thus the group.

`FlowEntriesProofs`, whatever operations fail:

* `TypeCorrect`.
* `HeldIsOwnTheorem`, `OwnEntriesTheorem`: if in every stored table all rows have a
  flow, or there is only one row, an agent holds and touches its own entries only.

The invariant has two layers. The first holds for all tables: types, registered
agents have a stored table, and a statistics object attached to an entry exists
and is attached to no other entry. It is needed because destroying an entry frees
its statistics object too, and must not free one that another entry counts with.
The second needs the condition on tables: an id an agent holds names an entry it
owns, and an agent in a row without a flow holds the id 0. Without the last part a
move to a row without a flow would keep the id of an entry that has just been
destroyed, which is what `flows_mixed` shows for other tables.

The argument goes through the functions bottom up: one lemma for each operation of
the switch and one for each function of the code says that it keeps the first
layer and leaves alone every entry of other agents (`OthersKept`, which is
transitive); `StepType` and `StepOwn` put them together for each action.

`FlowEntriesExactProofs`, if the switch may only refuse to create an entry, with
-1 (`OnlyRefused`), and tables are as above: `FlowInstalledTheorem`,
`NoEntryLeakTheorem`, `NoStatLeakTheorem`. The invariant `Neat` says that each agent
holds exactly what its current row asks for (`Holds`), that every entry is free
or an agent's, and every statistics object is some agent's. The three properties
are its parts, and none is inductive alone: that a destroyed object was the last
one of its agent needs that there is no second one, and that a refused move
leaves nothing needs that the old entry was destroyed completely. The functions
are first shown to do one of at most two things exactly (`StartFlowExact`,
`DestroyExact`); that destroying one agent's statistics object does not take another's needs
the first layer above. Both conditions are needed: `flows_refused` and
`flows_mixed` show what happens otherwise.

`StartupProofs` and `NetconfServerProofs`, for any clients, agents, owners and
operations:

* `SpecTypeOK`, `SpecAnchored`, `SpecBeliefMatches`, `SpecDiesOfDropped`.
* `RegistrySafety`: every behaviour is one of `AgentRegistry`, its fairness left aside.

`Anchored` alone is not inductive: that a route may be added needs that the steps
before it have been completed. The invariant `StartupInv` therefore says for each
place in the set-up which objects have been laid by then (`Laid`), and that a VLAN
found there before its step was there from the start (`Fresh`). That the daemon dies only in
discarding an agent, or of requests about a discarded one, needs that a client's
pending MON_STOP or MON_PARAM_CHANGE is still about an
agent it believes in when it is served (`Keeps`), which holds because nobody else
manages that agent; and that an agent which has been discarded is one its client
believes in (`DroppedBelieved`). A death in a poll is the abstract `Lose` with `down`.

`TcamAlarmProofs`, for any intervals, limits and bounds that satisfy the assumption:
`SpecTypeOK`, `SpecMutedByOneTimer`, `SpecShortageReported`, `SpecAlarmsSpaced`. The invariant `AlarmInv` says that the flag is cleared exactly
while one muting timer runs (`Muted`), that as long as it runs the time passed
and the time left make up at least the spacing (`Apart`), and that with an unchanged
interval the muting timer is due no later than the next check (`InStep`), which is
why a shortage is passed over by one check at most.

`AutomatonProofs`, for any tables, thresholds, flags, number of polls, modulus and bits
that malloc leaves that satisfy `ConstantsAssumption`: `SpecTypeOK`, `SpecIntervalExact`,
`SpecFlowEventReported`, `SpecGotoTakenUnflagged`, `SpecEventsHaveSource`, `SpecNoEventTwice`.

A poll runs a list of actions of any length, so its effect is found by induction
over the list. `Induction` is stated for sets of natural numbers (a set that has 0
and the successor of each member below n has every number up to n; it follows
from the well-foundedness of the natural numbers), because the library's rule
takes an operator, and `PerformedRuns` obtains the contexts between the actions
as a function. On that rest four lemmas about runs: the agent's counters, interval
and flags are not touched (`RunKept`), a notification among the actions is sent
(`RunReports`), an agent without flags reaches its GOTO_NXT_STATE (`RunMoves`), and
what has been published are bits that were set when the run began and
have been reset since (`RunTraced`).

The property about intervals needs that the switch's register has run ahead of
the agent's counters by exactly what the flow has counted since, modulo `W`, as
long as the last read can be trusted (`Follows`). The two properties about events
rest on `Traced`: along a run no bit is set, an unused bit stays, every event
published was a bit when the run began and is none any more, and no two
notifications have a bit in common, unless an unused bit made it up.
That the bits of the row polled are those of the interval, whatever they
were before, is the step before the run, in which the code sets or resets both.

`StateTableProofs`, for any documents that satisfy `DocumentsAssumption`, with
any number of parameters, rows, events and actions:

* `SpecTypeOK`: for all documents, also those whose sizes disagree.
* `SpecParserInv`, `SpecParsedExactly`, `SpecNoWildWrite`, `SpecRowsBuiltOnce`: for a
  `Sound` document, thus with at most nine announced actions in a row. From the
  tenth counted element on the code does write past `action_string`.

`ParsedExactly` speaks of the end only. The invariant `ParserInv` says what it
means at every node: the parser's state is a function of the document and the
reader's place. `LoopAt` and `CountAt` are the loop and the counter of rows at that
place; `RowRead(r, j)` is what is in memory for the row r when its nodes before j
have been read, and `TableAt` and `RowAt` put these together: rows behind the
reader are complete, the row at the reader is partly read, the others are as
malloc returned them. `SourceInv` and `FlagsInv` say the same of the two things the rows have in
common. Nothing less is inductive: that a write stays inside the list of a row
needs how many elements of the list have been read, hence where in the row the
reader is.

The argument has three parts. `RowNodesAre` and `Names` tell which node stands at
which place, so that an action's guard determines the place. One lemma for each
kind of node (`ReadState`, `ReadEvent`, `ReadAction`, ...) says that what the code does
to the row leads from `RowRead(r, j)` to `RowRead(r, j + 1)`. One lemma for each
action (`StateStep`, `EventStep`, ...) combines the two; `Ended` is the passage from the
last node of a section to the next section. That a row is not touched any more follows from
`RowsCounted`: rows that have been counted are complete, before a step and after.

For other documents only the types remain, as a write that misses changes
nothing in the table. `TypeInv` adds to them what keeps a node and the loop that reads it
together: which node stands where (`Placed`), that no row is read before the
header is, and that `streamFile`'s loop reads only the first three nodes of a row.

**Only model-checked.** TLAPS proves neither liveness nor fairness: `EventuallyPolled`,
`EventuallyParsed` and the fair parts of `ImplementsService` and
`ImplementsRegistry`. `OnlySoundTables`, about documents whose sizes disagree, is not
proved either. The four violations are counterexamples found by TLC.

## 6. Not modelled

Message formats, the syntax of XML, logging; `stat-packets` and `stat-bytes` (MA
565-579 hand `strtoull` an uninitialised pointer); memory (leaks, the double free
beyond "the process may die"); set_priority, which changes nothing a property is
about; the contents of reports, and the link utilisation, port data and
heavy-hitter notifications, which publish values and change no state; the time a
poll takes; clients that give up waiting and ask again; what an absent XML
element does to a request handler.

Whole components: `lists.c` and `vector.c`, which the daemon does not call any more,
so that nothing says how they are meant to be used; buffer statistics (`BST`) and
the variants for other switches (`PRESEL`, `QUALIFY_ALL`, `AS7712`), which are compiled
out; `util.c` and `zhelpers.h`, copied from Open vSwitch and the ZeroMQ guide.

Most lines of the repository, about 24,300 of 29,500, are the vendored headers of
OpenNSL: declarations, of which the daemon uses some thirty calls. They are
modelled from that use. The rest, tools included, is about 5,200 lines, and of
those the models stand for the ones that are compiled in and change state.
