# Verification of meshcore_sim

meshcore_sim runs unmodified MeshCore firmware logic in one process per node and
lets a Python orchestrator play the radio channel between them. This directory
holds TLA+ models of it, the TLC runs that check them and the TLAPS proofs about
them. Source paths below are relative to the repository's `src/`.

1. [Inventory](#inventory)
2. [Modules and how they correspond to the code](#modules)
3. [Runs](#runs)
4. [Fairness](#fairness)
5. [Proofs](#proofs)
6. [Disagreements between documents and code](#disagreements)
7. [What is not modelled](#not-modelled)
8. [Plan](#plan)

## Inventory

One run of the simulator is one asyncio event loop in the orchestrator, one
operating-system process per node, and a pair of pipes with JSON lines between
the loop and each process.

```
 traffic.py ──send_text/advert──▶ node.py ══stdin══▶ node_agent/main.cpp
                                     ▲                   │ SimNode, SimRadio
 __main__.py timers                  ║                   │ (+ MeshCore, or a
      │                              ╚══════stdout═══════╯  privatemesh variant)
      ▼                                    │ "tx"
 router.py  _on_tx ─▶ channel.py register  │
      │          └──▶ rx_start to neighbours (listen-before-talk)
      └─ _deliver_to ─▶ gates ─▶ sleep ─▶ verdict ─▶ "rx" to the neighbour
                │            │               │
         adversarial.py   tracer.py      metrics.py
```

| component | state | operations | called by / calls |
|---|---|---|---|
| Channel model `orchestrator/channel.py` | `_active`, the register of transmissions still of interest | `register_tx`, `is_lost`, `is_receiver_busy`, `expire_before` | router |
| Packet router `orchestrator/router.py` | pending delivery tasks, next tx id | `_on_tx`, `_deliver_to`, `run_replay_drainer` | node readers call `_on_tx`; it calls channel, tracer, metrics, filters and writes `rx_start`, `rx` to nodes |
| Adversarial filter `orchestrator/adversarial.py` | `_replay_buffer` per node | `filter_packet`, `drain_replays` | router |
| Path tracer `orchestrator/tracer.py` | traces by fingerprint, tx events | `record_tx`, `record_rx`, `record_collision`, `record_halfduplex`, report | router |
| Metrics `orchestrator/metrics.py` | counters, message send/receive times, ACKs | `record_*`, `on_event`, report | router, traffic, node events |
| Airtime `orchestrator/airtime.py` | none | airtime, stagger window, flood timeout | router, traffic |
| Packet decoder `orchestrator/packet.py` | none | header and path decoding, fingerprint | tracer |
| Topology `orchestrator/topology.py` | links with SNR, RSSI, latency, loss | `neighbours`, directional overrides | router |
| Configuration `orchestrator/config.py` | none | load, validate and save topology JSON | main, workbench |
| Node link `orchestrator/node.py` | process, its two pipes, reader task, ready event, `_stopping` | `start`, `wait_ready`, `send_command`, `_reader_loop`, `quit` | driver, router, traffic |
| Driver `orchestrator/__main__.py`, `cli.py` | phase of the run, background tasks | start in batches, wait for ready, floods of adverts, timer, cancel, quit, report | everything |
| Traffic `orchestrator/traffic.py` | known destinations | staggered adverts, Poisson messages | node link, metrics |
| Node agent `node_agent/main.cpp`, `SimNode.*` | contacts, pending message and its expected ACK, room-server posts | JSON commands, `onMessageRecv`, `processAck`, `onSendTimeout`, `sendTextTo` | MeshCore (external) |
| Simulated radio and clock `node_agent/SimRadio.*`, `SimClock.h`, `SimRNG.h` | rx queue, carrier-sense window, transmission end | `notifyRxStart`, `isReceiving`, `startSendRaw`, `isSendComplete` | MeshCore's dispatcher |
| Nexthop agent `privatemesh/nexthop/SimNode.*` | `rt_table`, `rt_advert_seen`, `rt_admits_this_cycle`, and what the node agent has | adverts fill, ageing empties, sending uses the table; path exchange | MeshCore |
| Adaptive-delay agent `privatemesh/adaptive_delay/SimNode.cpp` | number of neighbours heard | delay factors by neighbour count | MeshCore |
| Workbench, editor `workbench/topology_editor.py`, `map_helpers.py`, `sim_panel.py` | the topology, the map's markers and layers, the unsaved mark, the file, a running simulation | add, edit, move, delete, save, run | browser events; configuration, driver |
| Workbench, viewer `workbench/trace_viewer.py`, `trace_loader.py` | the trace, its events and statistics, time, playback, filter, selections, and the parts of the page built from them | load, select, play, filter | browser events and a timer; trace files |
| Topology tools `tools/import_topology.py`, `tools/fetch_topology.py` | none between runs | a map or a snapshot of a live network becomes a topology file | the user |
| Experiments, demo | none | batches of runs, a demonstration | the driver |

What is hard about it:

* **Interleaving at awaits.** Code between two awaits is atomic, but a packet's
  life crosses four: the gather of the notices, the start of a delivery task,
  its sleep until the packet has arrived, and the write to the pipe. Other
  transmissions are registered, and old ones pruned, in between.
* **Lateness.** asyncio wakes a task at or after the time asked for, never
  before. A verdict can be later than the packet's arrival, so it sees packets
  sent after it, and does not see packets pruned before it.
* **Early returns.** A delivery can end in seven ways, each with its own counter
  and trace record.
* **Adversaries.** A packet can be captured and sent again later by a path of
  its own through the router, or change its identity on the way.
* **A table smaller than the network.** The nexthop agent has few slots, ages
  them by counting adverts, and evicts by a priority scan over slots whose order
  ageing permutes.
* **Retries against late answers** in the node agent.
* **Back pressure** through the pipes between processes: a node that writes is
  read by a coroutine that writes to other nodes, and awaits them.
* **Shutdown** while notices, deliveries and adverts are still being written.
* **Copies that must agree** in the workbench: the topology and its map, a trace
  and the four parts of the page that show it, rebuilt at different times, with
  a save that asks the browser for one position after the other while the user
  goes on editing.
* **Real data** in the tools: measurements that contradict each other, devices at
  one place, pairs seen twice.

`PROJECT.json` lists the hazards one by one with their lines and the properties
that cover them. What makes each component correct:

* *Channel, router, tracer*: a verdict depends on the transmissions there were
  and not on when the event loop came to ask; two really colliding packets are
  not both decoded; a node is told of a preamble before it is handed the packet;
  every delivery settles exactly once and is counted exactly once; every
  captured packet comes out again.
* *Nexthop table*: one route per destination, never more than there are slots;
  a route nobody renews goes, on time; a route that is renewed stays unless a
  better use of the slot needs it; a route does not silently get longer or lose
  the uses it counted.
* *Node agent*: a message ends in one way at most: confirmed, failed, dropped by
  a retry that could not be sent, or superseded by a later one; a confirmation is
  for a message that arrived; no ACK is missed that comes while its attempt is
  still awaited.
* *Node link and driver*: a run ends, and no process outlives it; a dead node
  does not stop the others; nothing is written after quit; nothing a node sends
  is lost for want of a router.
* *Metrics and traffic*: a delivery is credited to the message that was sent.
* *Workbench*: the map shows the topology, what is saved can be loaded, what is
  not saved is marked; the viewer shows one trace and one time (but for one
  panel, see [Disagreements](#disagreements)), playback passes no event over, and
  no hop is counted twice.
* *Tools*: no measurement loses to a worse one, estimates stay below the caps, a
  companion hears what its repeater hears, every link has a witness whose ends lie
  where its two nodes stand.
* *Radio, decoder, airtime, configuration*: see [Not modelled](#not-modelled).

## Modules

| module | models | kind |
|---|---|---|
| `Channel` | `orchestrator/channel.py` | operators |
| `Medium` | the ideal radio: what channel and router promise together | abstract specification |
| `Router` | `router.py`, `adversarial.py`, the records of `tracer.py`, the packet counters of `metrics.py` | state machine, composes `Channel` |
| `MCRouter` | networks of three nodes | model |
| `RouterProofs` | theorems about `Router` | proofs |
| `RouteTable` | `rt_table` of `privatemesh/nexthop/SimNode.cpp` as a set | abstract specification |
| `RouteArray` | the same table slot by slot | state machine, refines `RouteTable` |
| `MCRouteArray` | four destinations, three slots | model |
| `RouteProofs` | theorems about `RouteTable` and `RouteArray` | proofs |
| `Courier` | a direct message: `traffic.py`, sending, ACKs, retries and rooms of `node_agent/SimNode.cpp`, `on_event` of `metrics.py` | state machine |
| `MCCourier` | three endpoints and a room server | model |
| `CourierProofs`, `ReportProofs` | theorems about `Courier` | proofs |
| `NodeLink` | `node.py`, `run()` of `orchestrator/__main__.py`, the adverts of `traffic.py`, the loop of `node_agent/main.cpp` | state machine |
| `MCNodeLink` | two nodes that hear each other | model |
| `NodeLinkProofs` | theorems about `NodeLink` | proofs |
| `Workbench` | `topology_editor.py`, `map_helpers.py`, `sim_panel.py`, `results.py` of the workbench | state machine |
| `MCWorkbench` | two nodes, a third name | model |
| `WorkbenchProofs` | theorems about `Workbench` | proofs |
| `TraceData` | `compute_relay_delays` and the form of a trace in `tracer.py`, `trace_loader.py` | operators |
| `TraceViewer` | `trace_viewer.py` | state machine, composes `TraceData` |
| `MCTraceViewer` | four small traces | model |
| `ViewerProofs` | theorems about `TraceViewer` | proofs |
| `ImportTopology` | `tools/import_topology.py` | state machine |
| `FetchTopology` | `build_topology` of `tools/fetch_topology.py` | state machine |
| `MCTools` | both tools; a map of four repeaters, snapshots of three devices | model |
| `ToolProofs` | theorems about the tools of `MCTools` | proofs |

`PROJECT.json` maps every definition to the lines it models.

### Channel

The channel register is two values: `txs`, every transmission there was, and
`ids`, those the register still holds. This makes the question the module is for
expressible: does a verdict from `ids` agree with one from all of `txs`?
`Hits(x, y, r)` is one pass of the loop of `is_lost` that reaches its `return`:
the windows of the packets overlap *at the receiver* (each shifted by its link's
latency), and none of capture, preamble grace and FEC saves packet `x`.
`Deafens` is the loop of `is_receiver_busy`. `Verdict` puts the two in the order
`_deliver_to` does and names the first blocker or interferer, since the register
is a dict in the order of the ids and the code stops at the first.

Time is in ticks, natural numbers. LoRa's preamble is 4.25 symbols longer than
its programmed length, hence the unit `QuarterSym`. With `QuarterSym = 1` and the
default preamble of 8 symbols the preamble is 49 ticks and the grace period 12;
with coding rate 4/8 the FEC tolerance is 8. The runs use all three.

### Router

An action is a coroutine's run from one await to the next.

| action | code |
|---|---|
| `OnTx` | `_on_tx` to the `gather` of the notices: counts, records, registers and prunes; without listeners it creates the delivery tasks at once |
| `Notify` | one `notify_rx_start` of the gather completes |
| `Spawn` | the gather returns, one task per neighbour |
| `Suppress` | a task starts and a gate ends it: SNR, link loss, a dropping or replaying receiver |
| `Sleep` | a task starts, passes the gates (perhaps with its bytes corrupted) and sleeps |
| `Arrive` | it wakes, or had nothing to wait for: half-duplex, collision, delivery |
| `Drain` | a poll of the replay drainer that finds something ready |
| `Advance` | the clock moves |

`tx` is the tracer's list of transmissions, `active` the ids in the channel
register, `tasks` the delivery coroutines, `lbt[s]` the transmission whose
`_on_tx` is in the gather (a node's reader loop handles one line at a time, so
there is at most one), `buffer` the packets still in replay buffers, `first` each
trace's first sender, `trace` the hop, collision and half-duplex records.
`heard` is history: which node was told of which preamble.

Randomness (`random.random() < loss`, the bit flips, the adversary's probability)
is a choice: `Stops` and `Passes` are the sets of outcomes. A corrupted packet is
any of `Garbled`, which can decode to another fingerprint or to none. Loss on a
link of probability zero is not chosen.

The event loop's lateness is bounded by `MaxLate`, in the guard of `Advance`: the
clock does not pass the arrival of a packet by more than that while its task is
pending. With no bound the register's retention of five seconds could always be
outlasted, which says nothing.

### Medium

The abstract specification keeps every transmission for ever, has no tasks,
gates, adversaries or register, and judges a packet at a neighbour at most once,
not before its last symbol has arrived, from the complete log.
`Router!ImplementsMedium` is the refinement: `log` is `tx`, and `decided` is what
the tracer recorded for transmissions (not for replays, which do not go through
the channel at all).

### RouteTable and RouteArray

`RouteTable` is `rt_table` as a set of routes with the two counters. Where the
code's choice depends on the order of the slots the set allows any: `Victims` is
the set of routes the eviction priorities permit. `RouteArray` has the slots and
the loops: `AgePass` and `AgeSlots`, one pass of the ageing loop with its swap of
the last slot into the one that expired and as many as there are slots,
`Worst` for the eviction scan, `rt_find` that stops at the first match. It
extends `RouteTable` and carries `table` along as the set of the routes in the
slots, so `ImplementsRouteTable` is `RouteTable`'s specification itself and every
property of the set is one of the slots.

`at`, the number of the advert that last wrote a route, is history for stating
properties. The pinned bit of the age field is left out: nothing in the sources
sets it. A destination is what the code compares, the first four bytes of a
public key; two keys that share them are one destination. A route to a direct
neighbour has no relay path, so `path_bytes` is 0 and the route is among the
first to go when the table is full.

### Courier

A message goes from `_send_random` through the pipe of its node (`inbox`) to
`sendTextTo`, through the mesh (`texts`, `acks`) to `onMessageRecv`, and through
the pipe of the receiver (`outbox`) to the metrics. Two things watch it and know
nothing of each other: the sender's one `_pending_msg`, which is after the ACK,
and the record in `metrics._pending`, which is after the text. `Command`,
`AckArrives` and `Timeout` (`GiveUp` or `Retry`) are the three functions of the
node that touch the first, `SendRandom` and `Report` those of the second; a room
server's `Receive` also replaces the first, once per forward.

MeshCore is external: a packet may never arrive, arrives at most once (it drops
duplicates), and each arrival is answered by an ACK with the token that
`sendMessage` returned for that very packet, so a retry has a token of its own.
`sendMessage` fails whenever it likes, and the timer fires whenever it likes. A
text is its sender, the clock value in it and the node that forwarded it.
`sent`, `received` and `ended` are history: what became of a message after the
node stopped tracking it. A retry awaits a token of its own and nobody any more
that of the attempt before, so an ACK that comes late is passed over, and a
message that arrived can end as failed. `ConfirmedWasReceived` says that it takes
such an ACK: as long as a packet is awaited, its own ACK is not lost on its node. `superseded` is the fate of a message whose place was
taken by a later one: the node says nothing about it, and it is never retried.

The pipes are bounded and a node blocks when its stdout is full; what this does
to the event loop is `NodeLink`. Channel messages are not modelled.

### NodeLink

A node is a process of one thread: `Boot` writes the ready line, `Dispatch` takes
a command, `Transmit` lets the radio send, `Exit` obeys quit, `Crash` is an
allocation that fails. What it writes goes to `stdout`, which holds `StdoutCap`
lines; beyond that the process is blocked with a line in `owed` until `Unblock`.

The orchestrator has one reader per node. `Read` takes a line; a tx line makes it
await the `gather` of one notice per neighbour (`Tell`, and `Told` if it had to
wait in `drain()`), and `Gathered` creates the delivery tasks, which `Deliver`
ends one by one. `ReaderEnds` is the loop's end, with the process's output or
with an exception of the callback. asyncio's flow control is `paused`: set when
more than `HighWater` lines are unread, cleared at `LowWater`. `send_command` is
`Write`; whoever finds the pipe paused waits.

The driver goes through `phase`. `Start` is one node's `start`, and the abort
after `ReadyTimeout` and the shutdown after `TimerFires` share `Quit`,
`QuitDrained`, `Exited` and `Kill`. `Return` stands for the end of the event
loop, which cancels what is left. Which packets a node relays, loses or shows is
open; times are left out, so that every order of timers is possible.

### Workbench

A handler of a page is atomic up to its awaits, and only two have any. A save
asks the browser for the position of one marker after the other: `SaveClick`
starts it, `SaveAnswer` is one answer, of the marker as it was when it was asked,
or the time-out. What the loop walks over is `state.markers`, a dict others
change meanwhile, so `markers` is the dict as it is in memory: entries in the
order of insertion, with a hole for each one deleted. The loop fails when the size of the
dict has changed, and also when the size is the same and it meets more keys than
there were (`counted`). (That a dict closes its holes when it grows is left out:
the loop could then miss an entry.) A simulation is `RunClick` until
`RunSucceeds` or `RunFails`, over the temporary file it wrote. `loose` are the
markers that can be dragged: those added in the session, not the ones the page
was opened with. Dialogs are modal and are one step, the one that commits.

### TraceData and TraceViewer

`TraceData` has the trace and the pure functions: events, broadcast steps,
statistics of nodes, edges and types, relay delays. The loops of
`trace_loader.py` go over packets and records and add one to a counter now and then;
a count is here the set of the records at which one was added, so that "nothing
is counted twice" can be said, and proved, of two counters as a partition. Where a
loop is to add one per packet only, `Counted` is the set of the hops at which
`senders_seen` and `receivers_seen` let it, and that no two of them are of one
packet is part of `StatsAgree`. A broadcast step goes by its first hop.

The page of the viewer has parts that are rebuilt at different occasions. Each
variable that holds what a part was built from holds the *source*: `trace`,
`timeline`, `stats`, `view`, `picked`. `Main` and `Sidebar` are the two
refreshable functions, `Show` what loading a trace does with both; `Main` returns
early for a trace without events, and leaves `stats`, `view`, `now` and the
selection of the one before, which the sidebar then makes a panel of. The panel of an edge
follows the same handlers as that of a node and has no state of its own here. `drawn` is the overlay as it was last drawn, from the fields of that
moment; `Draw` is `_update_map_overlay`. `MoveTo` is the handler of the slider,
which runs whenever its value changes, by the user (`Slide`), the timer (`Tick`)
or a selection. Time is in quarters of a second: at 10x, the fastest, a tick of
0.05 s moves the time by 0.5 s, two units, which is what the window reaches to
either side; at 5x by one. A slower tick only draws more often.

### ImportTopology and FetchTopology

The two tools are sequential; what makes them worth checking is the input, so
an action reads one entry, or merges, estimates or places one. A name is a
sequence: the text and the number that makes it different. Positions are points
of a line; the estimate of a link is a curve plus a normal draw, so any level is
possible, and the ranges are as in the code. A level stands for SNR and loss,
which is a function of it. `MCTools` runs one tool or the other.

In `FetchTopology` the line is finer than the rounding of `_coord_key`, which goes
to five decimals, about 1 m, and half to even: `CoordKey` rounds to cells of `Cell`
units in the same way. `exact` is keyed by it, the search goes by the positions
themselves. In the plane a cell is a rectangle, and its width is to be read as its
diagonal.

## Runs

| run | question | size |
|---|---|---|
| `router_line` | line a–b–c, where a and c do not hear each other; three transmissions: does the router implement the ideal medium? does the trace agree with the air? preamble before packet? | 495 k states |
| `router_adversaries` | triangle with a dropping, a corrupting and a replaying node, two lossy links, one link too weak to decode: types, conservation of the counters, every delivery settled once, never two colliding packets decoded | 969 k states |
| `router_live` | two replaying neighbours: every delivery ends, every captured packet comes out | liveness |
| `routes` | four destinations for three slots, eight adverts, four age cycles | slots implement the set; expiry, freshness, length and uses, admission |
| `courier` | two messages, a retry each, a room server with three contacts: confirmations, ACKs not missed, outcomes, attempts, ACK counters, credit, settling | 238 k states |
| `link` | two processes behind pipes, two floods, one crash or relayed packet, a callback that may raise: does the run end, is every process stopped, is anything written after quit or transmitted before the router is there? | 694 k states, liveness |
| `bench` | a topology of two nodes, three edits, a save and a simulation at the same time: map, file and unsaved mark | 1.0 M states |
| `viewer` | four traces, loaded, selected, filtered and played in any order: do the parts of the page agree, does playback show every event? | 13 k states, liveness |
| `tools` | maps of four repeaters with two measurements, snapshots of three devices with two edges | 2.3 M states |
| `router_slow`, `routes_stalest`, `courier_unique` | statements of the documents the code does not keep | a counterexample each |

Bounds of the router runs. Three transmissions are the least with which one can
be judged, another interfere with it and a third prune the register in between.
`AirClock` has instants at which packets overlap in the preamble, in the payload,
by less than the FEC tolerance, not at all, and at which a transmission prunes
the first one; `Clock` restricts when nodes transmit, while the wake-up times of
tasks are always instants too. `Retention` is 63 ticks for an airtime of 60, a
latency of at most 2 and a lateness of 1: exactly what `RetentionSuffices`
demands, so an off-by-one in the pruning would show. Latencies of 1 and 2 make
the windows of two packets at one receiver differ from those at their senders.
SNRs at b are within the capture threshold of each other (3 dB apart), at a more
than it apart (6 dB, exactly the threshold). One replay of a captured packet, or
two in the liveness run where the second captures a copy of the first, is what
distinguishes a replay chain from a single replay.

Bounds of the routes run. `AgeEvery` is 2, `MaxAge` 2, so a route lives six
adverts at most, and eight adverts fill the table, expire it partly and refill
it. `PathCap` is 3 with relay hashes of 2 bytes: one relay fits, two do not, so
there are routes with no path because the neighbour is direct and ones because
the path is too long. `UseCap` of 2 saturates, and stays there as the run
demands. `AdmitPerCycle = AgeEvery`, as in
the code (`RT_ADMIT_PER_CYCLE` and `RT_AGE_EVERY` are both 16). Destinations are
interchangeable in the specification and in every property, so permuting them is
a sound symmetry; there is no liveness property in that run.

Bounds of the courier run. Two messages are the least with which one can
supersede the other, or an ACK for one come while the other is pending. With
`MaxRetries` of 1 a message can be confirmed before the timeout, by the ACK of
its first packet after the retry (which must not count), by that of the second,
or fail. `MaxPackets` of 3 lets a room server forward one post to two contacts,
so that a forward supersedes another, or a message be retried while another is
sent. `MaxUnread` of 1 makes nodes block, and the lines of different nodes are
still read in any order. `Gap` of 1 and `Wrap` above `MaxNow` make texts unique,
which `CreditedToDest` and `NoneForgotten` presuppose; `courier_unique` lets the
clock wrap.

Bounds of the link run. `Initial` is 1 flood instead of the two of `run()`, and
`Floods` is 2: one before the timer and one periodic. `HighWater` is 1 and
`StdoutCap` 1, in lines: a pipe of 64 KiB fills after some hundreds, and what
matters is that it fills. With `HighWater` 0 a quit always waits in `drain()` and
nothing is ever killed. `MaxExtra` is one crash or one relayed packet. One node's
callback may raise, at any line. With these the jam behind a reader that failed is
reached; a jam in a circle, where two nodes are blocked and the reader of each
waits for the other, needs three floods and two relayed packets, and was met with
`HighWater` 0, `Floods` 3 and `MaxExtra` 2 in a run too long to keep.

Bounds of the bench run. Three edits are enough to delete what a save has asked
for, to add it again under the same name, and to join it; with a third name the
dict can have the same size and other keys. `Pos` has the origin, which the code
takes for "no position", and one place. One save and one simulation are under way
at a time; the handlers of two saves share nothing but the fields.

Bounds of the viewer run. The traces are one with relays, a collision and a
half-duplex loss, one of before transmissions were numbered with one type of
packets, one without events, and one a simulation makes. `MaxAct` bounds what the
user does; ticks are not bounded, playback wraps.

Bounds of the tools run. Caps are scaled to two links and one good one, on a line
of four repeaters of which two stand at one place; the measurements contradict
each other by source and by direction. Two companions, one neighbour each, of
which one has the name of a repeater in some maps. Three devices at four places:
-1 and 1 are the borders of one cell of width 2, both of which the rounding half to
even takes in, 2 is in the cell beside and nearer to 1 than -1 is, and 7 is far
off, beyond the tolerance of 4 from each and within the greatest distance of 5
of one. So devices overwrite each other in one cell, the device found by the key
is not the nearest, by exactly a cell, the search finds one where there is no key,
and edges end on, near or far from devices.

All cfgs say `CHECK_DEADLOCK FALSE`: with the number of transmissions, adverts,
clicks, edits or edges used up, or the run over, the system has nothing left to
do. That none of them stops in the middle is what the liveness properties say.

## Fairness

`Router!FairSpec` is weak fairness of the notices, of the gather's return, of
the delivery tasks taken together, of the drainer and of the clock. asyncio's
ready queue is first in first out and a sleep's timer is in the past sooner or
later, which justifies each: a ready coroutine runs. The writes to a pipe a
coroutine awaits are assumed to return; that a node which stops reading can block
them is the subject of `NodeLink`. Nodes are under no
fairness: a node need not transmit. `MaxCapture` bounds the captures, and a
packet that would exceed it takes the other branch of `Suppress` or passes; in
the liveness run the links into a replaying node can also lose or pass it, so no
task is stuck because of the bound.

`Courier!FairSpec` is weak fairness of each node's `Command` and `Timeout` (the
loop in `main.cpp` reads its input and MeshCore checks its timer in each round)
and of its reader loop. Nothing is asked of the mesh: packets and ACKs may all
be lost. That the timer runs again after a retry is assumed of MeshCore, which
sets it in `sendMessage`: the count up to `ACK_MAX_RETRIES` relies on it.

`NodeLink!FairSpec` is weak fairness of the processes' steps taken together, of
the readers and deliveries taken together, of the quits taken together and of the
driver: a processor and an event loop that have something to run do run, and
timers fire. Fairness of each process alone would be stronger and is not needed.
Nothing makes a process crash or a callback raise, and nothing makes a blocked
process go on: `RunEnds` says that a run ends or a jam is there.

`TraceViewer!FairSpec` is weak fairness of the browser's first drawing of the map
and of the timer's tick. The user is under no fairness.

## Proofs

The proofs hold for every value of the constants that satisfies the modules'
assumptions: any network, any latencies and airtimes, any table size.

**`RouterProofs`**

* `TypeCorrect`: `Spec => []TypeOK`.
* `VerdictsAgree`: `RetentionSuffices => (Spec => []TraceAgreesWithAir)`. The
  hypothesis is that airtime, latency and lateness add up to no more than the
  retention of the register; `router_slow` shows what happens without it.

The trace's agreement is not inductive. The invariant `IInv` adds: no
transmission starts in the future and each lasts its packet's airtime; a task
never wakes before its packet has arrived; no pending task is later than `MaxLate`;
a record is not made before the packet arrived; and the register holds every
transmission that ended within the retention. From these: a blocker or
interferer of a pending delivery overlaps it, so it ended no earlier than the
delivery's packet started, which is no longer ago than the retention, so it has
not been pruned; and a transmission that starts after a verdict starts after the
judged packet has arrived, so it does not overlap it. The two halves are lemmas
about `Verdict` (it depends only on the overlapping ids); the rest is one case
per action.

* `SettlesOnce`: `SettledOnce`. The invariant adds that a transmission has no
  delivery task while its gather is pending, and one per receiver after, so the
  record of one cannot be met by that of another.
* `NoticePrecedes`: `NotifiedBeforeDelivered`. The invariant says of every task
  that its receiver, if it can decode the packet, has been told of it, and of a
  task past the gates that it can; the gather is what makes it true when the
  tasks begin.
* `OneSurvivesACollision`: `AtMostOneDecoded`, if `RetentionSuffices` and
  `CapDb > 0` (6 dB by default). With a threshold of zero two packets of equal
  level would each capture the other; above it only one of two can, so if both
  were received, the grace period or the FEC let one through, which bounds their
  overlap. That neither is in the other's way comes from `TraceAgreesWithAir`,
  whichever was judged first.
* `RouterImplementsMedium`: `RetentionSuffices => (Spec => ImplementsMedium)`, one
  lemma per action. What enters a step of `Medium` is that the verdict taken from
  the register is that of the complete log (`IInv`), and that a task's
  transmission has none yet at its receiver (`SettleInv`).
* `HalfDuplexHolds`: `RetentionSuffices => (Spec => []HalfDuplexEnforced)`, the
  statement `router_slow` refutes for a radio that is slower: a verdict "hop" of
  the complete log has no blocker, and `IInv` says the trace's are those.
* `VerdictsAreFinal`: `Medium` never revises a verdict (`VerdictsFinal`, checked in
  no run). The invariant keeps of each verdict that it was given after the last
  symbol, so that a later transmission starts too late to overlap.
  `RouterVerdictsFinal` is the same of the router, by the refinement.
* `EachCountedOnce`: `Accounted`, `Node` being finite. The tasks in flight and the
  copies that were started and have not ended are in bijection, so a step that
  begins a gather's deliveries, ends one or trades one for a capture changes both
  sides of the equation alike.

**`RouteProofs`**

* `TypeCorrect`; `OneRoutePerDest`: one route per destination, no more routes
  than slots.
* `Expiry`: `StaleRoutesExpire`. The invariant ties a route's age field to the
  adverts counted since it was written: the age is the number of multiples of
  `AgeEvery` passed since.
* `LimitHarmless`: `LimitNeverBites`. The invariant bounds admissions in a cycle
  by the adverts counted in it.
* `RoutesKeepWorth`, `FreshStay`: the action properties `RoutesWorsenOnlyByExpiry`
  and `FreshRoutesStay`, from the same invariant.
* `EvictionOrder`: a destination leaves the table, if not by expiring in that step,
  before all that stay in the order `SimNode.cpp:158` gives: useless before useful,
  unused before used, the stalest of its kind. `EvictsByPriority` has of the last
  priority what the code keeps: ages are compared between equal use counts. A
  member of `Victims` comes first in that order, aging leaves the order as it is,
  and no other step takes a destination out.
* `SlotsImplementTable`: `ArraySpec => ImplementsRouteTable`. What the ageing loop
  leaves is shown pass by pass, by the least pass at which it would not hold: the
  slots before the index have been aged and kept, those behind it are untouched
  and none is lost in the swap. The eviction scan returns the slot that is worse
  than every one before it. No slot names a destination twice (`OneSlot`), so
  changing one slot is changing one route.
* `SlotsInherit`: what is proved of the set therefore holds of the slots, the order
  of eviction included, which the code's scan does not establish at sight.

**`CourierProofs`**

* `CourierTypeOK`: `Spec => []TypeOK`.
* `CourierConfirmed`: `ConfirmedWasReceived`. A confirmed message did arrive, and
  the ACK a node awaits is under way if its packet has arrived. The second half is
  `AckKept`: what a node awaits after a step it has awaited before, or is a new
  token (`AwaitedIs`); a packet that arrives puts its ACK under way, and the only
  step that takes that ACK off ends the waiting for it.
* `CourierOneOutcome`: a message ends once at most, and is not tracked any more
  when it has.

Both need to know that a token names one message for good. The invariant
`CourierInv` adds: every token in use is below the serial of its node; packets
with the same token are of the same message; an ACK in flight answers a packet
that arrived; and what a node tracks is a packet it sent. `NewPackets`,
`Untracked` and `Superseded` say once what sending under new tokens, dropping
the tracked message and replacing it do to the invariant; the actions cite them.
Nothing is assumed of the contacts, the number of rooms or the bounds.

**`ReportProofs`**

* `AttemptsBounded`: `Attempts`. The invariant counts the packets of the message a
  node tracks: one more than its attempt counter. It needs `CourierInv`, since only
  new tokens keep the packets of one message from being counted with another's.
* `CountersRight`: `CountersAgree`, `Node` being finite. A step writes at most one
  line that counts and makes at most one outcome of that kind; reading a line
  moves it from the pipe to the counter. `LoggedMore` and `OutcomesMore` say so
  for each kind of line, and the actions are reduced to them.
* `Credited`: `TextsApart => (Spec => []CreditedToDest)`.
* `Remembered`: `TextsApart => (Spec => []NoneForgotten)`.
* `UniqueTexts`: `TextsApart => (Spec => []TextsUnique)`, the statement
  `courier_unique` refutes when the clock value wraps: there are as many records
  as messages. It needs the invariant of the others to know that a new text
  replaces no record, and that a record completed was waiting.

`TextsApart` says that the clock value in a text does not wrap within the run and
that no two messages are sent at the same time; `courier_unique` shows what becomes
of the records when it does wrap. The invariant follows a text from the traffic generator
to the report: wherever it is, unless a room server has passed it on, the metrics
have a record of it with the destination it is bound for. Records are dated, so a
new text differs from all of them; and a record that waits for a text that has
arrived has the line ahead of it in the pipe.

**`NodeLinkProofs`**

* `NodeLinkTypeOK`: types, with the output of a node within its capacity.
* `QuitIsLast`: `NothingAfterQuit`. There is no quit in a pipe before `_stopping`
  is set, and it is not set before `quit()` begins; after that, what the deliveries
  and adverts still under way would write is dropped.
* `NoneLeft`: `NoOrphans`. A `quit()` that has returned leaves a dead process, and
  none is called before every process has been started.
* `RoutedOnly`: `NoTxUnrouted`. Before there is a router, pipes into processes
  hold only the time and quit, and nothing is queued, owed, being delivered or
  gathered.

**`WorkbenchProofs`**

* `SessionSound`: `SavedIsSound`. The invariant adds that edges are pairs of
  names and that running simulations have an input. `SameNames` and `SoundStep`
  reduce most handlers to what they do to the names of nodes and edges.
* `UnsavedMarked`: `UnsavedIsDirty`, inductive as it stands.
* `MapFollows`: `MapShowsTopology`, with the markers a sequence of names and holes.
  At the start the markers list as many nodes as there are, and so none twice.

**`ViewerProofs`**

* `OneTraceShown`: `ViewMatches`: one trace on the page, and a panel of another
  only for a node that was selected when a trace without events came. The
  invariant `ViewInv` adds what makes it inductive: view and statistics are always
  of one trace, shown or not, a panel that quotes statistics quotes those kept, a
  node panel without a map beside it is of the node selected and no packet is
  (`PanelLeft`), the timer runs only while a view is shown and playing, and times
  are numbers. Every handler
  that does not load a trace is one of four kinds (`StepsAre`): it chooses a
  packet, moves the time, redraws, or leaves the map alone.
* `SelectingPauses`: the action property `SelectPauses`.
* `MapIsOfNow`: `MapShowsNow`. `DrawnInv` says that what is drawn is of the time
  and the filter there are; that the colours then tell the hops of the packets is
  a fact about the time line (`HopsShown`).
* `NothingCountedTwice`: `StatsAgree`, for every trace there can be. A total
  function on a set splits it by its values: records by type, edge or receiver,
  packets by originator. Broadcast steps are split by the least hop each goes by.
  What is counted per packet is so at the first hop that names the node, of which
  each packet has one or none (`CountsAre`, `SendersAre`).
* `PlaybackPassesNothingOver`: the action property `NonePassedOver`. An event ahead
  of the time that is not in the window stays ahead after a tick, because a tick
  is at most a window (`Speed \subseteq 1 .. Window`; the fastest, 10x every
  0.05 s, is exactly one), and time starts again only behind the last event. That
  the time line has a last event is a fact about finite sequences (`Instants`).
  What `PlaybackShows` adds to it is fairness: that the timer ticks.

Assumed of traces is what the tracer writes (`OfTopology`): times are natural
numbers, senders, receivers and originators are nodes, a hop lies on a link, and
one that names a transmission has its sender.

**`ToolProofs`**

* `EveryLinkWitnessed`: `LinksWitnessed`: each end of a link within the tolerance
  of its node, and no device nearer by more than a cell. Rounding moves a place by
  half a cell at most (`KeyIsNear`), so two of one key are a cell apart at most
  (`OneCell`), which is less than the tolerance. The invariant keeps both indices
  within the devices read, and each key of the one with a device of its cell in the
  other (`Keyed`). The sort by count permutes the edges, shown by counting ranks.
* `MeasurementsWin`: `MeasuredWins`. Names given to repeaters differ, because among
  as many suffixes as there are names one is free (pigeonhole), so a link of two
  names is of two prefixes.
* `CapsAreKept`: `CapsHold`. The filler's counters never fall behind the links
  they stand for (`CapInv`).
* `CompanionsEcho`: `CompanionsMirror`, the names in `_COMPANION_NAMES` being
  different. Links of a companion are made in one step, and later ones do not
  touch its names.

`ImportAssumption` and `FetchAssumption` say no more than that levels, places and
counts are numbers, the map is finite, the penalty is positive, and a cell of the
rounding is narrower than the tolerance of the search (1 m and 100 m).

Model-checked only:

* `EveryDeliverySettles`, `EveryReplayEnds`, `Settles`, `RunEnds` and
  `PlaybackShows`: liveness under fairness is outside what TLAPS handles here.
* The three violations, which are counterexamples of one instance each; how far
  the statements do hold is proved (`HalfDuplexHolds`, `EvictionOrder`,
  `UniqueTexts`).

Every other property of a run is a theorem.

## Disagreements

Runs with `expect: violation` show these; `PROJECT.json` quotes the lines.

1. *Half-duplex with slow radios* (`router_slow`). The register forgets a
   transmission 5 s after it ended, whatever the airtime. With an airtime above
   5 s, which SF12 at 125 kHz reaches for an advert, a transmission of the
   receiver is forgotten before a packet that overlapped it is judged. Where the
   retention covers airtime, latency and lateness none is (`HalfDuplexHolds`).
2. *Eviction among used routes* (`routes_stalest`) compares ages only between
   routes of equal use count, so the stalest need not go. The other priorities
   are kept (`EvictionOrder`).
3. *Texts are not unique* (`courier_unique`). The clock value in a text wraps
   after 1000 s and a second message of the same sender and value replaces the
   record of the first. Until it wraps none is replaced (`UniqueTexts`).

Others met while reading and modelling, with no run of their own:

* Replays are not re-broadcast "as if that node had transmitted" them
  (`router.py:274`): they are not registered, not notified and not judged.
* Corrupted packets open traces that nobody transmitted, against the comments at
  `tracer.py:204` and `:279`.
* `quit` waits in `drain()` without a limit before its two seconds begin
  (`node.py:125`), so a run with a node jammed behind a failed reader need not
  end. `RunEnds` has this exception, and no other.
* A comment at `node.py:126` says that a node sees the end of its input even if it
  ignores quit: `main.cpp` does not leave its loop there, it is the kill after two
  seconds that ends it.
* When a `start` of a batch raises, `run()` ends before anything is quit
  (`__main__.py:64`); the model starts what exists.
* In the editor, dragging a marker and running a simulation change what a save
  would write and set no unsaved mark; the position given in the dialog of a node
  is overwritten by that of its marker at the next save.
* The result of a simulation is kept with the session's topology, which may have
  been edited since the run began (`sim_panel.py:263`); `kept` in `Workbench`
  tells whether it was.
* When a trace without events is loaded in the viewer while a node is selected, the
  selection and the statistics of the trace before stay (`_main_content` returns
  before `trace_viewer.py:832`), and the sidebar shows that node's panel: it
  quotes the trace before (`trace_viewer.py:289`), and the packets it lists, when
  clicked, are those of the same numbers in the new one. `ViewMatches` has this
  exception, and no other. It is the same with an edge selected.
* A message that arrived can be reported as failed: after a timeout only the ACK of
  the retry is recognised (`node_agent/SimNode.cpp:102`, `:185`), and after the last
  timeout none. `ConfirmedWasReceived` says that no other ACK is passed over.
* The names of companions are not compared with those of repeaters.
* The caps of `import_topology.py` do not bind measured links, nor those of
  companions. `tools/README.md` names an option `--max-inferred-per-node` that
  does not exist.
* `fetch_topology.py:315` keeps the first edge of a pair, not the one with the
  highest count, and a pair whose first edge is too long loses the others too. Of
  two devices at one place the exact lookup finds the last, the search the first.
* The lookup by "exact coordinate match" (`fetch_topology.py:264`) is one by
  rounded coordinates: of the devices in the cell of about 1 m the one read last is
  found, even if another stands exactly where the edge ends
  (`fetch_topology.py:256`, `:269`). `LinksWitnessed` is therefore exact up to a
  cell.
* The nexthop README speaks of routes expiring after about 48 adverts, while
  ageing before the update makes it 49 to 64 depending on the phase of the cycle;
  it gives 4 for the admission limit in its discussion of Sybil adverts where the
  code has 16.
* The saved form of a topology has no noise floor.

## Not modelled

The MeshCore library is a git submodule that is not in the repository: what it
does is modelled only as far as the code here relies on it. For that reason
carrier sensing in `SimRadio`, the exchange of paths of the nexthop agent and the
adaptive delays, which are all answers to calls of that library, have no model.
Airtime, stagger and the propagation curve are floating-point formulas; the packet
decoder is a pure function over bytes. The experiments and the demo are scripts
that start the simulator and compare its reports, and keep no state. Of the
workbench the widgets, of the tools the request to a server and the grid
generator are left out. Formatting of reports, logging and parsing of command
lines are left out throughout.

## Plan

In order of importance; what is left comes last in each group.

1. `Channel`, `Medium`, `Router`: the air and the event loop. Proved: all of its
   safety properties, that `Router` implements `Medium`, and that verdicts are
   final.
2. `RouteTable`, `RouteArray`: the nexthop table. Proved: all of its properties and
   that the slots implement the set.
3. `Courier`: the pending message, retries and late ACKs, room-server forwards,
   matching in the metrics. Proved: all of its safety properties, credit and
   completeness of deliveries while texts are unique. Left: channel messages.
4. `NodeLink`: pipes, readers, ready, quit, the driver's phases. Proved: types,
   quit last, no orphans, nothing sent before there is a router.
5. `Workbench`, `TraceViewer`: sessions of the workbench. Proved: what is saved,
   what is marked unsaved, what the map of the editor and that of the viewer show,
   one trace on the page, playback stopped by a choice, playback that passes no
   event over, and the statistics.
6. `ImportTopology`, `FetchTopology`: files made of real networks. Proved: all four
   properties.
