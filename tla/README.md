# A TLA+ development for the mesh routing code

This directory models the repository's own networking code: the AODV routing
modules of `wireless/routes` and the mesh core of `mesh/mesh`, both kernel
modules for Linux 2.4.

| Module | Part of the system |
|---|---|
| `Aodv` | the routing protocol of maodv: what the engines of several nodes do to each other with RREQ, RREP, RERR and HELLO |
| `SeqNum` | the sequence number of one node of maodv, with its 32-bit wrap and restarts, as another node keeps it |
| `RouteTask` | the machinery of one node of maodv: kernel thread, task queue, timers, interrupts, loading and unloading |
| `RouteTimer` | the timer list of maodv against the clock |
| `PacketHold`, `IpQueue` | the queue of packets that wait for a route (aodv, maodv, haodv): what it promises, and what it does |
| `Discovery` | a discovery in aodv together with the packets that wait for it |
| `MeshRx` | the receive path of the mesh core: backlog, poll list, tasklet, references to devices |
| `MeshFwd` | the forwarding table of the mesh core: learning, ageing, forwarding, commands |

`MC...` modules are instances for TLC, `...Proofs` modules hold theorems.
Every module but `PacketHold` has a type invariant `TypeOK`; those of `SeqNum` and
`RouteTimer` (`TimerTypeOK`) are proved and not part of a run.  `TimerSeqProofs`
holds the theorems of both of these modules, which is why the definitions of
`RouteTimer` have names of their own (`TimerInit`, `TimerNext`, `TimerSpec`).

Paths are relative to `src/wireless/routes/maodv` unless they start with `src/`.

## 1. Inventory of the system

### Parts and state

| Part | Source | State | Operations |
|---|---|---|---|
| protocol engine | `engine/route/route_proto_ops.c`, `route_mgmt_ops.c`, `engine/utils/route_lib.c` | routing table, neighbours, flood records, own sequence number and rreq_id | receive RREQ, RREP, HELLO, RERR; send, retry and give up a discovery; expire and flush |
| daemon, task queue, timers | `engine/route/route_task.c`, `route_init.c`, `route_engine.c` | task list, timer list, kernel timer, wait queue, kill flag | sleep, wake, take, run, remove; insert a timer, timer interrupt; register, unregister, unload |
| IP device and hooks | `ipdev/ip_dev.c`, `ip_netfilter.c` | sockets, the registered devices | input hook, output hook, unicast, broadcast |
| packet queue | `ipdev/ip_packet_queue.c` | packets held back, length, flushing and terminate flags | enqueue, send, drop, flush, destroy |
| kernel routes, /proc, signal | `engine/utils/kroute.c`, `route_procs.c`, `engine/iw` | none of their own | text and ioctl output |
| aodv | `src/wireless/routes/aodv` | as maodv | the first version of maodv, with the same messages |
| haodv | `src/wireless/routes/haodv` | as maodv, per device | an unfinished port of maodv |
| dsr | `src/wireless/routes/dsr` | route cache, send buffer, acknowledgements | source routing |
| mesh receive path | `src/mesh/mesh/dev` | backlog, poll list, quota, references to devices | receive, poll, hand to the table, remove a device |
| mesh forwarding table | `src/mesh/mesh/fwdtables`, `mgr/mesh_mgr_ioctl.c` | items with ages and reference counts, ports | learn, age, forward, flood, register, commands |
| 802.11 stacks and drivers | `src/wireless/Wifi`, `HostAP`, `macs`, `src/mesh/80211` and others | hardware | copies of madwifi, HostAP and SoftMAC |
| kernel and telephony | `src/as` | | a Linux 2.4 tree, mISDN, PSTN drivers |

### How they interact

A packet that leaves the node passes the output hook.  Without a valid route
the hook starts a discovery (`_engine_send_request`): it counts up the node's
own numbers, records the flood, starts a RESEND_RREQ timer and broadcasts.  A
received PDU becomes a task.  A timer that runs out becomes a task in the timer
interrupt.  The daemon takes tasks one by one and runs their handlers, which
change tables, send PDUs and start timers.  HELLO and CLEANUP live on because
their own handlers start them again.

### The behaviours that make it hard

- PDUs are lost, late, repeated and reordered.  A RREQ that is repeated after
  its flood record has lapsed is handled again.
- Sequence numbers order the news about a node; a node also hears news about
  itself.
- Three contexts touch the same lists: the daemon, other processes (local
  senders, `insmod`, `rmmod`) and bottom halves (timer, received and forwarded
  packets).  Searching for a timer and adding it are two critical sections.
- The daemon tests its queue and then sleeps, in two steps.
- Lifetimes lapse at any moment and are noticed late, in the middle of lookups.
- A handler may end the daemon.
- Packets are held for a route by one actor, released by another and flushed by
  a third, each taking the lock anew for every packet.
- The tasklet of the mesh core leaves its poll list when it has seen the backlog
  empty, while interrupts fill it.
- Jiffies and sequence numbers wrap.

The hazards, with the line where each bites and the properties that would
catch it going wrong, are listed in `PROJECT.json`.

## 2. Aodv: the protocol

### Correspondence to the code

`engine[n]` is the `route_engine_t` of node `n`.  Its field `route` is the
routing table as a function of the address (`known` says whether the entry is
in the list), `neigh` the neighbour list, `floods` the flood records, `timers`
the RESEND_RREQ and NEIGHBOR timers, `rreq_id` the counter of the own entry.
`tasks[n]` is the queue of expired timers, `net` the set of PDUs sent so far,
`up[n]` whether the daemon still lives.

Every handler is an operator from the engine it starts with to the engine and
the PDUs it leaves (`Done`), so the functions it calls are part of it:
`rx_request` contains the neighbour check, `route_update`, the flood record,
the reply and the rebroadcast, as `_engine_rx_request` does.  Names are those
of the code.  The actions are the cases of the daemon's switch (`RxRequest`,
`RxReply`, `RxError`, `RunTask`, `SendHello`, `Cleanup`), the output hook
(`Packet`), the timer interrupt (`TimerFires`) and time (`Lapse...`).

What the model keeps although it looks odd:

- `_route_timer_delete` is always called with type and id swapped.  `timer_delete`
  has the code's parameters and is called with the code's arguments, so it
  deletes nothing.
- `_route_expire` does nothing to an entry without a device, and addresses
  outside the subnet have none.
- A lookup expires the lapsed entries that it passes.  Which ones stand before
  the entry that is found depends on the list's order; the parameter `X` of the
  actions is any set of them.
- `_engine_rx_error` writes through a pointer that is NULL, and the model allows
  both outcomes.  In `RxErrorFault` the first broken destination has its new
  sequence number, its route is still valid and the daemon is gone.  In
  `RxError` page zero is mapped, the write goes through and the loop ends.

What is abstracted: clock values (an entry is live or lapsed), MAC addresses,
message layouts, debug output.  The `metric` field of a HELLO is not
initialised by the code and not read by its receiver; it is left out.

### Configuration

The modelled node has one device whose address is also the address of
`paramLocalSubnet`, as in `all.sh` and `mesh.sh`.  Then `engine->myRoute` and
the entry of the device have the same address, and every lookup finds the
device's entry.  `MyRouteSeq`, the number HELLOs are sent with, is the one that
`engine_init` gave to `myRoute`.

### Runs

| Run | Instance | Shows |
|---|---|---|
| `aodv_line` | nodes a - b - c in a line, a has packets for c, one retry, three RREQs, two lapses | the invariants below |
| `aodv_gateway` | full mesh, gateways b and c, a has packets for an address outside | `ExternalRouteFixed` |
| `aodv_error` | as `aodv_line` | violated: the RERR about a route in use leaves it valid and ends the daemon |

Invariants: `TypeOK`; `SelfRouteIntact` (no message replaces the self route);
`NoFutureRoute` (no valid route is ahead of its destination's own number);
`AnswerAccepted` (see below); `RreqIdIdentifies` (source and rreq_id name one request);
`HopsTrue` (hop count and TTL add up, one hop means the node itself was heard);
`NeighWatched` (a neighbour always has its timer or task, swapped arguments
included).  `ExternalRouteFixed` is an action property: a route out of the
subnet never changes its next hop.

`AnswerAccepted` says that the answer of the destination is not refused as old
by the node that asked, from whichever valid neighbour it comes and however late
or often, as long as the entry of that node still has the number it asked with
and is not a valid one past its lifetime.
For this every RREP of the model carries, as history, the number of the RREQ it
answers (`asked`).  If the entry has moved on, `seq_greater` may refuse the
answer: a HELLO with the same number is enough, and what that does to the
packets that wait is the subject of `discovery_hello`.

A handler is one step here.  In the code the output hook may come between the
daemon's reading and writing of `rreq_id` (`engine/route/route_proto_ops.c:633`
to 651), so that a number is counted back.  `RreqIdIdentifies` says nothing of
that; `Discovery` has the same code of aodv step by step.

### Bounds

`MaxRreq` bounds the requests of a node, `MaxHop` the hop count of a RREP,
`MaxTicks` the lapses and timers that run out.  Three nodes in a line are the
smallest network in which a node relays for another.  With `MaxRreq = 3` a
first request, its retry and a request of the relay's neighbour can be in the
air together; with two ticks a timer runs out and a lifetime or flood record
lapses, which is what a request that is handled twice needs.  `net` only grows,
so every order, loss and repetition of the PDUs is covered within the bounds.
`MaxHop` stays below 255, where the 8-bit hop count of a RREP would wrap.

### Fairness

`CleaningSpec` assumes that a living daemon handles CLEANUP again and again,
because the handler starts its own timer.  Only `LapsedRouteExpires` (section 11)
needs it; the runs check safety.

## 3. RouteTask: the daemon and its timers

### Correspondence to the code

The model assumes one processor and a kernel that does not preempt: the
default target of `Makefile.pre` is an ARM IXP board, which has one, and Linux
2.4 does not preempt a process inside the kernel.  An SMP build would allow
more orders than are checked here.  So there are two kinds of steps.  Bottom halves (`TimerSignal`, `Receive`, `Forward`) are atomic
and may come between any two other steps.  Processes (`Send`, `Register`,
`Unregister`, `DelTimer`, `kill_aodv`, `Destroy`) run only while the daemon
does not hold the processor, which it gives up in `interruptible_sleep_on`.

| Variable | Code |
|---|---|
| `tasks` | `engine->tasks`, oldest first; the task being handled stays at the head until `Remove` |
| `timers` | `engine->timers`: how often each timer is in the list |
| `armed` | the kernel timer `engine->timer` is pending |
| `pc` | the daemon's place: `check` and `sleep` before the wait, `asleep`, `woken`, `drain` at the queue's test, `run`, `handled`, `dead` |
| `ins` | a timer insertion by the daemon or a local sender: `search` under the read lock, then `add` under the write lock |
| `kill`, `module`, `dev`, `count` | `kill_thread`, the progress of unloading, a registered device, registrations so far |

`__route_timer_enqueue` is two steps, `Search` and `Add`, because it releases
the lock in between.  Under `devLock`, with interrupts off, it is one
(`InsertAll`).  A handler is the timers it starts: `Reinserts` for what it
always starts again, `MayStart` for what it may start.  `Fault` is the end of
the thread in the handler of a RERR.  `Destroy` ends in `fault` when the queue
is not empty, because `_engine_destroy` goes on from a pointer it has set to
NULL.  The specification starts when the thread has reached its loop.

Time is left out: a timer that is in the list may run out at any moment.  A
real clock allows fewer orders, so what holds here holds there.

### Runs

| Run | Shows |
|---|---|
| `route_task` | `TypeOK`, `HeartbeatKept`, `HelloStreams`, `TimerSingle`, `RetryAtMostTwice` with two registrations, one retry, three queued tasks; `KillEndsThread`: the thread that is asked to die does, or the engine is freed first; `ServedUnderTraffic`: while PDUs arrive, lost wake-ups are made good |
| `route_task_wake` | violated: HELLO and CLEANUP run out between the test of the queue and the sleep; the node is mute for ever unless it hears something |

`HeartbeatKept` says that after the first registration HELLO and CLEANUP are
always in the timer list or in the queue with their handler still to come.
`HelloStreams` says that there are never more HELLO streams than registrations;
it is not at most one, because a device registered while HELLO is queued starts
a second stream.  `TimerSingle` says that the gap between `Search` and `Add`
does no harm to the timers that only the daemon inserts; `RetryAtMostTwice`
says how much it does to retry timers, which bottom halves insert too.

Deadlock is not checked: an unloaded module does nothing.

### Bounds and fairness

`MaxTasks` bounds the queue; at the bound timers wait and a PDU leaves only its
wake-up.  Three tasks are enough for both periodic tasks and a PDU at once.
`MaxRegister` bounds registrations; two are needed for a second HELLO stream.
One destination and one neighbour suffice, since timers of different
destinations do not meet.

`Fairness` is that of the scheduler: strong fairness of the daemon (a woken
thread runs in the end, however often others run first) and weak fairness of a
process in the middle of an insertion.  `TickingSpec` adds that timers run out.
`ServedUnderTraffic` has its own premise, that PDUs keep arriving while a device
is registered, as neighbours send a HELLO in every HELLO_INTERVAL.  Nothing is
assumed of users who load and unload.

## 4. SeqNum: numbers that wrap

`Aodv` counts without end.  `SeqNum` follows one number through its wrap: `own`
is the node's number modulo `2 * Half`, `entry` the route that another node,
two or more hops away, keeps to it, `air` the PDUs that carry the number and
`asks` the RREQs that look for the node.  `lag` is history: by how many numbers
a PDU or an entry is behind the node, or `Old` if the node has left its numbers
behind since.  It does so when it is loaded again (`Restart`), and when a node
without an entry asks with 0 while the number has its top bit set (`RxUnknown`):
`seq_less_or_equal` then takes the number for a negative one.

The entry lives as long as PDUs or packets renew it: a data packet that passes
the output hook gives a valid entry its whole lifetime again (`Pass`).

Run `seq_num`: `ComparedTruly` says that a PDU is refused exactly when it is not
newer in the order of counting, the one number that an expired entry is ahead
included; `HeardAgain` says that a node that counts from 1 again is not refused
for ever, under two premises that are part of the property.  CLEANUP goes on
being served, which a lost wake-up can prevent (`route_task_wake`), and packets
to the node come to an end: as long as they pass they keep the old entry, and its
number, alive.  The signed subtraction of the code is taken to wrap, as the
compilers of a 2.4 kernel do it.

Bounds: `MaxLag` numbers are counted at most while a PDU is under way or an
entry lives; in the code an entry lives about 30 seconds after its last PDU or
packet, and half of the range is 2^31 requests and answers.  `MaxResets` bounds how often the node leaves its
numbers behind, which also says that it stops doing so.  Three bits are enough
for the wrap to come again and again.  The only fairness of `Spec` is that time
passes (`Lapse`).

## 5. RouteTimer: the timers and the clock

`list` is `engine->timers`, head first, `armed` the time to go of the one kernel
timer, `tasks` the queue.  A step of the clock is `Tick`; when the kernel timer
has run out its bottom half (`Signal`) comes before anything else.  It is the
loop of `__route_timer_queue_signal`: the first timer that is due becomes a task
(`SignalOne`) until none is, and the kernel timer is set anew (`SignalEnd`).  The
id of a timer stands for its type and its address, so the destinations of retry
timers and the peers of neighbour timers are kept apart.  `Delay` is
`_route_timer_update` with `__tvtojiffies`: the remaining seconds plus
`engine->epoch`, saturated, and taken as past when it is beyond the horizon of
the jiffies.  `Wait` has the `2 ^ n` of the code, an exclusive or (`Xor2`).

`thread` is the daemon's sleep: it finds the queue empty (`leaving`) and then
sleeps, and a task that comes in between wakes nobody.  `Wake` is a task of which
the model says no more, a PDU.

Run `route_timer`, with a clock of today (`Epoch` beyond `Horizon`): timers are
served on time (`ServedOnTime`) although the kernel timer is set for the newest
one, because it runs at every jiffy.  A discovery is not given up before a
traversal time for each of its RREQs has passed (`NotGivenUpEarly`).  That is a
bound on the whole: the last RREQ has no wait of its own, since 2 XOR 2 is 0.
HELLOs repeat (`HelloRepeats`) if PDUs go on waking the daemon, as the HELLOs of
neighbours do; without them a lost wake-up silences the node (`route_task_wake`).

Intervals are scaled down to 3 and 6 jiffies, which keeps their order.  Fair are
the clock and the bottom half (weakly) and the daemon (strongly, as bottom halves
come first); that it is woken is a premise of `HelloRepeats` and no assumption of
the specification.

## 6. PacketHold and IpQueue: the packets that wait

`PacketHold` is the promise: a packet that is held gets one verdict, and packets
to one destination are sent in the order in which they were held.  `IpQueue` is
`packet_queue.c` of `src/wireless/routes/aodv`, of which `ipdev/ip_packet_queue.c`
is a copy, with its three actors: the output hook, the daemon, and the process
that loads and unloads.  A step is what one holder of `q->lock` does, or one call
of `nf_reinject`; `hand[a]` is the element an actor has dequeued and not yet
given back.  `module` says whose queue it is, and both are initial states: the
daemon of aodv releases packets and unloading never destroys the queue, maodv
does the opposite.

The specification starts before the first `insmod`.  A load may end up without a
queue, for want of memory or because a handler is still registered; the code
ignores that and registers its hooks all the same (`Load`).  Without a queue of
its own the daemon's next release follows a NULL or freed pointer (`Fault`), and
`cleanup_packet_queue` unregisters a sysctl table that does not exist (`unload`
is `"fault"`).  In maodv `ip_route_init` may still fail after that
(`InitFails`): it undoes nothing, and hooks and handler of a module that is gone
stay registered.  Such hooks and handlers are `"stale"`; what becomes of a packet
that reaches one is not said, it is counted in `stray`.

`owner` is history.  It is `"ours"` until a module is gone and its hooks or its
handler are not, `"left"` from then on, and `"lost"` once the next load has
overwritten the pointer to the old queue.

Run `ip_queue`: every held packet is in the list once, or in one hand, and the
length counts the list (`Accounted`); the queue implements `PacketHold`
(`HoldSpec`, through `Hold == INSTANCE PacketHold WITH fate <- fate, behind <- behind`:
the list, the hands and the limit are what the mapping leaves out), with a limit
that the sysctl moves; a release, once begun, reaches
every packet of its destination (`ReleaseReaches`); unloading maodv leaves no
packet behind (`UnloadFeedsBack`); the loads and unloads of maodv, which take
hooks, handler and queue away one by one, never leave a hook or a handler without
the code behind it (`HandlerAlive`).  `Accounted` holds until a queue is lost.
`HandlerAlive` holds while `owner` is `"ours"`: after an unload of aodv, or a load
of maodv that fails, it does not, and packets go astray.

Three packets to one destination and one to another are enough for one to be
held behind two others and for a release to pass by a packet it must not touch;
the limits 0, 1 and 3 make the queue full, or over its limit, and two loads let
the second meet what the first has left (`MaxLoads`).  Fair are the
daemon in the middle of a release and `rmmod` once it has begun.  Deadlock is not
checked: an unloaded module with no packets left does nothing.

## 7. Discovery: a discovery and its packets

One node of aodv, with the hook, the retry timer, the daemon and the queue (as
`PacketHold`, whose actions are part of the daemon's: `Release`, `SendHeld`,
`DropHeld`).  The hook and the timer are bottom halves and come between any two
steps of the daemon; a handler gives way between the update of the route and the
release of the packets.  RREQs and answers may be lost; the neighbour asks and
says HELLO by itself.

Asking again (`aodv_pdu_request_resend_ttl`) is a step for each thing it reads or
writes that the hook does too: the numbers are read (`ResendTtl`), `rreq_id` is
stored (`ResendCount`), the flood is recorded (`ResendFlood`), a timer is looked
for (`ResendSearch`) and added (`ResendAdd`).  If the hook asks in between, its
count is lost and the rreq_id of a later RREQ is on record already: that RREQ is
given up, with neither a timer nor a message.  `ahead` are the records that are
in the way, relative to the present number; `draft` is what the daemon has read.
`untimed[d]` is history: the last RREQ for `d` was given up so and there was no
timer for `d`, so nobody comes back to its packets until the next one.

The daemon finds its queue empty (`leave`) and then sleeps (`asleep`), and what
comes in between wakes nobody.  `Kick` is any other task that wakes it.

| Run | Shows |
|---|---|
| `discovery` | every held packet is sent or dropped (`EveryPacketAnswered`), because somebody always comes back to it (`Watched`), if no HELLO of the destination arrives and no lifetime ends during the discovery, and except behind a RREQ that was given up for its rreq_id (`untimed`); with all of these, discoveries still come to an end (`DiscoveriesEnd`) |
| `discovery_hello` | violated (`AllFedBack`): a HELLO makes the route valid, the answer deletes the timer and is refused for its equal number, and the packet is held for ever |

`scene`, one of `Scenarios` and fixed in the initial state, says what may happen:
which of the two may come into a discovery (`races`; `Calm` is neither), which
packets come, which destinations are there to answer, and up to how many tasks
PDUs are received (`maxTasks`, a bound).  `MaxSeq` bounds the numbers of the
neighbours.  There are four packets, two for each of two destinations.  Two to one
destination suffice for a second discovery to begin while the task of the first
waits.  Two destinations are needed for the hook to ask for one while the daemon
asks for the other, and four packets, with nobody there, for a count to be lost
and met again.  The scene with a HELLO and lapses has one packet, as lifetimes
that end at any moment multiply the states.

`Fairness`: a thread that is not asleep runs and the kernel timer runs out.  The
liveness properties have a premise of their own, that a sleeping daemon is woken
by other tasks again and again (`WF_vars(Kick)`): after a lost wake-up a discovery
of one node alone would wait for ever.  Deadlock is not checked: when the packets
have their verdicts and the neighbour's numbers are used up, nothing happens.

## 8. MeshRx: the receive path

`swjtu_meshif_rx` puts frames on the backlog from interrupts and bottom halves,
and `swjtu_mesh_rx_action` polls the backlog device.  An action is what runs with
interrupts off, or between two such pieces, and a port may offer a frame between
any two.  `pc` is the place in the tasklet, `budget`, `work`, `limit` and `quota`
are its counters, `blog` and `ref` the reference counts.  `stack` holds the
frames that the IP stack still has because the portal has refused them.  `bh` is
`local_bh_count`: removing a device leaves it at -2 (see `MeshFwd`), and no
softirq runs after that.

Run `mesh_rx`: while there are frames the backlog is polled (`Scheduled`), and
references add up (`References`).  Every frame of the backlog is handled
(`EveryFrameHandled`) and an overload ends (`OverloadEnds`), unless the removal of
a device has stopped the softirqs.

Five frames against a backlog limit of 3 and a weight of 2 fill the backlog and
use up both quota and budget.  Assumed: one processor, no
`CONFIG_NET_HW_FLOWCONTROL`, no poll function but the backlog's, a first pass of
the loop that is not out of time, and a device that is removed while the tasklet
is not in the middle of it.  Weak fairness of the tasklet: a scheduled tasklet
runs.

## 9. MeshFwd: the forwarding table

`table[m]` is the item of an address, with its port, its flags, its timer and its
`use_count`; `now` are jiffies, modulo `2 * Half`; `node` is the mesh address of
the manager and `addr` that of the portal.  A frame is handled in one step
(`Handle`): the source is learned, the destination looked up, the frame forwarded,
flooded or freed; `last` tells what became of it.  A command of the administrator
is two steps if it inserts, and frames may come in between.  The removal of a port
is a walk through the table, address by address (`Unregister`, `Visit`,
`Unregistered`): bottom halves are enabled during it, because `swjtu_fwd_del_dev`
unlocks where it should lock, and frames are handled between any two items.  The
kernel is not preemptive and has one processor, so only softirqs come between
the steps of a process.  A wifi port takes every frame; the portal passes it to
`netif_rx`, which reports congestion.

`seen` is history: the port where a learned address was last heard, how long ago,
and whether it was heard on a port under removal after the walk had passed its
address (`late`).

The first port gives the node its mesh address if it is a wifi port, and a command
sets another (`SetMeshId`).  The portal takes the mesh address when it is
registered and that of its bridge when it is started (`Up`); no item moves with
it.  The portal may be started without getting `MESHF_UP`, when its net device was
up before.

Run `mesh_fwd`: no item leads to a port that is gone, but for one that was heard
late, and a port has one local item at most (`Consistent`); a learned item is found
for exactly the ageing time, across the wrap of jiffies (`Ageing`); a frame leaves
by the port of its destination and never by the one it came from (`Directed`); what
is configured stays (`StaticKept`).

One wifi port and the portal, a station that is heard on either, the node's own
address and the default one; four jiffies with an ageing time of one let an item
expire, and be found again after the wrap.  `MaxUses` bounds the references that
commands leave.  `InFrames` (pairs of source and destination), `InBeacons`,
`InCommands` and `MeshIds` are the addresses that frames, beacons and commands
carry, `Bridge` is that of the bridge.

## 10. Proofs

TLAPS checks every theorem for all values of the constants: any nodes, links,
gateways and traffic, any bounds.  The assumptions are the named `ASSUME`s of
`Aodv` (addresses, task types and roles are what the code takes them for; the
limits are numbers, `MaxHop` below the wrap-around of the 8-bit hop count) and
of `RouteTask` (retries and bounds are natural numbers).
The assumptions of the other modules are of the same kind: numbers are numbers,
`None` is no packet and no item, the ageing time is at most half the range of
jiffies, sequence numbers lag by less than half their range, timers of different
types have different ids.  Leaves have a time limit of 30 seconds for each prover; one that cites
`ZenonT` is pure first-order reasoning or is about Boolean values.

### Aodv

Two modules, in order: `AodvEngineProofs` (operations on one engine, handlers)
and `AodvProofs` (the invariant, what a handler's step does to the whole system,
actions, theorems).

| Theorem | Property |
|---|---|
| `TypeCorrect` | `TypeOK` |
| `SelfRouteSafe` | `SelfRouteIntact` |
| `NeverAhead` | `NoFutureRoute` |
| `AnswersAccepted` | `AnswerAccepted` |
| `RreqIdsUnique` | `RreqIdIdentifies` |
| `HopCountsTrue` | `HopsTrue` |
| `NeighboursWatched` | `NeighWatched` |
| `ExternalRoutesFixed` | `ExternalRouteFixed` |

The properties are proved together, because none is inductive alone.  `IInv`
adds to them what is in the air: a RREQ carries no number its source has not
reached, its hop count and TTL add up, a PDU with hop count 0 comes from the
node it is about, a RREP of the destination carries a number above the one asked
with (`PduOK`); no RREQ has an id its source has not reached; news
about addresses outside the subnet all carry the same number.  `SelfRouteIntact`
then follows because nobody can tell a node a number above its own, and equal
numbers are refused (`seq_greater` is true for equal numbers).  Freshness is
asked of running nodes only: `RxErrorFault` leaves a number in the table that
nobody checked, together with a dead daemon.  `Moves` says how an engine may
change in a handler (own numbers only grow, neighbours get timers, external
entries stay); `AnswerStored` says what `rx_reply` makes of an entry that is older
than the answer, from which `AnswerAccepted` follows; each handler is shown once to be such a move that sends good
PDUs, and `HandlerStep` shows once that such a move preserves `IInv`.

### RouteTask

`RouteTaskProofs` proves `QueueTypeCorrect` (`TypeOK`), `TimersSingle`
(`TimerSingle`), `HeartbeatsKept` (`HeartbeatKept`), `StreamsBounded`
(`HelloStreams`) and `RetriesAtMostTwice` (`RetryAtMostTwice`).  Two facts
strengthen the first three.  `Control` ties the daemon's place to the queue and the insertions: while
a handler of HELLO or CLEANUP has an insertion in progress, it is the timer of
the task at the head.  `AddFresh` says that a timer about to be added, other
than a retry timer, is still not in the list: bottom halves insert only retry
timers and processes cannot run.  So `Add` keeps timers single, and a task at
the head is finished only after its timer is in the list.

The other two count.  `Waiting(t)` are the places in the queue that hold `t`, and
`Entries(t)` the entries of the list that a search for `t` finds, as sets, so that
a step adds or removes one element of them.  For `HelloStreams`, `FromOwnTask` adds
that the daemon puts a periodic timer back only while its task is at the head: the
stream that returns to the list is the one that leaves the queue.  For
`RetryAtMostTwice`, `Limit` adds that there is at most one entry while some process
stands between its search and its addition: only a bottom half comes in between,
and one that adds has searched and found none.

### IpQueue

`IpQueueProofs` proves `HoldTypeCorrect` (`TypeOK`), `PacketsAccounted`
(`Accounted`), `HandlerStaysAlive` (`HandlerAlive`), `UnloadEmpties` (`UnloadFeedsBack`) and `QueueImplementsHold`
(`HoldSpec`).  The invariant has two cases: the queue of this load (`QInv`), or one
that was left behind and loaded over (`Abandoned`, where `owner` is `"lost"`), whose
packets nobody reaches any more; `Abandoned` also says that maodv does not get
to the end of an unload while it has such packets.  `QInv` adds
`Control` (who may be at work when, and that what is stale was left behind),
`Order` (what a packet was held behind is ahead of it in the list, in somebody's
hand, or no longer held) and `HandFirst`
(nothing that the daemon's element was held behind is still held).  `HandFirst`
is the guard of `PacketHold`'s `Send`; every other step maps to `Hold`, `Refuse`,
`Drop` or a stutter.

### MeshRx

`MeshRxProofs` proves `BacklogBounded` (`TypeOK`), `BacklogScheduled`
(`Scheduled`) and `ReferencesAddUp` (`References`), for any frames, ports, limit
and weight.  `Polling` ties the counters to the place in the tasklet, `Queued`
says that the frames of the backlog are there once; the references are
cardinalities of sets of frames, which change by one frame at a time.

### MeshFwd

`MeshFwdProofs` proves `TableTypeCorrect` (`TypeOK`), `TableConsistent`
(`Consistent`), `AgeingExact` (`Ageing`), `FramesDirected` (`Directed`) and `StaticItemsKept` (`StaticKept`).
`Rooted` and `OneLocal` are the two parts of `Consistent`.  `Walked` says that where
the removal of a port has passed, only late items lead to the port; so when the
walk is through, nothing else does.  The induction for `Ageing` is on `Clock`:
while the age of a learned item is known, its timer is exactly that age behind jiffies, modulo their range.  `Comparison` then shows
that the wrapping comparison of `__has_expired` is right for ages below the
ageing time plus half the range.  `InsertItem` says once what an insertion makes
of an item, and every operation that inserts cites it.

### Discovery

`DiscoveryProofs` proves `DiscoveryTypeCorrect` (`TypeOK`) and `HeldWatched`
(`Watched`), for any packets, destinations, retries and sequence numbers.
`Watched` is not inductive: `__check_reply` deletes the retry timer before
`aodv_route_update` has looked at the answer, and an answer that were refused
would leave the packets with nobody.  `Minded` therefore counts the daemon on its
way through an RREP among those who come back, and `Fresh` says why it does not
turn back: every RREQ asks for at least the number of the entry, so every RREP is
newer than an entry that is not valid.  `NotLeft` says that a valid route has no
packets held behind it but those that the daemon is sending.  A RREQ given up for
its rreq_id sets `untimed`, which `Watched` and `Minded` exempt.  All three are asked
only while no HELLO and no end of a lifetime has come between (`Calm`), without
which `Watched` is false (run `discovery_hello`).

### RouteTimer

`TimerSeqProofs` proves `TimersTypeCorrect` (`TimerTypeOK`), `DiscoveriesPatient`
(`NotGivenUpEarly`) and `TimersOnTime` (`ServedOnTime`).

The waits of a discovery are `2 XOR n` traversal times, 2, 3, 0, 1, 6 and so on:
the third is nothing.  `Paid(j)` bounds what the first `j` of them come to, and
`TimerInv` says that every retry timer will have waited that long when it runs
out (`OnSchedule`), and that every retry task has (`Waited`).

`TimersOnTime` has a hypothesis of its own, `Epoch >= Horizon`: the epoch that
`_route_timer_update` adds to the delay then carries it beyond the horizon of the
jiffies and the kernel timer runs at every jiffy (`Prompt`).  Without it the
property is false (section 11).

### SeqNum

`TimerSeqProofs` proves `NumbersTypeCorrect` (`TypeOK`) and `ComparisonTrue`
(`ComparedTruly`), for numbers of any width.  `Lagging` ties the numbers to the
history: a PDU or an entry that is not `Old` is exactly its lag behind the number
of the node, modulo the range; an entry that has expired is one ahead of that.
As a lag is below half the range, the sign of the wrapped difference is that of
the difference of the lags.

### Only model-checked

Every safety invariant and every action property of the passing runs is a theorem.
What remains with TLC is liveness (`KillEndsThread`, `ServedUnderTraffic`,
`HelloRepeats`, `ReleaseReaches`, `EveryPacketAnswered`, `DiscoveriesEnd`,
`HeardAgain`, `EveryFrameHandled`, `OverloadEnds`), which rests on fairness and
`ENABLED` that the prover does not handle, and the counterexamples of section 11.

## 11. Where the code and its comments disagree

Three disagreements are runs of their own and findings in `PROJECT.json`, each
with the comment it contradicts:

- A RERR about a route in use ends the daemon (`aodv_error`).
- A wake-up between the queue's test and the sleep is lost (`route_task_wake`).
- A HELLO during a discovery leaves a packet held for ever (`discovery_hello`).

### Expectations the code does not meet

These are defined in the modules and belong to no run.  TLC refutes each when it
replaces the properties of the configuration named here.

| Definition | Configuration | What the code does | What it says |
|---|---|---|---|
| `MyRouteMaintainsSequence` | `AodvLine.cfg` | the device's own entry is found before `myRoute`, whose number stays 1 | `include/mesh_route.h:330` "maintain sequence of this node" |
| `LapsedRouteExpires` | `AodvGateway.cfg` with `CleaningSpec` | `_route_expire` returns early for an entry without a device | `engine/route/route_mgmt_ops.c:29` "marks a route as expired" |
| `FreedAfterDeath` | `RouteTask.cfg` | `kill_aodv` sleeps for a second and never reads `aodv_is_dead` | `engine/route/route_task.c:133` "wait for the thread to set flag saying it is dead" |
| `ServedOnTime` | `RouteTimer.cfg` with `Epoch = 4` | the kernel timer is late by the wall clock at load time, on a node whose clock starts at 1970 | `engine/route/route_mgmt_ops.c:583` "Set the timer to the actual seconds / microseconds from now" |
| `EveryHeldAnswered` | `IpQueue.cfg` | maodv calls neither its resend nor its drop operation; aodv is unloaded without `cleanup_packet_queue` | `include/mesh_route.h:213` "dequeue skb and resend packet dest to detsIp after route build" |
| `FreedUnreferenced` | `MeshRx.cfg` | `ath_pci_remove` frees a device that frames of the backlog refer to | `src/mesh/mesh/include/mesh_dev.h:207` "Called after last user reference disappears." |
| `RefusedStays` | `MeshRx.cfg` | a full backlog frees the portal's frame and reports a failure, so that the IP stack keeps it | `src/mesh/mesh/dev/mesh_portal.c:375` "skb must be freed by up layer drivers" |
| `LocalPassedUp` | `MeshFwd.cfg` | the node's own address leads to the wifi port; a frame from there to it is freed | `src/mesh/mesh/fwdtables/mesh_fwd_input.c:122` "if dest is not local device, forward to unicast MAC address" |
| `OneOwner` | `MeshFwd.cfg` | what `netif_rx` returns under congestion is taken for a refusal, and the queued frame is freed | `src/as/linux-2.4.x/net/core/dev.c:1261` "It always succeeds." |
| `DeleteRemoves` | `MeshFwd.cfg` | the delete command gives back the reference of its own lookup only | `src/mesh/tools/mgr/mgrconfig_cmds.c:88` offers "del" |
| `HandlerAlive` without its premise | `IpQueue.cfg` | aodv is unloaded with its handler registered, and a failing `ip_route_init` undoes nothing | `src/wireless/routes/aodv/src/packet_queue.c:389` is `cleanup_packet_queue`, which nothing of aodv calls |
| `LocalAddress` | `MeshFwd.cfg` | starting the portal changes its address and not its item | `src/mesh/mesh/fwdtables/mesh_fwd_db.c:70` "change the MAC of Local item with dev", which nothing in the build calls |
| `NoneLeft` | `MeshFwd.cfg` | a frame handled during the removal of its port teaches the table an item behind the walk | `src/mesh/mesh/fwdtables/mesh_fwd_init.c:154` "remove fwd item from fwd table and decrease the reference count" |
| `BottomHalvesOn` | `MeshFwd.cfg` | `swjtu_fwd_del_dev` unlocks where it should lock | `src/mesh/mesh/fwdtables/mesh_fwd_init.c:160` "write_lock(&br->lock);" |

## 12. Not modelled

- `dsr` (`src/wireless/routes/dsr`): route cache, send buffer and
  acknowledgements of a source routing module, next in line.
- A composition of `Aodv` with the task queue of `RouteTask`, in which PDUs wait
  as tasks too.  `Aodv` lets a PDU be handled at any later time, which covers
  the waiting but not a bound on the queue.
- The walk of the timer list, element by element, under a lock that leaves
  interrupts on: an element that runs out is moved to the task list under the
  walk.
- Several mesh nodes whose forwarding tables flood to each other, and the wireless
  ioctls.  Stopping the portal: `src/mesh/mesh/dev/mesh_portal.c:490` copies from
  address zero before `MESHF_UP` would be taken away at line 497.
- haodv: an unfinished port (its reply handler uses an address as a pointer).
  Its packet queue and number comparison are copies of what is modelled.
- 802.11 stacks, drivers, the kernel and telephony trees: third-party code or
  hardware, and by far the largest part of the repository's lines.  Text output.
- Loop freedom is not stated: no document claims it, and a HELLO, which carries
  `myRoute`'s old number, can replace a newer number of the same neighbour.
- Failing `kmalloc`s, except where a queue or a table handles them (`IpQueue`,
  `MeshFwd`).
