# A specification of ARMORE in TLA+

ARMORE joins segments of a control-system network. On every node a *proxy*
(C++, `src/source/ARMOREProxy`) takes Ethernet frames off a local interface,
carries them over a ZeroMQ middleware to the other nodes, and puts the frames it
receives on its own network, hiding the MAC addresses of remote hosts behind its
own. A *Bro* monitor (`src/source/bro/scripts`) gathers statistics about the
Modbus and DNP3 traffic it sees, learns what is normal and reports what is not. A
*web server* (Flask, `src/source/webServer`) sets the mode of the node, enforces
the operator's policies on its firewall, and draws what the monitor has logged.

This directory holds TLA+ modules translated from that code, configurations that
check them with TLC, and theorems proved with TLAPS. `PROJECT.json` lists the
runs, the lines each definition stands for, the hazards the properties are aimed
at, and the theorems.

Run a configuration with `tlc -config so_races.cfg MCSynchronizedOperation.tla`
(the module of each run is in the table below), a proof with
`tlapm PacketProcessorProofs.tla`.

## Inventory

### The proxy

| Part | State | Operations | Talks to |
|---|---|---|---|
| `main` (ARMOREProxy.cpp) | options, the poll set | poll loop, shutdown | PacketProcessor: EncodePackets when the interface is readable, DecodePackets when it is writable, which is asked for while buffers are counted; the processor's descriptor only wakes the loop |
| PacketProcessor | IP table (address -> MAC, connection, last access), pending MAC requests, received buffers, their count, an eventfd, two flags set by timers | EncodePackets, DecodePackets, QueueReceivedBuffer, CheckActiveIPAddresses, CheckPendingIPMacRequests | capture engine, middleware engine; called by the middleware's threads |
| ZeroMQServer | client table, send queue, an eventfd, a pool of socket threads, a flag set by a timer | SendBuffer (to one, to all), SocketPollHandler and what it calls, Dispose | PacketProcessor, by callback in a pool thread |
| ZeroMQClient | a sending and a receiving socket, a new identity per start | SendBuffer, ReceiveDataHandler, Dispose | PacketProcessor, by callback in its receive thread |
| Timer | timer descriptor, `m_enabled`, a polling thread per Change | Change, Stop, TimerPoll | callbacks that set the flags above |
| SynchronizedOperation | `m_state`: not running, running, pending | Run, TryRun, RunOnce, TryRunOnce and their asynchronous forms | runs an action in the caller or in a new thread |
| Capture engines | a driver ring (netmap, pcap) | GetNextPacket, InjectPacket | PacketProcessor |
| Loggers, certificates, thread and lock wrappers | - | - | everybody |

The hard behaviours: two or more threads meet at every queue (received buffers,
send queue, client table), each guarded by a spin lock *and* announced by an
event descriptor whose blocking read is done under that lock; the tables learn
from traffic of both sides, in the order it happens to come; requests for MAC
addresses are made once, answered late or never, and expire; clients restart
under new connection IDs while tables elsewhere hold the old ones; a thread is
started before the flag it looks at is set.

What makes them correct: a queued buffer is always announced and an announcement
never leads to an empty queue; the Ethernet and ARP headers of a frame that reaches
a local network never hold a remote host's MAC; an address is either resolved or asked for; a packet for an unresolved host is
dropped only after its MAC was asked for; tables lead where the host is; hosts
behind different clients stay apart unless the server permits it; hosts that keep
talking get through; no thread is woken to call back once a timer was stopped; one
execution at a time, and none forgotten.

### The Bro scripts

| Part | State | Operations |
|---|---|---|
| Collector (stats_col, _modbus, _dnp3) | the record `g_info` of the packet at hand, whether it still has to be logged, the latest target per connection, for DNP3 where the target of an object comes from | handlers of the packet and message events; raise `item_seen` and `item_gen` |
| Counter (stats_count, sumstats_count) | SumStats reducers of the period, the latest request per connection, the tree of a period | `item_seen`, process_result, after_process |
| Anomaly detection (anomaly_detect) | the normal tree: values, means and deviations of every node; the number of the period | process_finish, initialize, average, check, score, report |
| Identities (id_recog) | the latest request per connection, the identities of each host | `item_gen`, Intel match |

Bro is single-threaded, so the hard part is the order of events: an event is
handled after those already queued, and carries a *reference* to the collector's
record, which later handlers overwrite; a period can end between packets; a
response is matched with a request by connection only; a match is answered by a
later event that looks the hosts up again. The detection walks two trees that
differ anywhere, fills in the periods a node was absent from, and divides by
deviations that may be zero. Correctness: the tree of a period is whole and its
levels agree, no request is answered twice, every packet is logged once it is
over, the normal tree *is* the mean and deviation of the training, what repeats
the training is quiet, what is new is reported once, and an identity is given
only to a host that did what it stands for.

### The web server

| Part | State | Operations |
|---|---|---|
| Policies (policy.py, ipfw.py) | the file of policies, the rules of the firewall, the cron file | save, delete, list; parseIPFW, parseTime, createCronJob; the cron daemon adds and deletes rules |
| Modes (config.py and the service script) | its copy of the configuration for each mode and for the mode in force, the backend file, the interfaces file; the proxy process | updateConfig, synchConfigs, do_stop, do_start |
| Policy form (addPolicy.html, armore.js) | day boxes, time rows and the numbers in their names | click a box, add and remove rows, submit, open a saved policy |
| Graph pages (visualization*.js, visualization.py) | selected date, drawn graph, filter list, open dialogs, requests in flight; the stored labels | select, compare, filter, rename; answers arrive in any order or not at all |
| Accounts, sessions; logs, statistics, tables | - | read and render |

Each of these takes several steps over several files or requests, with a kill, a
reboot, the cron daemon, an exception or a late answer in between, and none of
them locks anything or rolls anything back. Correctness: a week after a request
the firewall denies exactly what the active policies say; a block that begins
also ends; copies agree once no request is served; a running proxy has the
settings in force; what is saved is what the form showed; the graph drawn is the
one selected, if there is one to draw, its filters fit it, and a label is stored for
the host it was typed for.

## The modules

| Module | Models | Translated from |
|---|---|---|
| `MacTranslation` | EncodePacket, DecodePacket, the IP and pending tables, as operators without state | PacketProcessor.cpp |
| `PacketProcessor` | one proxy process: poll loop, received-buffer queue, timers' flags, both directions | PacketProcessor.cpp, ARMOREProxy.cpp |
| `ZeroMQServer` | the middleware of a server: pool, client table, send queue | ZeroMQServer.cpp |
| `Channel` | what the middleware promises for one direction (abstract) | - |
| `ProxyNetwork` | a server, its clients, the hosts of each; composes `MacTranslation` per node | PacketProcessor.cpp, ZeroMQClient.cpp, ZeroMQServer.cpp |
| `Timer`, `SynchronizedOperation` | the classes of these names | Timer.cpp, SynchronizedOperation.cpp |
| `TrafficStats` | collector for Modbus and DNP3, and counter | stats_col*.bro, stats_count.bro |
| `AnomalyDetection` | normal tree, scores, reports | anomaly_detect.bro |
| `IdentityRecognition` | request table, match, identities | id_recog.bro |
| `BroNode` | composes the three: the events they raise for one another | the scripts together |
| `PolicyEnforcement` | policies, firewall, cron file and daemon | policy.py, ipfw.py |
| `OperatingMode` | changes of mode, the service script, restarts | config.py, the init script |
| `PolicyForm` | the form, and what the server makes of it | addPolicy.html, armore.js, policy.py |
| `GraphView` | the graph pages and their requests | visualization.js, visualization_graph.js, visualization.py |
| `WebPages` | composes the two pages: a browser shows one of them | - |
| `PacketProcessorProofs`, `ZeroMQServerProofs`, `ProxyNetworkProofs`, `ThreadingProofs`, `BroNodeProofs`, `PolicyEnforcementProofs`, `OperatingModeProofs`, `WebPagesProofs` | theorems (`ThreadingProofs`: `Timer` and `SynchronizedOperation`) | - |
| `Positions` | what a filter keeps of a list, in terms of positions, so that it can be reasoned about | - |
| `MC...` | constants of the runs | - |

A definition whose name has a suffix (`SwapSendBuffers_Unlocks`) and whose comment
begins "Faulty variant" is not part of any specification: it is the definition of
that name with a plausible mistake in it, which a property must notice.

### MacTranslation and PacketProcessor

A frame is a record of the fields the code reads or rewrites; addresses, MACs and
connections are model values. `IPAddress::IsValid` and `IsMulticast` are the
constant sets `ValidIPs` and `MulticastIPs`. The time of last access that the
tables keep is modelled by the seconds passed since, saturated one past the
timeout, which is all the comparison in the code can tell apart. Each of
`UpdateIPTable`, `TryIPTableLookup`, `ProcessARPPacket`, `Translate` (the common
part of the IPv4 and IPv6 functions), `ProcessNDPPacket`, `EncodePacket` and
`DecodePacket` is the function of that name, with the order of the calls kept:
in particular the source MAC is replaced before it is learned, and a reply or a
lookup refreshes the entry it finds. Two fields are there for what the code does
not do. `lla` holds the addresses in the link-layer address options of an NDP
message, which are passed on as they came. A frame whose `op` is `"cut"` is an IPv6
packet that ends inside the extension, ICMPv6 or advertisement header it announces:
it is dropped, whether its host is known or not.

`PacketProcessor` puts threads around them. The main thread goes through `pc`:
`ArmPoll` decides whether to ask for POLLOUT (from `m_queuedBufferCount`),
`PollReady` waits for the two descriptors, `EncodeNext`/`EncodeDone` are the loop
of EncodePackets and the sweeps at its end, `DecodeBegin` is the swap of the
queue under its lock with the read of the descriptor, `DecodeNext` one buffer,
`DecodeDone` the end. A middleware thread does `QueueReceivedBuffer` at any time;
the timers set their flags at any time, or never. `lan` and `mw` show what the last step
handed to the interface and the middleware. `m_queuedBufferCount` counts modulo
`CountWidth` and starts with any member of `InitialCounts`, since the code does
not initialize it.

### ZeroMQServer and Channel

Each worker is a thread of the pool, its `pc` one place in SocketPollHandler or in
a function it calls. A critical section is one step unless another thread can
act meanwhile: sending to all holds the clients' lock across several
acquisitions of the send lock, and a worker keeps the send lock from the swap to
the read of the descriptor. A message is handed to the processor in one step and
its sender entered in the table in another, and so is a buffer that is sent and
its receiver; `poll` may report a message and the descriptor together. The router
proxy of ZeroMQ may give a message to any worker.

`Channel` is the abstract promise, a message posted for an end arrives there
once, and in order while there is one end; `ZeroMQServer` is checked to implement
it twice, to its clients and from them, under refinement mappings that read the
numbers pending in the queues and working sets of all workers.

### ProxyNetwork

One table pair per node, one queue each for captured frames, for messages of a
client to the server (`up`) and of the server to a client (`down`). A client's
connection ID is its name and the number of its run; the server's client table
is entered with the first message, and messages to all go to its members only.
Because the server hands a message over before it enters the sender, the frames
that message causes are distributed by the table before or after: both occur.
`Restart` empties a client's process and gives it a new ID; `Expire` and
`ExpireClient` remove one entry at any moment, which is an abstraction of every
order of the timeouts. Hosts answer ARP requests for their address and repeat
the frames of `Traffic`. IPv4 only.

### Timer, SynchronizedOperation

Every read and write of a shared field is a step, and a compare-and-swap is one
step. `Timer` has the threads left over by earlier calls of Change: a deleted
Thread object does not cancel its thread. A thread that looks at the flag before it
is set ends; one whose read has returned (`Read`) begins its callback in a step of
its own (`BeginCallback`), and Stop may return in between. In `SynchronizedOperation` the variable
`owed` holds the callers whose request no later execution has begun for.

### TrafficStats, AnomalyDetection, IdentityRecognition, BroNode

The event queue of Bro is explicit. `items` is the heap of the records `g_info`
has referred to, so that an event that carries a reference sees what the record
holds when it is handled. Counts are keyed by the path of a node in the tree
(sender, receiver, protocol, unit, function, target). The handlers of the
individual Modbus functions differ in the fields they read and are one action for
requests and one for responses; those of DNP3 are the header block, the
application headers, the object header, which fixes where a target comes from,
and the object prefix.

The normal tree keeps mean and squared deviation as exact fractions; the code
computes them by Welford's recurrence in doubles, and the recurrence is what the
module has. Where the code asks for a missing field and a `when` statement waits
for it, a zero is put at most once and possibly on a copy of the frame: the
choice `kept`. `BroNode` adds the events between the scripts: the collector raises
`item_gen` for the identities, the counter raises `process_finish` for the
detection when no other event is left.

### PolicyEnforcement

A request empties the file (`Rewrite`), writes it, flushes the firewall, and then
takes one policy per step; the cron daemon runs jobs of the file that is there at
each moment, in any order, between any two of those steps. `Starts` and `Stops`
are what parseTime and createCronJob make of days and rows: a row from 00:00 goes
on from the day before, one to 23:59 stops on the day after. `Raises` names the
times that end the request with an exception. `intact` and `settled` are history:
whether something disturbed the rules, and how long ago the request was.

### OperatingMode

`todo` is what the request being served has still to do, a list of files and
calls of the service script; each file is opened, which empties it, and written
in a second step. The script reads the *backend file* whenever it runs, and a
process told to quit may take its time. A kill or a reboot in any of these steps
starts the web server again with a synchronization.

### PolicyForm, GraphView, WebPages

`PolicyForm` has the boxes of the days, the groups of boxes that check one
another, and the rows with the *numbers* in the names of their fields, which
armore.js takes from a count of nodes and by which policy.py pairs a start with a
stop. `GraphView` has every request of the page in flight, to be answered in any
order or lost, and nodes named by their place in the graph that is drawn. A log may
be without devices: its answer is reported and neither draws nor clears anything.
The bars of the anomalies page have dates of their own, with a log or without one.
A graph is drawn in a callback of d3.json, outside Angular's digest, so for up to a
second the user sees the list of filters of the graph before (`old`, until `Digest`
or any action that ends with one): a click in it brings an id of the old list to
handlers that look it up among the new options. A comparison tells links apart by
their first protocol and function, where the code also compares the ends.

## The runs

Numbers of distinct states are those TLC reports.

| Run (module) | Bounds | Shows |
|---|---|---|
| `pp_server` (MCPacketProcessor) | permissive opaque server, two clients, five addresses, queue and ring of one; 486 thousand states | tables keep their type and stay disjoint (`PendingOnlyUnknown`), Ethernet and ARP headers hide remote hosts (`RemoteHostsMasked`), no whole packet is dropped without a request (`UnresolvedIsAskedOnce`), for IPv4, ARP, IPv6, NDP, multicast and broadcast frames, with address options and cut off |
| `pp_client` (MCPacketProcessor) | opaque client, queue of two, a count modulo four that starts anywhere, fair; 16 thousand | the descriptor matches the queue in every interleaving of the middleware thread; from the first decode cycle on so does the count, and every buffer is decoded; unanswered requests expire while the local network keeps sending and the timer keeps calling back |
| `zs_pool` (MCZeroMQServer) | two clients that send three messages together, two calls of SendBuffer, four of these at most, one worker or two, fair; 254 thousand | descriptor and queue match, the pool matches the clients, a message to all reaches all, both directions implement `Channel`, and what is queued is sent |
| `so_races` (MCSynchronizedOperation) | two callers, two threads, fair | one execution at a time, no request lost, every request followed by an execution |
| `tm_stop` (Timer) | two calls of Change, either initial flag; 428 states | no thread is woken to call back once Stop has returned |
| `net_segmented` (MCProxyNetwork) | a server without `-p`, two clients, a host each; one fault (restart or expiry), two frames in transit when a host sends; fair; 9 thousand | entries are true, packets carry the MAC of the host they are for, clients stay apart, and traffic gets through again and again |
| `bro_stats` (MCBroNode) | one connection, four packets of none, one or two messages, Modbus and DNP3, three periods of which two are training; 2.1 million | the levels of the tree agree, no request is answered twice, every packet is logged, identities are earned, the normal tree is the mean and deviation of the training, a repetition is quiet, new and vanished branches are reported |
| `policies` (MCPolicyEnforcement) | two policies, two moments to a day, seven kinds of times, three requests, one kill or restart; 1.4 million | exact enforcement after a week, all-day policies at once, no block without an end |
| `modes` (MCOperatingMode) | two settings, three changes, two failures | copies agree and a proxy that runs is not stale |
| `modes_passive` (MCOperatingMode) | one change | *violated*: a node changed to passive mode goes on running its proxy |
| `web_pages` (MCWebPages) | two policies, two forms of four edits; three dates, of which one has no devices, two bars, of which one has no log, two hosts, one of each of select, dialog and failure, three clicks; 2.5 million | a policy is saved as shown and survives an edit; the settled graph is the selected one if that can be drawn, filters fit the graph and a click in the list of an earlier one leaves them, labels are stored for their host |
| `form_rows` (MCPolicyForm) | one form, two edits | *violated*: a row the form shows is not saved |

Why the bounds are enough. The interleavings in question are between one adder and
one taker of a queue, so two waiting buffers and two workers show a lost, doubled
or stolen wake-up; two clients are the least with which a broadcast, an expiry
during one, and reordering can occur; two callers and two threads reach every pair
of places in SynchronizedOperation. A timeout of one second has the three cases
the code tells apart (fresh, at the limit, past it). One fault in
`net_segmented` suffices for each kind of stale entry. In `bro_stats` a request, a
second one before the answer, the answer and a repeated answer need four packets;
two periods of training are the least with a deviation, and the third is the one
that is compared. With two moments to a day a row can start at 00:00, end at
23:59, do both, or neither of them for one of its ends; three requests make a
policy, change or delete it, and renumber the others. Three changes of mode go
away from proxy mode and come back with other settings. In `web_pages` the second
form opens what the first has saved, and a page load has two answers that draw, one
of which may be for the log without devices. In `pp_client` the count may start at
every value modulo `CountWidth`, among them those that wrap to zero over a queue
before the first decode cycle. The limit `MaxThreadPoolSize` is not reached in
`zs_pool`; `PoolCorrect` covers it.

`CHECK_DEADLOCK FALSE` is set where the bounded supply ends: calls of Change
(`tm_stop`), packets and periods (`bro_stats`), forms and clicks (`web_pages`,
`form_rows`).

## Fairness

* `PacketProcessor`: weak fairness of the main thread and the clock: the loop never
  returns while the process runs, and `time` advances. None of the timers, since a
  timer's thread may have ended before it began (item 5 below): that the timer goes
  on setting its flag is a premise of `RequestsExpireUnderTraffic`. Strong
  fairness of `PollReady(TRUE)` says that an interface asked for writing again and
  again is writable at some time, and of `EncodeDone` that the interface is empty
  at some of the moments EncodePackets looks. The second is about the
  environment: nothing in the code bounds that loop.
* `ZeroMQServer`: weak fairness of every worker; strong fairness where a worker
  or the main thread waits for a spin lock, which others hold for a bounded time.
  The *try*-lock of the send queue is included: a worker that fails goes back to
  poll, where the descriptor is still readable, and it is taken to succeed at some
  of the attempts it makes when the lock is free. A main thread that held the lock
  at exactly every attempt would have to keep in step with the worker for ever.
* `ProxyNetwork`: weak fairness of every node; strong fairness of hosts that have
  something to say, since sending waits for room in transit, which is a bound of
  the model.
* `SynchronizedOperation`: threads run. Nothing is assumed of new calls.
* The other specifications state none; their properties are about steps and
  states.

## What is proved

All theorems hold for every value of the constants that satisfies the named
assumptions of the module; TLC evaluates those assumptions for the runs. Each
safety invariant and action property a passing run checks is stated by a theorem.

The properties are seldom inductive. Each proof module begins with the
strengthening it needs, has a lemma for every action that shows the action keeps
it, and ends with the theorems.

### The proxy

`PacketProcessorProofs`, for every set of addresses, every node (server or client,
opaque or transparent, permissive or not), all timeouts and bounds:

* `TypeCorrect`, `PendingIsUnknown`, `RemoteHostsStayMasked`, `WakeupsMatch`: the
  safety invariants of `pp_server` and `pp_client`;
* `QueuedCounted`: the buffer count, from the first decode cycle on and whatever it
  held before, if fewer buffers are queued than it can count. The condition is in
  the statement, since nothing bounds the queue in the code;
* `UnresolvedAskedOnce`: the action property, for packets whose headers are whole, from the same invariant and from
  lemmas that follow each Process... function to the verdict it returns.

`IInv` adds that the tables are `Good` (typed, disjoint, and in opaque operation
an entry with a connection has the node's own MAC), that the frames of the last
step were masked, that the descriptor's count *is* the length of the queue, that
the injection queue is empty, and that the main thread is in the outgoing state
while it decodes. The last is what keeps InjectPacket from ever using the
injection queue. Lemmas take `Good` through UpdateIPTable and the lookups, through
each verdict, through EncodePacket and DecodePacket; then there is one lemma or
step per action.

`ZeroMQServerProofs`, for any number of clients, workers, messages and calls:
`TypeCorrect`, `DescriptorCorrect`, `PoolCorrect` and the action property
`BroadcastCorrect`. The strengthening has four parts. `WorkerOK`: what a worker
holds at each place, and that it is between the swap and the read exactly when it
holds the send lock. `HolderOK` and `FreeOK`: while the lock is held the queue is
empty and the descriptor announces what the holder took; otherwise it announces
the queue. `TurnsOK`: while the main thread goes through the clients, each of them
still has its turn or has the buffer on its way or delivered. The pool's part
rests on the cardinalities of a table and a pool that grow together.

The refinements: `OutgoingCorrect` and `IncomingCorrect` show that every behaviour
of the proxy is one of `Channel`, to its clients and from them. `ChannelInv` says
that a buffer for a client is with one worker at most, that those in a working set
or the queue are in the order of the calls, the working sets before the queue, and
that the first worker does everything as long as one client is known. A step that
moves numbers between places is a stutter of the channel; handing one over is its
delivery. The order is promised for a single client only: with two the pool has
two workers, and either may be the first to send what it swapped.

`ProxyNetworkProofs`, for every set of nodes, hosts and addresses, every traffic
and all bounds: `TypeCorrect`, `ServerRoutesStayTrue`, and, without `-p`,
`RoutesStayTrue`, `HostsTakeTheirPackets` and `ClientsStaySegmented`. The
invariant says of every place a frame can be in whose frame it is: in the ring of
a node, of a host of its network under its own MAC (`NetworkAssumption` has hosts
send so); in transit from a client, of a host of that client, under one of its
connection IDs; in transit from a server without `-p`, of a host of the server.
What a table learns from such a frame is true. With `-p` two of these fail for a
good reason, an echoed ARP request (item 6 below), and the statements have
`~Permissive` where they need it (`ClientsAreSegmented` has it inside, since `-p`
is the permission); the server's own table is true in either case.

`ThreadingProofs`, for any number of callers and threads: `Exclusion`,
`RequestsKept` and `PendingIsTakenByRunner` of `SynchronizedOperation`. The invariant ties `m_state` to the threads: it is
NotRunning exactly when no thread is between a successful compare-and-swap and the
end of its execution, there is never more than one such thread, and a request that
is owed has a pending mark, an execution about to begin, or its caller still on
the way. `StopCorrect` of `Timer`, for any number of calls of Change: it is the
descriptor and not the flag that makes Stop effective, since from the moment it is
cleared nothing expires until the timer is armed again. No thread is woken then;
one that was woken before may still begin its callback, once.

### The Bro scripts

`BroNodeProofs`, for any hosts, connections, functions and pairs of identities,
and any number of packets, messages to a packet, objects to a message, and
periods:

* `NodeInvariant` is the invariant the others rest on. Its parts are the shape of
  the queue (the events of a packet come after its `new_packet`; within a DNP3
  message the header block, the application header, then the objects, so that
  there is an item with the addresses when a function is set and a target when an
  object is counted), the types of the tables, and `Closed`: whatever path is
  counted, or will be by an event in the queue, has its parent counted or to be
  counted by an earlier event;
* `WholeTreeCorrect`: every node of the tree that a period ends with has its
  parent, so that no lookup of process_result fails;
* `LevelsAgreeCorrect`: the counts of the levels agree. A packet, a message and a
  target are counted by separate events, and a message before its targets.
  `Levels` says that what is counted for a packet or a message is counted one
  level below, at every moment; `Targeted` that targets counted, with the events
  in the queue that will count one, are at most the messages counted, with those
  in the queue. The sums are counted over sets with a lemma for each way a sum
  changes, since the fold that defines them takes the elements in an order that
  CHOOSE picks;
* `AnsweredOnceCorrect`: a request remembered and not yet answered is a credit,
  one more request logged than answered, at the path of the request. It survives
  the end of a period, after which the answer is counted in a later one;
* `EveryPacketLoggedCorrect`: a record that is neither logged nor on its way to be
  is that of the latest packet or a response to no request seen, and the records
  that are logged or on their way are in the order of the packets;
* `IdentitiesEarnedCorrect`: what a remembered request and a match stand for has
  been counted, and what was counted is published, so the log shows it;
* `RepeatIsQuietCorrect` and `BranchesReportedCorrect`: what the detection reports.
  `Learned` says what the normal tree is: during the training its nodes are those
  of the periods so far and its queues have what the periods gave (`Gathered`);
  afterwards it is the average of such a tree. Over equal values the recurrence
  keeps a mean that equals them, without deviation (`SteadyAverage`), so equal
  values are not outside, and zero is (`SameIsInside`, `ZeroScores`). Published
  trees have the parent of every node, by `WholeTree`, so on the way down a branch
  exactly one node is new (`OneOnTheWay`). `Told` says of every period since the
  training what has been logged of it, which later periods do not change;
* `BaselineIsTrainingCorrect`: the averages, taken one value at a time over a queue
  that may miss zeros, are the mean and the variance of the training by their
  definitions. The invariant is what `Gathered` says of a queue (`NumTotals`,
  `RatioTotals`): whatever whole numbers stand for the values of the periods over a
  common denominator (`CommonDenominator`; zeros where the node was absent), what
  Welford's recurrence has of the queue is what their sum and the sum of their
  squares say (`Totals`). A zero that is put, one that a copy of the frame swallows
  and those that pad the queue keep it (`TotalsPadded`), since zeros change no sum;
  that is why the order of the queue does not matter. `WelfordStats` is the step
  of the recurrence, `FoldSums` the sum of fractions over a set, in whichever order
  the fold takes it, and `Deviations` the squares of the distances from the mean.

The assumptions are about packets, not about the scripts. `OriginAssumption`: on
one connection one host asks and the other one answers, as `is_orig` of
stats_col_modbus.bro:61 has it. `ProtocolAssumption`: Bro has one analyzer for a
connection, so a packet does not mix Modbus with DNP3; a packet that did would
count targets of one protocol under messages of the other, and `LevelsAgree` would
fail. `NodeAssumption` identifies the two names for an absent function.

### The web server

`PolicyEnforcementProofs`, for any policies, times and number of moments to a day:

* `BlocksEndCorrect`, since a row that can be read back has a day on which it
  stops;
* `AllDayAtOnceCorrect`: numbers of rules and jobs stay below the next number,
  each number is one policy's, and no job ends the rule of an all-day policy;
* `ExactEnforcementCorrect`: a week after an undisturbed request the rules are
  what the active policies say. The jobs of a policy are those of its line in the
  file. From its first job on, the rule of a number follows `Covers`: a moment at
  which a job starts is covered (`StartsCover`), one at which a job stops is not
  (`StopsUncover`), and between two moments without a job coverage does not change
  (`CoveredStarts`, `CoversOn`). Each number has a job within a week.

`OperatingModeProofs`, for any settings and any number of changes, kills and
reboots: `CopiesCorrect` and `ProxyCorrect`. What a request has still to do tells
which files already hold its configuration (`RequestOK`); a synchronization after
a failure starts from what the backend file says, whatever the others hold.

`WebPagesProofs`, for any policies, edits, dates, hosts and order of the answers:
`SavedAsShownCorrect`, `EditKeepsPolicyCorrect`, `SettledShowsSelectedCorrect`,
`FilterFitsGraphCorrect`, `StoredForTheHostCorrect` and the type of the graph. The
form's part relates the boxes that stand for groups of days to the days, and each
saved row to a row of the form by its number. For the graph, `Settling` says that,
while no answer was lost or overtaken and the selection can be drawn, the last
awaited answer that draws is of the selection, and so is the graph when none is
awaited; requests for logs that cannot be drawn do not count. `SelectInv` says which
selections a page can have. `FreshInv` says that a list of filters the user does not
see yet is all checked, with labels, so that the handlers of a click in the earlier
one find nothing to add or to remove (`OldClickOK`).

### What is only model-checked

* The properties that the code violates (`modes_passive`, `form_rows`).
* All liveness, which is out of the prover's reach: `pp_client`, `zs_pool`,
  `so_races` and `net_segmented`. The refinements of `Channel` are proved for
  `Spec` and checked for `FairSpec`, which adds fairness only.

The prover has no induction rule that these modules can use. Where a proof needs
one over a sequence or a set (what a filter keeps, what a fold adds up) it takes a
least counterexample of a well-founded order instead. Definitions that are
reasoned about that way are written with positions (`Positions`) or with the folds
of the community modules, without RECURSIVE.

## Where the code and its documentation disagree

Shown by a run:

1. *Passive mode runs the proxy* (`modes_passive`). The backend file is written
   before the service script reads it to know what to stop.
2. *A row of the form is lost* (`form_rows`). A new row takes its number from a
   count of nodes that a comment gives as six and the page has as three and two
   more for each row.

Met while modelling, and kept out of the properties:

3. Requests expire only under traffic: the sweep is at the end of EncodePackets
   (PacketProcessor.cpp:154), so `-a` has no effect while the local network is
   silent. `RequestsExpireUnderTraffic` states what does hold.
4. The branch for an unknown destination that a comment describes
   (PacketProcessor.cpp:743) cannot run: SendPacket always succeeds.
5. A timer may never fire: Change starts the thread before it sets the flag the
   thread looks at (Timer.cpp:97), and nothing initializes the flag. A callback may
   begin after Stop has returned, if the thread's read returned before
   (Timer.cpp:124).
6. A permissive server sends an ARP request back to the client it came from
   (PacketProcessor.cpp:343), which then learns its own host as remote.
   `net_segmented` is therefore without `-p`.
7. The form's "Weekday" is not the "weekdays" parseTime knows: the request ends
   with an exception after the firewall was flushed. So does a daily row that ends
   at 23:59. Rows from 00:00 that end before 23:59 on consecutive days are merged
   wrongly. `WellTimed` names the times that are enforced as they read.
8. The cron file is not cleared when the last timed policy goes, so that its jobs
   go on (`Fresh`); a restart of the firewall process loses all rules (`intact`).
9. Editing a policy that was deleted meanwhile creates it again.
10. A kill between opening and writing the backend file loses the mode for good,
    and the interfaces file is not restored by a synchronization: `CopiesAgree`
    excepts both. `updateConfig` always returns False.
11. An edit loses a period whose start is that of one other and whose stop that of
    another; removing a row and adding one gives two rows one number.
12. A page load has two graph requests in flight at once, and the graph of an
    earlier selection may be drawn over a later one; "Check All" and "Uncheck All"
    both hide the first protocol only; renaming a host to its own name keeps the
    label; a graph redrawn under an open dialog changes the text of another host. The
    handlers of the filter list fail at the first host, whose label is no text, so a
    protocol is checked or unchecked without its functions.
13. All objects of a DNP3 packet are counted under the target of the last; in the
    detection, a node below a missing parent is neither scored nor reported.
14. Opaque operation hides remote hosts in the Ethernet and ARP headers only: the
    link-layer address options of NDP messages carry their MACs to the local network
    (PacketProcessor.cpp:628-655), and a host that takes its peer's address from
    there gets one that no frame to it should have.
15. Nothing initializes `m_queuedBufferCount` (PacketProcessor.cpp:120). If it wraps
    to zero over a queued buffer before the first decode cycle, that cycle does not
    come until another buffer is queued: `QueuedIsCounted` and `BuffersAreDecoded`
    speak of the time after it.
16. A log without devices leaves the graph drawn before it, under the date selected
    since (visualization_graph.js:141). A click in a list of filters that was not
    renewed yet hides or shows links of another graph, or fails
    (visualization.js:763, :808).
17. Three slips that change no property: a list of times without rows raises
    (ipfw.py:96), which the form does not send; Daily and Weekend are both saved for
    a whole week (policy.py:147); the change of mode looks up "RoleType" in a copy
    that has "Roletype" (config.py:220).

## Not modelled, and why

* Shutdown: Dispose of the engines while their threads run and the order of
  deletions in `main`. It frees state that running threads use, which is undefined
  behaviour: a model would only say that anything may happen.
* Transparent operation is in `MacTranslation` and in the theorems, but no run
  instantiates it. Hosts that move from one network to another; exceptions;
  allocation failures.
* Bro: bytes, delays, keyed averages (floating point that no property is about;
  the detection treats them as it does the number and the ratio), the adaptive
  interval (periods end at any time in the model), lower levels of statistics,
  `feedback`, which nothing calls, policy logging. A Modbus message is given one
  target at most, where two of the functions raise an event for each of their
  records (stats_col_modbus.bro:639, :705).
* Web server: accounts and sessions; initialization, keys and passwords; the tree
  beside the graph, the menu of a node, the display of labels, the options of targets
  in the list of filters; "Any Time" in a
  form opened with several rows; logs, statistics and tables, which only read.
* Capture engines, loggers, certificates, packaging and bypass driver: input and
  output, cryptography, scripts that run once.
* Vendored code. Nearly all JavaScript in the repository is third-party
  (AngularJS, D3, ip-address, javascriptrrd, Bootstrap); ARMORE's own scripts,
  armore.js and visualization*.js, are 2500 lines, of which the form and
  the graph are modelled. The map therefore covers a small part of the JavaScript,
  whatever is added.

## Plan

Done: the modules and runs above, in this order: packet processor, middleware,
helpers, network, statistics, the rest of the Bro scripts, policies, modes, pages;
then the proofs of all of them.

What is left, in the order of what it would show:

1. an abstract network (an Ethernet switch with hidden MACs) that `ProxyNetwork`
   is shown to implement for resolved hosts
2. a run of transparent operation
