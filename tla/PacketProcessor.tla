--------------------------- MODULE PacketProcessor ---------------------------
(***************************************************************************)
(* One ARMORE proxy process without its middleware: the poll loop of       *)
(* main() (ARMOREProxy.cpp), the PacketProcessor it drives, the middleware *)
(* threads that queue received buffers, and the two timers that ask for    *)
(* the expiry of the tables.                                               *)
(*                                                                         *)
(* The main thread runs the actions from ArmPoll to DecodeDone, one after  *)
(* another as "pc" says; a middleware thread runs QueueReceivedBuffer at   *)
(* any moment (the received buffers' spin lock makes it atomic, and makes  *)
(* the swap of DecodeBegin atomic); the timer threads only set a flag.     *)
(* Frames handed to the local interface and to the middleware appear in    *)
(* "lan" and "mw" for the step that hands them over.                       *)
(***************************************************************************)
EXTENDS MacTranslation

CONSTANTS
  ThisNode,             \* the node: interface MAC and options
  InactiveIPTimeout,    \* -t, seconds
  MacResolutionTimeout, \* -a, seconds
  Captured,             \* <<frame>>s the local network may send
  Received,             \* [conn, frame] pairs the middleware may deliver
  CountWidth,           \* m_queuedBufferCount counts modulo this
  InitialCounts,        \* what that uninitialized field may hold at first
  MaxRing,              \* bound: frames waiting in the capture ring
  MaxQueue              \* bound: buffers waiting to be decoded

ASSUME ProcessorAssumption ==
  /\ ThisNode \in Node
  /\ ThisNode.permissive => ThisNode.server       \* ARMOREProxy.cpp:272
  /\ InactiveIPTimeout \in Nat \ {0}
  /\ MacResolutionTimeout \in Nat \ {0}
  /\ Captured \subseteq Frame
  /\ Received \subseteq [conn : Conns, frame : Frame]
  /\ CountWidth \in Nat \ {0}
  /\ InitialCounts \subseteq 0 .. CountWidth - 1
  /\ MaxRing \in Nat
  /\ MaxQueue \in Nat

VARIABLES
  st,              \* m_ipTable and m_pendingIPMacRequests
  checkIPActivity, checkPendingIPMacRequests,   \* flags set by the timers
  receivedBuffers, \* m_receivedBuffers
  queuedBufferCount,
  eventfd,         \* counter of m_fileDescriptor
  injectionQueue,
  processingState,
  workingBuffers,  \* the buffers DecodePackets took and has yet to process
  ring,            \* frames waiting on the captured interface
  pc,              \* where the main thread is
  pollOut,         \* whether POLLOUT was asked of poll() ...
  decodeNext,      \* ... and whether poll() reported it
  lan, mw          \* frames handed over by the last step

tables   == << st, checkIPActivity, checkPendingIPMacRequests >>
queue    == << receivedBuffers, queuedBufferCount, eventfd >>
pollVars == << pollOut, decodeNext >>
output   == << lan, mw >>
vars == << tables, queue, injectionQueue, processingState, workingBuffers, ring,
           pc, pollVars, output >>

Silent == lan' = << >> /\ mw' = << >>

Init ==
  /\ st = [table |-> NoEntries, pending |-> NoEntries]
  /\ checkIPActivity = FALSE
  /\ checkPendingIPMacRequests = FALSE
  /\ receivedBuffers = << >>
  /\ queuedBufferCount \in InitialCounts
  /\ eventfd = 0
  /\ injectionQueue = << >>
  /\ processingState = "none"
  /\ workingBuffers = << >>
  /\ ring = << >>
  /\ pc = "arm"
  /\ pollOut = FALSE
  /\ decodeNext = FALSE
  /\ lan = << >> /\ mw = << >>

-----------------------------------------------------------------------------
(* Other threads and the environment *)

\* Faulty variant: the buffer is queued without being counted.
QueueReceivedBuffer_Uncounted(buffer) ==
  /\ Len(receivedBuffers) < MaxQueue
  /\ receivedBuffers' = Append(receivedBuffers, buffer)
  /\ eventfd' = eventfd + 1
  /\ Silent
  /\ UNCHANGED << tables, queuedBufferCount, injectionQueue, processingState, workingBuffers,
                  ring, pc, pollVars >>

\* A middleware thread delivers a buffer.
QueueReceivedBuffer(buffer) ==
  /\ Len(receivedBuffers) < MaxQueue
  /\ receivedBuffers' = Append(receivedBuffers, buffer)
  /\ queuedBufferCount' = (queuedBufferCount + 1) % CountWidth
  /\ eventfd' = eventfd + 1
  /\ Silent
  /\ UNCHANGED << tables, injectionQueue, processingState, workingBuffers, ring, pc, pollVars >>

\* A frame of the local network reaches the captured interface.
Capture(f) ==
  /\ Len(ring) < MaxRing
  /\ ring' = Append(ring, f)
  /\ Silent
  /\ UNCHANGED << tables, queue, injectionQueue, processingState, workingBuffers, pc, pollVars >>

IPActivityTimerElapsed ==
  /\ checkIPActivity' = TRUE
  /\ Silent
  /\ UNCHANGED << st, checkPendingIPMacRequests, queue, injectionQueue, processingState,
                  workingBuffers, ring, pc, pollVars >>

PendingIPMacRequestsTimerElapsed ==
  /\ checkPendingIPMacRequests' = TRUE
  /\ Silent
  /\ UNCHANGED << st, checkIPActivity, queue, injectionQueue, processingState,
                  workingBuffers, ring, pc, pollVars >>

Tick ==
  /\ st' = Age(st, InactiveIPTimeout, MacResolutionTimeout)
  /\ Silent
  /\ UNCHANGED << checkIPActivity, checkPendingIPMacRequests, queue, injectionQueue,
                  processingState, workingBuffers, ring, pc, pollVars >>

-----------------------------------------------------------------------------
(* The main thread *)

\* Head of the loop: POLLOUT is asked for when buffers are counted.
ArmPoll ==
  /\ pc = "arm"
  /\ pollOut' = (queuedBufferCount # 0)
  /\ pc' = "poll"
  /\ Silent
  /\ UNCHANGED << tables, queue, injectionQueue, processingState, workingBuffers, ring, decodeNext >>

\* poll() returns because the captured interface is readable, or writable and
\* POLLOUT was asked for ...
PollReady(writable) ==
  /\ pc = "poll"
  /\ ring # << >> \/ writable
  /\ writable => pollOut
  /\ decodeNext' = writable
  /\ pc' = IF ring # << >> THEN "encode" ELSE "decode"
  /\ Silent
  /\ UNCHANGED << tables, queue, injectionQueue, processingState, workingBuffers, ring, pollOut >>

\* ... or for nothing but the processor's descriptor or after 250 ms.
PollNothing ==
  /\ pc = "poll"
  /\ ring = << >>
  /\ pc' = "arm"
  /\ Silent
  /\ UNCHANGED << tables, queue, injectionQueue, processingState, workingBuffers, ring, pollVars >>

\* EncodePackets reads the interface until it has no more frames ...
EncodeNext ==
  /\ pc = "encode"
  /\ ring # << >>
  /\ LET e == EncodePacket(ThisNode, st, Head(ring))
     IN  /\ st' = e.st
         /\ mw' = e.mw
         /\ lan' = << >>
  /\ ring' = Tail(ring)
  /\ processingState' = "incoming"
  /\ UNCHANGED << checkIPActivity, checkPendingIPMacRequests, queue, injectionQueue,
                  workingBuffers, pc, pollVars >>

\* ... and only then looks at the flags of the timers.
EncodeDone ==
  /\ pc = "encode"
  /\ ring = << >>
  /\ LET swept == IF checkIPActivity THEN CheckActiveIPAddresses(st, InactiveIPTimeout) ELSE st
     IN  st' = IF checkPendingIPMacRequests
               THEN CheckPendingIPMacRequests(swept, MacResolutionTimeout) ELSE swept
  /\ checkIPActivity' = FALSE
  /\ checkPendingIPMacRequests' = FALSE
  /\ processingState' = "incoming"
  /\ pc' = IF decodeNext THEN "decode" ELSE "arm"
  /\ Silent
  /\ UNCHANGED << queue, injectionQueue, workingBuffers, ring, pollVars >>

\* Faulty variant: the descriptor is not read.
DecodeBegin_DescriptorKept ==
  /\ pc = "decode"
  /\ processingState' = "outgoing"
  /\ lan' = injectionQueue
  /\ mw' = << >>
  /\ injectionQueue' = << >>
  /\ workingBuffers' = receivedBuffers
  /\ receivedBuffers' = << >>
  /\ queuedBufferCount' = 0
  /\ pc' = "decoding"
  /\ UNCHANGED << tables, eventfd, ring, pollVars >>

\* DecodePackets injects what was queued for injection, then takes every
\* received buffer under the lock.  The descriptor is read only when there was
\* one: reading a zero counter would block.
DecodeBegin ==
  /\ pc = "decode"
  /\ processingState' = "outgoing"
  /\ lan' = injectionQueue
  /\ mw' = << >>
  /\ injectionQueue' = << >>
  /\ workingBuffers' = receivedBuffers
  /\ receivedBuffers' = << >>
  /\ queuedBufferCount' = 0
  /\ eventfd' = IF receivedBuffers # << >> THEN 0 ELSE eventfd
  /\ pc' = "decoding"
  /\ UNCHANGED << tables, ring, pollVars >>

\* InjectPacket drops the frames onto the interface while packets are going
\* out, and queues them otherwise.
InjectPacket(frames) ==
  IF processingState = "outgoing"
  THEN /\ lan' = frames
       /\ UNCHANGED << injectionQueue, queuedBufferCount, eventfd >>
  ELSE /\ lan' = << >>
       /\ injectionQueue' = injectionQueue \o frames
       /\ queuedBufferCount' = (queuedBufferCount + Len(frames)) % CountWidth
       /\ eventfd' = eventfd + Len(frames)

DecodeNext ==
  /\ pc = "decoding"
  /\ workingBuffers # << >>
  /\ LET buffer == Head(workingBuffers)
         d == DecodePacket(ThisNode, st, buffer.conn, buffer.frame)
     IN  /\ st' = d.st
         /\ mw' = d.mw
         /\ InjectPacket(d.lan)
  /\ workingBuffers' = Tail(workingBuffers)
  /\ UNCHANGED << checkIPActivity, checkPendingIPMacRequests, receivedBuffers,
                  processingState, ring, pc, pollVars >>

\* Faulty variant: the count is reset when the buffers have been processed, not
\* under the lock when they are taken.
DecodeDone_ResetsCount ==
  /\ pc = "decoding"
  /\ workingBuffers = << >>
  /\ queuedBufferCount' = 0
  /\ pc' = "arm"
  /\ Silent
  /\ UNCHANGED << tables, receivedBuffers, eventfd, injectionQueue, processingState,
                  workingBuffers, ring, pollVars >>

DecodeDone ==
  /\ pc = "decoding"
  /\ workingBuffers = << >>
  /\ pc' = "arm"
  /\ Silent
  /\ UNCHANGED << tables, queue, injectionQueue, processingState, workingBuffers, ring, pollVars >>

MainThread ==
  \/ ArmPoll
  \/ \E writable \in BOOLEAN : PollReady(writable)
  \/ PollNothing
  \/ EncodeNext \/ EncodeDone
  \/ DecodeBegin \/ DecodeNext \/ DecodeDone

Next ==
  \/ \E buffer \in Received : QueueReceivedBuffer(buffer)
  \/ \E f \in Captured : Capture(f)
  \/ IPActivityTimerElapsed
  \/ PendingIPMacRequestsTimerElapsed
  \/ Tick
  \/ MainThread

Spec == Init /\ [][Next]_vars

\* The main thread and the clock keep running.  Two assumptions are about the
\* environment: the captured interface, polled for writing again and again, is
\* at some time writable, and it does not refill at every moment EncodePackets
\* finds it empty.  Nothing is assumed of the timers, whose threads may have
\* ended before their flag was set (Timer.cpp:97).
Fairness ==
  /\ WF_vars(MainThread)
  /\ SF_vars(PollReady(TRUE))
  /\ SF_vars(EncodeDone)
  /\ WF_vars(Tick)

FairSpec == Spec /\ Fairness

-----------------------------------------------------------------------------
(* Properties *)

Entry == [mac : Macs, conn : Conns \cup {NoConn}, idle : 0 .. InactiveIPTimeout + 1]

TablesOK(s) ==
  /\ s = [table |-> s.table, pending |-> s.pending]
  /\ DOMAIN s.table \subseteq ValidIPs
  /\ s.table \in [DOMAIN s.table -> Entry]
  /\ DOMAIN s.pending \subseteq IPs
  /\ s.pending \in [DOMAIN s.pending -> 0 .. MacResolutionTimeout + 1]

Buffer  == [conn : Conns, frame : Frame]
Message == [to : Conns \cup {AllClients}, frame : Frame]

\* The type of every field of the process and of what it hands over.
TypeOK ==
  /\ TablesOK(st)
  /\ checkIPActivity \in BOOLEAN
  /\ checkPendingIPMacRequests \in BOOLEAN
  /\ receivedBuffers \in Seq(Buffer)
  /\ queuedBufferCount \in 0 .. CountWidth - 1
  /\ eventfd \in Nat
  /\ injectionQueue \in Seq(Frame)
  /\ processingState \in {"none", "incoming", "outgoing"}
  /\ workingBuffers \in Seq(Buffer)
  /\ ring \in Seq(Frame)
  /\ pc \in {"arm", "poll", "encode", "decode", "decoding"}
  /\ pollOut \in BOOLEAN
  /\ decodeNext \in BOOLEAN
  /\ lan \in Seq(Frame)
  /\ mw \in Seq(Message)

Disjoint(s) == DOMAIN s.pending \cap DOMAIN s.table = {}

\* A MAC request is pending only for an address that is not in the IP table:
\* whatever resolves an address, in either direction, ends its request
\* (UpdateIPTable), so a resolved address is never held back as pending.
PendingOnlyUnknown == Disjoint(st)

TableMasked(s) ==
  \A ip \in DOMAIN s.table : s.table[ip].conn # NoConn => s.table[ip].mac = ThisNode.mac

FrameMasked(f) ==
  /\ f.shost = ThisNode.mac
  /\ f.type = "arp" => f.sha = ThisNode.mac

\* Opaque operation puts the proxy's own MAC in the place of a remote host's:
\* addresses learned from a connection map to the local interface's MAC, and no
\* frame reaches the local network with another Ethernet source or ARP sender
\* address (DecodePacket rewrites the frame before the table learns from it).
\* Nothing is claimed of the link-layer address options of NDP messages, which
\* are passed on unchanged (ProcessNDPPacket): there the remote host's MAC does
\* reach the local network.
RemoteHostsMasked ==
  ~ThisNode.transparent => TableMasked(st) /\ \A i \in DOMAIN lan : FrameMasked(lan[i])

\* The processor's descriptor is signalled exactly while buffers are queued: a
\* queued buffer always wakes the poll loop and an empty queue never keeps it
\* spinning, and no injection is ever left waiting for a decode cycle
\* (QueueReceivedBuffer, DecodePackets, InjectPacket).
WakeupMatchesQueue ==
  /\ eventfd > 0 <=> receivedBuffers # << >>
  /\ injectionQueue = << >>

\* Whatever the uninitialized count held at first, from the first decode cycle
\* on buffers that are queued are counted, so that the poll loop asks for
\* POLLOUT: "This function returns a count that is used to indicate that data is
\* queued such that a POLLOUT can be processed on the capture interface"
\* (PacketProcessor.cpp:103).  Until then the count may be zero over a queue.
Counted == receivedBuffers # << >> => queuedBufferCount # 0

QueuedIsCounted == [](pc = "decoding" => []Counted)

\* The step handed f on, rewritten or not, rather than a request made for it.
HandsOn(f) ==
  \/ \E i \in DOMAIN lan' : lan'[i].type = f.type /\ lan'[i].op = f.op
  \/ mw' # << >>

\* In opaque operation an IP packet, its headers whole, for a host that is not
\* known is not lost silently: unless the packet goes on, a request for its
\* destination is pending afterwards, and the request was put on the local
\* network by this very step exactly if none was pending before
\* (ProcessIPv4Packet, ProcessIPv6Packet).
UnresolvedIsAskedOnce ==
  [][DecodeNext =>
       LET f == Head(workingBuffers).frame
       IN  f.type \in {"ip4", "ip6"} /\ f.op = "data" /\ ~HandsOn(f) =>
             /\ f.dst \in DOMAIN st'.pending
             /\ lan' = IF f.dst \in DOMAIN st.pending THEN << >>
                       ELSE << MacRequest(ThisNode, f) >>]_vars

\* Once there has been a decode cycle, a queued buffer is eventually taken up by
\* another, however the middleware threads interleave with the poll loop.  The
\* first cycle may not come while the count, begun at no defined value, is zero.
BuffersAreDecoded ==
  [](pc = "decoding" => [](receivedBuffers # << >> => <>(pc = "decoding")))

IsPending(ip) == ip \in DOMAIN st.pending

\* While the local network keeps sending and the timer keeps raising its flag, a
\* MAC request that nobody answers is forgotten, so that the next packet for that
\* host asks again (CheckPendingIPMacRequests runs at the end of EncodePackets,
\* which clears the flag).  Neither premise is the code's to give: on a silent
\* network, or with a timer whose thread has ended, requests stay.
RequestsExpireUnderTraffic ==
  []<>(pc = "encode") /\ []<>checkPendingIPMacRequests =>
    \A ip \in IPs : IsPending(ip) ~> ~IsPending(ip)

=============================================================================
