------------------------ MODULE PacketProcessorProofs ------------------------
(***************************************************************************)
(* Proofs about PacketProcessor for every set of addresses, every node and *)
(* all bounds.  The lemmas follow the calls of PacketProcessor.cpp: the    *)
(* tables stay Good and the frames masked through UpdateIPTable and the    *)
(* lookups, hence through each Process... function, hence through          *)
(* EncodePacket and DecodePacket; the theorems then look at the actions.   *)
(***************************************************************************)
EXTENDS PacketProcessor, TLAPS

USE TranslationAssumption, ProcessorAssumption

\* What every function keeps true of the tables.
Good(s) ==
  /\ TablesOK(s)
  /\ Disjoint(s)
  /\ ~ThisNode.transparent => TableMasked(s)

\* Learning keeps the tables good, if what is learned from a connection carries
\* the local MAC in opaque operation (UpdateIPTable).
LEMMA UpdateIPTableGood ==
  ASSUME NEW s, Good(s), NEW ip \in IPs, NEW mac \in Macs,
         NEW conn \in Conns \cup {NoConn},
         conn # NoConn /\ ~ThisNode.transparent => mac = ThisNode.mac
  PROVE  Good(UpdateIPTable(s, ip, mac, conn))
<1> DEFINE u == UpdateIPTable(s, ip, mac, conn)
<1>1. TablesOK(u)
  BY DEF Good, TablesOK, UpdateIPTable, Put, Drop, Restrict, Entry
<1>2. Disjoint(u)
  BY DEF Good, TablesOK, Disjoint, UpdateIPTable, Put, Drop, Restrict
<1>3. ~ThisNode.transparent => TableMasked(u)
  BY DEF Good, TablesOK, TableMasked, UpdateIPTable, Put, Drop, Restrict, Entry
<1>4. QED
  BY <1>1, <1>2, <1>3 DEF Good

\* A lookup only renews an entry (TryIPTableLookup).
LEMMA LookupGood ==
  ASSUME NEW s, Good(s), NEW ip
  PROVE  /\ Good(TryIPTableLookup(s, ip))
         /\ ConnectionOf(s, ip) \in Conns \cup {NoConn}
         /\ DOMAIN TryIPTableLookup(s, ip).table = DOMAIN s.table
         /\ TryIPTableLookup(s, ip).pending = s.pending
BY DEF Good, TablesOK, Disjoint, TableMasked, TryIPTableLookup, ConnectionOf, Known, Entry

\* A frame that goes on, and the request made instead of one, is masked in
\* opaque operation.
VerdictOK(v) ==
  /\ Good(v.st)
  /\ v.frame \in Frame
  /\ v.conn \in Conns \cup {NoConn}
  /\ v.request \in Seq(Frame)
  /\ ~ThisNode.transparent =>
       /\ v.inject => FrameMasked(v.frame)
       /\ \A i \in DOMAIN v.request : FrameMasked(v.request[i])

LEMMA MacRequestOK ==
  ASSUME NEW f \in Frame, f.type \in {"ip4", "ip6"}
  PROVE  /\ MacRequest(ThisNode, f) \in Frame
         /\ FrameMasked(MacRequest(ThisNode, f))
BY DEF MacRequest, ARPRequest, NDPRequest, FrameMasked, Frame, FrameTypes, FrameOps, Node

\* A verdict is in order when its parts are.
LEMMA VerdictIsOK ==
  ASSUME NEW s, Good(s), NEW f \in Frame, NEW conn \in Conns \cup {NoConn},
         NEW inject \in BOOLEAN,
         ~ThisNode.transparent /\ inject => FrameMasked(f)
  PROVE  VerdictOK(Verdict(s, f, conn, inject))
BY DEF Verdict, VerdictOK

LEMMA TransparentOK ==
  ASSUME NEW s, Good(s), NEW f \in Frame, ThisNode.transparent
  PROVE  VerdictOK(ProcessTransparent(s, f))
BY LookupGood, VerdictIsOK DEF ProcessTransparent

\* A frame readdressed to a known host is in order.
LEMMA FoundOK ==
  ASSUME NEW s, Good(s), NEW f \in Frame, NEW ip, Known(s, ip),
         ~ThisNode.transparent => FrameMasked(f)
  PROVE  VerdictOK(Verdict(TryIPTableLookup(s, ip), [f EXCEPT !.dhost = s.table[ip].mac],
                           ConnectionOf(s, ip), TRUE))
<1> DEFINE g == [f EXCEPT !.dhost = s.table[ip].mac]
<1>1. s.table[ip].mac \in Macs
  BY DEF Good, TablesOK, Known, Entry
<1>2. g \in Frame /\ (~ThisNode.transparent => FrameMasked(g))
  BY <1>1 DEF Frame, FrameMasked
<1>3. Good(TryIPTableLookup(s, ip)) /\ ConnectionOf(s, ip) \in Conns \cup {NoConn}
  BY LookupGood
<1> HIDE DEF g
<1>4. VerdictOK(Verdict(TryIPTableLookup(s, ip), g, ConnectionOf(s, ip), TRUE))
  BY <1>2, <1>3, VerdictIsOK
<1>5. QED
  BY <1>4 DEF g

LEMMA ARPOK ==
  ASSUME NEW s, Good(s), NEW f \in Frame, FrameMasked([f EXCEPT !.sha = ThisNode.mac])
  PROVE  VerdictOK(ProcessARPPacket(ThisNode, s, f))
<1> DEFINE masked == [f EXCEPT !.sha = ThisNode.mac]
<1>1. CASE f.op = "request"
  <2>1. masked \in Frame
    BY DEF Frame, Node
  <2>2. ProcessARPPacket(ThisNode, s, f) = Verdict(s, masked, NoConn, TRUE)
    BY <1>1 DEF ProcessARPPacket
  <2>3. QED
    BY <2>1, <2>2, VerdictIsOK
<1>2. CASE f.op # "request" /\ Known(s, f.dst)
  <2>1. masked \in Frame
    BY DEF Frame, Node
  <2>2. ProcessARPPacket(ThisNode, s, f)
          = Verdict(TryIPTableLookup(s, f.dst), [masked EXCEPT !.dhost = s.table[f.dst].mac],
                    ConnectionOf(s, f.dst), TRUE)
    BY <1>2 DEF ProcessARPPacket
  <2> HIDE DEF masked
  <2>3. FrameMasked(masked)
    BY DEF masked
  <2>4. QED
    BY <1>2, <2>1, <2>2, <2>3, FoundOK
<1>3. CASE f.op # "request" /\ ~Known(s, f.dst)
  <2>1. ProcessARPPacket(ThisNode, s, f) = Verdict(s, f, NoConn, FALSE)
    BY <1>3 DEF ProcessARPPacket
  <2>2. QED
    BY <2>1, VerdictIsOK
<1>4. QED
  BY <1>1, <1>2, <1>3

LEMMA DropAndAskOK ==
  ASSUME NEW s, Good(s), NEW f \in Frame, f.type \in {"ip4", "ip6"}, ~Known(s, f.dst)
  PROVE  VerdictOK(DropAndAsk(ThisNode, s, f)) /\ ~DropAndAsk(ThisNode, s, f).inject
<1> DEFINE asked == f.dst \in DOMAIN s.pending
           p == IF asked THEN s.pending ELSE Put(s.pending, f.dst, 0)
           t == [s EXCEPT !.pending = p]
           r == IF asked THEN << >> ELSE << MacRequest(ThisNode, f) >>
           d == DropAndAsk(ThisNode, s, f)
<1>1. Good(t)
  BY DEF Good, TablesOK, Disjoint, TableMasked, Known, Put, Frame
<1>2. /\ r \in Seq(Frame)
      /\ \A i \in DOMAIN r : FrameMasked(r[i])
  BY MacRequestOK
<1>3. /\ d.st = t
      /\ d.frame = f
      /\ d.conn = NoConn
      /\ d.inject = FALSE
      /\ d.request = r
  BY DEF DropAndAsk, Verdict
<1> HIDE DEF t, r, d, p, asked
<1>4. VerdictOK(d)
  BY <1>1, <1>2, <1>3 DEF VerdictOK
<1>5. QED
  BY <1>3, <1>4 DEF d

LEMMA TranslateOK ==
  ASSUME NEW s, Good(s), NEW f \in Frame, f.type \in {"ip4", "ip6"},
         FrameMasked(f)
  PROVE  VerdictOK(Translate(ThisNode, s, f))
<1>1. CASE Known(s, f.dst)
  <2>1. Translate(ThisNode, s, f)
          = Verdict(TryIPTableLookup(s, f.dst), [f EXCEPT !.dhost = s.table[f.dst].mac],
                    ConnectionOf(s, f.dst), TRUE)
    BY <1>1 DEF Translate
  <2>2. VerdictOK(Verdict(TryIPTableLookup(s, f.dst), [f EXCEPT !.dhost = s.table[f.dst].mac],
                          ConnectionOf(s, f.dst), TRUE))
    BY <1>1, FoundOK
  <2>3. QED
    BY <2>1, <2>2, Zenon
<1>2. CASE ~Known(s, f.dst) /\ f.dst \notin MulticastIPs
  <2>1. Translate(ThisNode, s, f) = DropAndAsk(ThisNode, s, f)
    BY <1>2 DEF Translate
  <2>2. QED
    BY <1>2, <2>1, DropAndAskOK
<1>3. CASE ~Known(s, f.dst) /\ f.dst \in MulticastIPs
  <2>1. Translate(ThisNode, s, f) = Verdict(s, f, NoConn, TRUE)
    BY <1>3 DEF Translate
  <2>2. VerdictOK(Verdict(s, f, NoConn, TRUE))
    BY VerdictIsOK
  <2>3. QED
    BY <2>1, <2>2, Zenon
<1>4. QED
  BY <1>1, <1>2, <1>3

LEMMA IPv6OK ==
  ASSUME NEW s, Good(s), NEW f \in Frame, f.type \in {"ip4", "ip6"}, ~ThisNode.transparent,
         FrameMasked(f)
  PROVE  VerdictOK(ProcessIPv6Packet(ThisNode, s, f))
<1> DEFINE v == Translate(ThisNode, s, f)
<1>1. VerdictOK(v)
  BY TranslateOK
<1> HIDE DEF v
<1>2. ASSUME v.inject PROVE VerdictOK(ProcessNDPPacket(v))
  <2>1. CASE Known(v.st, v.frame.target)
    <3>1. Good(v.st) /\ v.frame \in Frame /\ FrameMasked(v.frame)
      BY <1>1, <1>2 DEF VerdictOK
    <3>2. QED
      BY <2>1, <3>1, FoundOK DEF ProcessNDPPacket
  <2>2. CASE ~Known(v.st, v.frame.target)
    BY <1>1, <2>2 DEF ProcessNDPPacket, VerdictOK
  <2>3. QED
    BY <2>1, <2>2
<1>3. VerdictOK([v EXCEPT !.inject = FALSE])
  BY <1>1 DEF VerdictOK
<1>4. CASE v.inject /\ f.op = "cut"
  BY <1>3, <1>4 DEF ProcessIPv6Packet, v
<1>5. CASE v.inject /\ f.op = "advert"
  BY <1>2, <1>5 DEF ProcessIPv6Packet, v
<1>6. CASE ~(v.inject /\ f.op \in {"cut", "advert"})
  BY <1>1, <1>6 DEF ProcessIPv6Packet, v
<1>7. QED
  BY <1>4, <1>5, <1>6

LEMMA IPv4OK ==
  ASSUME NEW s, Good(s), NEW f \in Frame, f.type \in {"ip4", "ip6"}, FrameMasked(f)
  PROVE  VerdictOK(ProcessIPv4Packet(ThisNode, s, f))
BY TranslateOK, VerdictIsOK DEF ProcessIPv4Packet

\* Every frame the switch of DecodePacket dispatches.
LEMMA ProcessOK ==
  ASSUME NEW s, Good(s), NEW f \in Frame, f.type # "other",
         ~ThisNode.transparent => f.shost = ThisNode.mac
  PROVE  VerdictOK(Process(ThisNode, s, f))
<1>1. CASE ThisNode.transparent
  BY <1>1, TransparentOK DEF Process
<1>2. CASE ~ThisNode.transparent /\ f.type = "arp"
  <2>1. FrameMasked([f EXCEPT !.sha = ThisNode.mac])
    BY <1>2 DEF FrameMasked, Frame
  <2>2. QED
    BY <1>2, <2>1, ARPOK DEF Process
<1>3. CASE ~ThisNode.transparent /\ f.type = "ip4"
  <2>1. FrameMasked(f)
    BY <1>3 DEF FrameMasked
  <2>2. QED
    BY <1>3, <2>1, IPv4OK DEF Process
<1>4. CASE ~ThisNode.transparent /\ f.type = "ip6"
  <2>1. FrameMasked(f)
    BY <1>4 DEF FrameMasked
  <2>2. Process(ThisNode, s, f) = ProcessIPv6Packet(ThisNode, s, f)
    BY <1>4 DEF Process
  <2>3. QED
    BY <1>4, <2>1, <2>2, IPv6OK
<1>5. QED
  BY <1>1, <1>2, <1>3, <1>4 DEF Frame, FrameTypes

\* DecodePacket keeps the tables good, and what it injects and forwards is
\* well formed and, on the local interface of an opaque node, masked.
LEMMA DecodePacketOK ==
  ASSUME NEW s, Good(s), NEW conn \in Conns, NEW f \in Frame
  PROVE  LET d == DecodePacket(ThisNode, s, conn, f)
         IN  /\ Good(d.st)
             /\ d.lan \in Seq(Frame)
             /\ d.mw \in Seq(Message)
             /\ ~ThisNode.transparent => \A i \in DOMAIN d.lan : FrameMasked(d.lan[i])
<1> DEFINE local   == IF ThisNode.transparent THEN f ELSE [f EXCEPT !.shost = ThisNode.mac]
           learned == UpdateIPTable(s, local.src, local.shost, conn)
           v       == Process(ThisNode, learned, local)
           d       == DecodePacket(ThisNode, s, conn, f)
           own     == IF v.inject /\ GoesToLan(ThisNode, v) THEN << v.frame >> ELSE << >>
           copies  == IF v.inject /\ GoesToClients(ThisNode, v) THEN << ClientCopy(v) >> ELSE << >>
<1>1. CASE f.type = "other"
  BY <1>1 DEF DecodePacket
<1>2. CASE f.type # "other"
  <2>1. /\ local \in Frame
        /\ local.type = f.type
        /\ ~ThisNode.transparent => local.shost = ThisNode.mac
    BY DEF Frame, Node
  <2>2. d = [st |-> v.st, lan |-> v.request \o own, mw |-> copies]
    BY <1>2 DEF DecodePacket
  <2> HIDE DEF local
  <2>3. Good(learned)
    <3>1. local.src \in IPs /\ local.shost \in Macs
      BY <2>1 DEF Frame
    <3>2. QED
      BY <2>1, <3>1, UpdateIPTableGood
  <2> HIDE DEF learned
  <2>4. VerdictOK(v)
    BY <1>2, <2>1, <2>3, ProcessOK
  <2> HIDE DEF v
  <2>5. /\ own \in Seq(Frame)
        /\ ~ThisNode.transparent => \A i \in DOMAIN own : FrameMasked(own[i])
    BY <2>4 DEF VerdictOK
  <2>6. copies \in Seq(Message)
    <3>1. ClientCopy(v) \in Message
      BY <2>4 DEF VerdictOK, ClientCopy, Message
    <3>2. QED
      BY <3>1
  <2>7. v.request \in Seq(Frame)
    BY <2>4 DEF VerdictOK
  <2> HIDE DEF own, copies
  <2>8. v.request \o own \in Seq(Frame)
    BY <2>5, <2>7
  <2>9. ASSUME ~ThisNode.transparent, NEW i \in DOMAIN (v.request \o own)
        PROVE  FrameMasked((v.request \o own)[i])
    BY <2>4, <2>5, <2>7, <2>9 DEF VerdictOK
  <2>10. QED
    BY <2>2, <2>4, <2>6, <2>8, <2>9 DEF VerdictOK
<1>3. QED
  BY <1>1, <1>2

\* The unicast path of EncodePacket: a captured frame has one destination.
LEMMA SendToOK ==
  ASSUME NEW s, Good(s), NEW f \in Frame
  PROVE  LET u == SendTo(ThisNode, s, f)
         IN  Good(u.st) /\ u.mw \in Seq(Message) /\ u.sent = TRUE
<1> DEFINE conn == ConnectionOf(s, f.dst)
           to   == IF conn = NoConn THEN AllClients ELSE conn
           u    == SendTo(ThisNode, s, f)
<1>1. Good(TryIPTableLookup(s, f.dst)) /\ conn \in Conns \cup {NoConn}
  BY LookupGood
<1>2. /\ ToAll(f) \in Message
      /\ [to |-> to, frame |-> f] \in Message
  BY <1>1 DEF ToAll, Message
<1>3. CASE ThisNode.server /\ f.dst \notin MulticastIPs
  <2>1. u = [st |-> TryIPTableLookup(s, f.dst), mw |-> << [to |-> to, frame |-> f] >>,
             sent |-> TRUE]
    BY <1>3 DEF SendTo
  <2> HIDE DEF u, to
  <2>2. QED
    BY <1>1, <1>2, <2>1 DEF u
<1>4. CASE ~(ThisNode.server /\ f.dst \notin MulticastIPs)
  <2>1. u = [st |-> s, mw |-> << ToAll(f) >>, sent |-> TRUE]
    BY <1>4 DEF SendTo
  <2> HIDE DEF u
  <2>2. QED
    BY <1>2, <2>1 DEF u
<1>5. QED
  BY <1>3, <1>4

\* EncodePacket keeps the tables good and sends well formed messages.
LEMMA EncodePacketOK ==
  ASSUME NEW s, Good(s), NEW f \in Frame
  PROVE  LET e == EncodePacket(ThisNode, s, f)
         IN  Good(e.st) /\ e.mw \in Seq(Message)
<1> DEFINE learned == UpdateIPTable(s, f.src, f.shost, NoConn)
           unicast == SendTo(ThisNode, learned, f)
           e       == EncodePacket(ThisNode, s, f)
<1>1. Good(learned)
  <2>1. f.src \in IPs /\ f.shost \in Macs
    BY DEF Frame
  <2>2. QED
    BY <2>1, UpdateIPTableGood
<1>2. CASE f.type = "other"
  <2>1. e = [st |-> s, mw |-> << >>]
    BY <1>2 DEF EncodePacket
  <2> HIDE DEF e
  <2>2. QED
    BY <2>1 DEF e
<1>3. CASE f.type # "other" /\ (f.type = "arp" \/ (f.type = "ip6" /\ f.op = "solicit"))
  <2>1. e = [st |-> learned, mw |-> << ToAll(f) >>]
    BY <1>3 DEF EncodePacket
  <2>2. ToAll(f) \in Message
    BY DEF ToAll, Message
  <2> HIDE DEF learned, e
  <2>3. QED
    BY <1>1, <2>1, <2>2 DEF e
<1>4. CASE f.type # "other" /\ ~(f.type = "arp" \/ (f.type = "ip6" /\ f.op = "solicit"))
  <2> HIDE DEF learned
  <2>1. Good(unicast.st) /\ unicast.mw \in Seq(Message) /\ unicast.sent = TRUE
    BY <1>1, SendToOK
  <2>2. e = [st |-> unicast.st, mw |-> unicast.mw \o << >>]
    BY <1>4, <2>1 DEF EncodePacket, learned
  <2> HIDE DEF unicast, e
  <2>3. QED
    BY <2>1, <2>2 DEF e
<1>5. QED
  BY <1>2, <1>3, <1>4

\* Expiry and the passing of time keep the tables good.
LEMMA CheckActiveIPAddressesGood ==
  ASSUME NEW s, Good(s), NEW timeout
  PROVE  Good(CheckActiveIPAddresses(s, timeout))
BY DEF Good, TablesOK, Disjoint, TableMasked, CheckActiveIPAddresses, Restrict

LEMMA CheckPendingIPMacRequestsGood ==
  ASSUME NEW s, Good(s), NEW timeout
  PROVE  Good(CheckPendingIPMacRequests(s, timeout))
BY DEF Good, TablesOK, Disjoint, TableMasked, CheckPendingIPMacRequests, Restrict

LEMMA AgeGood ==
  ASSUME NEW s, Good(s)
  PROVE  Good(Age(s, InactiveIPTimeout, MacResolutionTimeout))
BY DEF Good, TablesOK, Disjoint, TableMasked, Age, Older, Entry

-----------------------------------------------------------------------------
(* The inductive invariant.  WakeupMatchesQueue alone is not inductive: that *)
(* no injection is ever queued rests on the main thread being in the         *)
(* outgoing state whenever it decodes, and that the descriptor matches the   *)
(* queue on its counter being the length of the queue.                       *)

IInv ==
  /\ TypeOK
  /\ Good(st)
  /\ ~ThisNode.transparent => \A i \in DOMAIN lan : FrameMasked(lan[i])
  /\ eventfd = Len(receivedBuffers)
  /\ injectionQueue = << >>
  /\ pc = "decoding" => processingState = "outgoing"

LEMMA InitIInv == Init => IInv
<1> SUFFICES ASSUME Init PROVE IInv
  OBVIOUS
<1>1. Good(st)
  BY DEF Init, Good, TablesOK, Disjoint, TableMasked, NoEntries
<1>2. queuedBufferCount \in 0 .. CountWidth - 1
  BY DEF Init
<1>3. TypeOK
  <2>1. TablesOK(st)
    BY <1>1 DEF Good
  <2>2. /\ checkIPActivity \in BOOLEAN
        /\ checkPendingIPMacRequests \in BOOLEAN
        /\ pollOut \in BOOLEAN
        /\ decodeNext \in BOOLEAN
    BY DEF Init
  <2>3. /\ receivedBuffers \in Seq(Buffer)
        /\ injectionQueue \in Seq(Frame)
        /\ workingBuffers \in Seq(Buffer)
        /\ ring \in Seq(Frame)
        /\ lan \in Seq(Frame)
        /\ mw \in Seq(Message)
    BY DEF Init
  <2>4. /\ eventfd \in Nat
        /\ processingState \in {"none", "incoming", "outgoing"}
        /\ pc \in {"arm", "poll", "encode", "decode", "decoding"}
    BY DEF Init
  <2>5. QED
    BY <1>2, <2>1, <2>2, <2>3, <2>4 DEF TypeOK
<1>4. QED
  BY <1>1, <1>3 DEF Init, IInv

LEMMA QueueReceivedBufferIInv ==
  ASSUME IInv, NEW buffer \in Received, QueueReceivedBuffer(buffer)
  PROVE  IInv'
<1>1. st' = st /\ lan' = << >> /\ mw' = << >>
  BY DEF QueueReceivedBuffer, tables, Silent
<1>2. buffer \in Buffer
  BY DEF Buffer
<1>3. /\ receivedBuffers' \in Seq(Buffer)
      /\ Len(receivedBuffers') = Len(receivedBuffers) + 1
  BY <1>2 DEF IInv, TypeOK, QueueReceivedBuffer
<1>4. queuedBufferCount' \in 0 .. CountWidth - 1
  BY DEF IInv, TypeOK, QueueReceivedBuffer
<1>5. TypeOK'
  BY <1>1, <1>3, <1>4 DEF IInv, TypeOK, QueueReceivedBuffer, tables, pollVars
<1>6. QED
  BY <1>1, <1>3, <1>5 DEF IInv, QueueReceivedBuffer, tables, pollVars

LEMMA EncodeNextIInv ==
  ASSUME IInv, EncodeNext
  PROVE  IInv'
<1> DEFINE f == Head(ring)
           e == EncodePacket(ThisNode, st, f)
<1>1. f \in Frame /\ ring' \in Seq(Frame)
  BY DEF IInv, TypeOK, EncodeNext
<1>2. Good(e.st) /\ e.mw \in Seq(Message)
  BY <1>1, EncodePacketOK DEF IInv
<1>3. st' = e.st /\ mw' = e.mw /\ lan' = << >>
  BY DEF EncodeNext
<1> HIDE DEF e, f
<1>4. TypeOK'
  BY <1>1, <1>2, <1>3 DEF IInv, TypeOK, Good, EncodeNext, queue, pollVars
<1>5. QED
  BY <1>2, <1>3, <1>4 DEF IInv, EncodeNext, queue, pollVars

LEMMA EncodeDoneIInv ==
  ASSUME IInv, EncodeDone
  PROVE  IInv'
<1> DEFINE swept == IF checkIPActivity THEN CheckActiveIPAddresses(st, InactiveIPTimeout) ELSE st
<1>1. Good(swept)
  BY CheckActiveIPAddressesGood DEF IInv
<1>2. Good(st') /\ lan' = << >> /\ mw' = << >>
  BY <1>1, CheckPendingIPMacRequestsGood DEF EncodeDone, Silent
<1>3. TypeOK'
  <2>1. TablesOK(st')
    BY <1>2 DEF Good
  <2>2. /\ checkIPActivity' \in BOOLEAN
        /\ checkPendingIPMacRequests' \in BOOLEAN
        /\ processingState' \in {"none", "incoming", "outgoing"}
        /\ pc' \in {"arm", "poll", "encode", "decode", "decoding"}
    BY DEF EncodeDone
  <2>3. UNCHANGED << queue, injectionQueue, workingBuffers, ring, pollVars >>
    BY DEF EncodeDone
  <2>4. QED
    BY <1>2, <2>1, <2>2, <2>3 DEF IInv, TypeOK, queue, pollVars
<1>4. QED
  BY <1>2, <1>3 DEF IInv, EncodeDone, queue, pollVars

LEMMA DecodeBeginIInv ==
  ASSUME IInv, DecodeBegin
  PROVE  IInv'
<1>1. st' = st /\ lan' = << >> /\ mw' = << >>
  BY DEF IInv, DecodeBegin, tables
<1>2. eventfd' = 0 /\ receivedBuffers' = << >> /\ injectionQueue' = << >>
  BY DEF IInv, TypeOK, DecodeBegin
<1>3. TypeOK'
  BY <1>1, <1>2 DEF IInv, TypeOK, DecodeBegin, tables, pollVars
<1>4. QED
  BY <1>1, <1>2, <1>3 DEF IInv, DecodeBegin

LEMMA DecodeNextIInv ==
  ASSUME IInv, DecodeNext
  PROVE  IInv'
<1> DEFINE buffer == Head(workingBuffers)
           d == DecodePacket(ThisNode, st, buffer.conn, buffer.frame)
<1>1. buffer \in Buffer /\ workingBuffers' \in Seq(Buffer)
  BY DEF IInv, TypeOK, DecodeNext
<1>2. buffer.conn \in Conns /\ buffer.frame \in Frame
  BY <1>1 DEF Buffer
<1>3. /\ Good(d.st)
      /\ d.lan \in Seq(Frame)
      /\ d.mw \in Seq(Message)
      /\ ~ThisNode.transparent => \A i \in DOMAIN d.lan : FrameMasked(d.lan[i])
  BY <1>2, DecodePacketOK DEF IInv
<1>4. /\ st' = d.st
      /\ mw' = d.mw
      /\ lan' = d.lan
      /\ UNCHANGED << injectionQueue, queuedBufferCount, eventfd >>
  BY DEF IInv, DecodeNext, InjectPacket
<1> HIDE DEF d, buffer
<1>5. TypeOK'
  BY <1>1, <1>3, <1>4 DEF IInv, TypeOK, Good, DecodeNext, pollVars
<1>6. QED
  BY <1>3, <1>4, <1>5 DEF IInv, DecodeNext, pollVars

LEMMA NextIInv == IInv /\ [Next]_vars => IInv'
<1> SUFFICES ASSUME IInv, [Next]_vars PROVE IInv'
  OBVIOUS
<1>1. CASE \E buffer \in Received : QueueReceivedBuffer(buffer)
  BY <1>1, QueueReceivedBufferIInv
<1>2. ASSUME NEW f \in Captured, Capture(f) PROVE IInv'
  <2>1. ring' \in Seq(Frame)
    BY <1>2 DEF IInv, TypeOK, Capture
  <2>2. QED
    BY <1>2, <2>1 DEF IInv, TypeOK, Capture, Silent, tables, queue, pollVars
<1>3. CASE IPActivityTimerElapsed
  BY <1>3 DEF IInv, TypeOK, IPActivityTimerElapsed, Silent, queue, pollVars
<1>4. CASE PendingIPMacRequestsTimerElapsed
  BY <1>4 DEF IInv, TypeOK, PendingIPMacRequestsTimerElapsed, Silent, queue, pollVars
<1>5. CASE Tick
  <2>1. Good(st')
    BY <1>5, AgeGood DEF IInv, Tick
  <2>2. QED
    BY <1>5, <2>1 DEF IInv, TypeOK, Good, Tick, Silent, queue, pollVars
<1>6. CASE ArmPoll
  BY <1>6 DEF IInv, TypeOK, ArmPoll, Silent, tables, queue
<1>7. ASSUME NEW writable \in BOOLEAN, PollReady(writable) PROVE IInv'
  BY <1>7 DEF IInv, TypeOK, PollReady, Silent, tables, queue
<1>8. CASE PollNothing
  BY <1>8 DEF IInv, TypeOK, PollNothing, Silent, tables, queue, pollVars
<1>9. CASE EncodeNext
  BY <1>9, EncodeNextIInv
<1>10. CASE EncodeDone
  BY <1>10, EncodeDoneIInv
<1>11. CASE DecodeBegin
  BY <1>11, DecodeBeginIInv
<1>12. CASE DecodeNext
  BY <1>12, DecodeNextIInv
<1>13. CASE DecodeDone
  BY <1>13 DEF IInv, TypeOK, DecodeDone, Silent, tables, queue, pollVars
<1>14. CASE UNCHANGED vars
  BY <1>14 DEF IInv, TypeOK, vars, tables, queue, pollVars, output
<1>15. QED
  BY <1>1, <1>2, <1>3, <1>4, <1>5, <1>6, <1>7, <1>8, <1>9, <1>10, <1>11, <1>12, <1>13,
     <1>14 DEF Next, MainThread

THEOREM Invariant == Spec => []IInv
BY InitIInv, NextIInv, PTL DEF Spec

-----------------------------------------------------------------------------
(* The theorems *)

\* Every field keeps its type, for all addresses, options and bounds.
THEOREM TypeCorrect == Spec => []TypeOK
<1>1. IInv => TypeOK
  BY DEF IInv
<1>2. QED
  BY <1>1, Invariant, PTL

\* No address is at once in the IP table and waiting for a MAC response
\* (UpdateIPTable, ProcessIPv4Packet, ProcessIPv6Packet).
THEOREM PendingIsUnknown == Spec => []PendingOnlyUnknown
<1>1. IInv => PendingOnlyUnknown
  BY DEF IInv, Good, PendingOnlyUnknown
<1>2. QED
  BY <1>1, Invariant, PTL

\* In opaque operation the proxy's own MAC stands for remote hosts', in the
\* table and, but for the options of NDP messages, on the local network
\* (DecodePacket, ProcessARPPacket).
THEOREM RemoteHostsStayMasked == Spec => []RemoteHostsMasked
<1>1. IInv => RemoteHostsMasked
  BY DEF IInv, Good, RemoteHostsMasked
<1>2. QED
  BY <1>1, Invariant, PTL

\* The descriptor is signalled exactly while buffers are queued
\* (QueueReceivedBuffer, DecodePackets, InjectPacket).
THEOREM WakeupsMatch == Spec => []WakeupMatchesQueue
<1>1. IInv => WakeupMatchesQueue
  BY DEF IInv, TypeOK, WakeupMatchesQueue
<1>2. QED
  BY <1>1, Invariant, PTL

-----------------------------------------------------------------------------
(* The count of queued buffers.  No constructor initializes it, but a decode *)
(* cycle resets it as it takes the queue: from then on, and as long as the   *)
(* queue is shorter than the counter is wide, it is the length of the queue. *)

CountInv ==
  /\ queuedBufferCount = Len(receivedBuffers)
  /\ Len(receivedBuffers) <= MaxQueue

\* The queue is bounded from the start, the count right only after the reset.
ResetInv ==
  /\ Len(receivedBuffers) <= MaxQueue
  /\ pc = "decoding" => CountInv

LEMMA NextCountInv ==
  ASSUME MaxQueue < CountWidth, IInv, CountInv, [Next]_vars
  PROVE  CountInv'
<1>1. ASSUME NEW buffer \in Received, QueueReceivedBuffer(buffer) PROVE CountInv'
  <2>1. buffer \in Buffer
    BY DEF Buffer
  <2>2. /\ Len(receivedBuffers') = Len(receivedBuffers) + 1
        /\ Len(receivedBuffers) \in Nat
    BY <1>1, <2>1 DEF IInv, TypeOK, QueueReceivedBuffer
  <2>3. Len(receivedBuffers') <= MaxQueue /\ Len(receivedBuffers') < CountWidth
    BY <1>1, <2>2 DEF QueueReceivedBuffer
  <2>4. queuedBufferCount' = Len(receivedBuffers')
    BY <1>1, <2>2, <2>3 DEF CountInv, QueueReceivedBuffer
  <2>5. QED
    BY <2>3, <2>4 DEF CountInv
<1>2. CASE DecodeBegin
  BY <1>2 DEF CountInv, DecodeBegin
<1>3. CASE DecodeNext
  BY <1>3 DEF IInv, CountInv, DecodeNext, InjectPacket
<1>4. CASE UNCHANGED << receivedBuffers, queuedBufferCount >>
  BY <1>4 DEF CountInv
<1>5. QED
  BY <1>1, <1>2, <1>3, <1>4 DEF Next, MainThread, Capture, IPActivityTimerElapsed,
     PendingIPMacRequestsTimerElapsed, Tick, ArmPoll, PollReady, PollNothing, EncodeNext,
     EncodeDone, DecodeDone, vars, queue

LEMMA NextResetInv ==
  ASSUME MaxQueue < CountWidth, IInv, ResetInv, [Next]_vars
  PROVE  ResetInv'
<1>1. CASE pc = "decoding"
  BY <1>1, NextCountInv DEF ResetInv, CountInv
<1>2. CASE pc # "decoding"
  <2>1. ASSUME NEW buffer \in Received, QueueReceivedBuffer(buffer) PROVE ResetInv'
    <3>1. buffer \in Buffer
      BY DEF Buffer
    <3>2. Len(receivedBuffers') = Len(receivedBuffers) + 1 /\ Len(receivedBuffers) \in Nat
      BY <2>1, <3>1 DEF IInv, TypeOK, QueueReceivedBuffer
    <3>3. QED
      BY <1>2, <2>1, <3>2 DEF ResetInv, QueueReceivedBuffer
  <2>2. CASE DecodeBegin
    BY <2>2 DEF ResetInv, CountInv, DecodeBegin
  <2>3. CASE UNCHANGED receivedBuffers /\ pc' # "decoding"
    BY <2>3 DEF ResetInv
  <2>4. QED
    BY <1>2, <2>1, <2>2, <2>3 DEF Next, MainThread, Capture, IPActivityTimerElapsed,
       PendingIPMacRequestsTimerElapsed, Tick, ArmPoll, PollReady, PollNothing, EncodeNext,
       EncodeDone, DecodeNext, DecodeDone, vars, queue
<1>3. QED
  BY <1>1, <1>2

\* From the first decode cycle on a queued buffer is counted, and so POLLOUT
\* asked for, whatever the count was at first, if it cannot wrap
\* (PacketProcessor.cpp:103, :244).
THEOREM QueuedCounted ==
  ASSUME MaxQueue < CountWidth
  PROVE  Spec => QueuedIsCounted
<1>1. Init => ResetInv
  BY DEF Init, ResetInv
<1>2. IInv /\ ResetInv /\ [Next]_vars => ResetInv'
  BY NextResetInv
<1>3. IInv /\ CountInv /\ [Next]_vars => CountInv'
  BY NextCountInv
<1>4. IInv /\ CountInv => Counted
  BY DEF IInv, TypeOK, CountInv, Counted
<1>5. ResetInv /\ pc = "decoding" => CountInv
  BY DEF ResetInv
<1>6. QED
  BY <1>1, <1>2, <1>3, <1>4, <1>5, Invariant, PTL DEF Spec, QueuedIsCounted

-----------------------------------------------------------------------------
(* What becomes of an IP packet.                                             *)

\* Translate hands a packet on or asks for its destination, nothing else.
LEMMA TranslateDecides ==
  ASSUME NEW s, NEW f \in Frame
  PROVE  LET v == Translate(ThisNode, s, f)
         IN  \/ /\ v.inject = TRUE
                /\ v.request = << >>
                /\ v.frame.type = f.type
                /\ v.frame.op = f.op
             \/ v = DropAndAsk(ThisNode, s, f) /\ ~Known(s, f.dst)
<1>1. CASE Known(s, f.dst)
  BY <1>1 DEF Translate, Verdict, Frame
<1>2. CASE ~Known(s, f.dst) /\ f.dst \notin MulticastIPs
  BY <1>2 DEF Translate
<1>3. CASE ~Known(s, f.dst) /\ f.dst \in MulticastIPs
  BY <1>3 DEF Translate, Verdict
<1>4. QED
  BY <1>1, <1>2, <1>3

LEMMA ProcessDecides ==
  ASSUME NEW s, NEW f \in Frame, f.type \in {"ip4", "ip6"}, f.op = "data"
  PROVE  LET v == Process(ThisNode, s, f)
         IN  \/ /\ v.inject = TRUE
                /\ v.request = << >>
                /\ v.frame.type = f.type
                /\ v.frame.op = f.op
             \/ v = DropAndAsk(ThisNode, s, f) /\ ~Known(s, f.dst)
<1>1. CASE ThisNode.transparent
  BY <1>1 DEF Process, ProcessTransparent, Verdict
<1>2. CASE ~ThisNode.transparent /\ f.type = "ip4"
  <2>1. Process(ThisNode, s, f) = ProcessIPv4Packet(ThisNode, s, f)
    BY <1>2 DEF Process
  <2>2. CASE f.dst \in ValidIPs
    <3>1. ProcessIPv4Packet(ThisNode, s, f) = Translate(ThisNode, s, f)
      BY <2>2 DEF ProcessIPv4Packet
    <3>2. QED
      BY <2>1, <3>1, TranslateDecides
  <2>3. CASE f.dst \notin ValidIPs
    <3>1. ProcessIPv4Packet(ThisNode, s, f) = Verdict(s, f, NoConn, TRUE)
      BY <2>3 DEF ProcessIPv4Packet
    <3>2. QED
      BY <2>1, <3>1 DEF Verdict
  <2>4. QED
    BY <2>2, <2>3
<1>3. CASE ~ThisNode.transparent /\ f.type = "ip6"
  <2>1. Process(ThisNode, s, f) = ProcessIPv6Packet(ThisNode, s, f)
    BY <1>3 DEF Process
  <2>2. ProcessIPv6Packet(ThisNode, s, f) = Translate(ThisNode, s, f)
    BY DEF ProcessIPv6Packet
  <2>3. QED
    BY <2>1, <2>2, TranslateDecides
<1>4. QED
  BY <1>1, <1>2, <1>3

\* A frame that goes on reaches the local interface or a client.
LEMMA SomewhereToGo ==
  ASSUME NEW v
  PROVE  GoesToLan(ThisNode, v) \/ GoesToClients(ThisNode, v)
BY DEF GoesToLan, GoesToClients

LEMMA DecodeNextAsksOnce ==
  ASSUME IInv, DecodeNext,
         LET f == Head(workingBuffers).frame
         IN  f.type \in {"ip4", "ip6"} /\ f.op = "data" /\ ~HandsOn(f)
  PROVE  LET f == Head(workingBuffers).frame
         IN  /\ f.dst \in DOMAIN st'.pending
             /\ lan' = IF f.dst \in DOMAIN st.pending THEN << >>
                       ELSE << MacRequest(ThisNode, f) >>
<1> DEFINE buffer  == Head(workingBuffers)
           f       == buffer.frame
           conn    == buffer.conn
           local   == IF ThisNode.transparent THEN f ELSE [f EXCEPT !.shost = ThisNode.mac]
           learned == UpdateIPTable(st, local.src, local.shost, conn)
           v       == Process(ThisNode, learned, local)
           own     == IF v.inject /\ GoesToLan(ThisNode, v) THEN << v.frame >> ELSE << >>
           copies  == IF v.inject /\ GoesToClients(ThisNode, v) THEN << ClientCopy(v) >> ELSE << >>
<1>1. buffer \in Buffer
  BY DEF IInv, TypeOK, DecodeNext
<1>2. f \in Frame /\ f.type \in {"ip4", "ip6"} /\ f.op = "data" /\ ~HandsOn(f)
  BY <1>1 DEF Buffer
<1>3. /\ st' = v.st
      /\ mw' = copies
      /\ lan' = v.request \o own
  BY <1>2 DEF IInv, DecodeNext, InjectPacket, DecodePacket
<1>4. /\ local \in Frame
      /\ local.type = f.type
      /\ local.op = f.op
      /\ local.dst = f.dst
      /\ local.src = f.src
      /\ MacRequest(ThisNode, local) = MacRequest(ThisNode, f)
  BY <1>2 DEF Frame, Node, MacRequest, ARPRequest, NDPRequest
<1> HIDE DEF buffer, f, local
<1>5. \/ /\ v.inject = TRUE
         /\ v.request = << >>
         /\ v.frame.type = f.type
         /\ v.frame.op = f.op
      \/ v = DropAndAsk(ThisNode, learned, local) /\ ~Known(learned, f.dst)
  BY <1>2, <1>4, ProcessDecides
<1>6. ASSUME v.inject = TRUE, v.request = << >>, v.frame.type = f.type, v.frame.op = f.op
      PROVE  FALSE
  <2>1. CASE GoesToLan(ThisNode, v)
    <3>1. lan' = << v.frame >>
      BY <1>3, <1>6, <2>1
    <3>2. HandsOn(f)
      BY <1>6, <3>1 DEF HandsOn
    <3>3. QED
      BY <1>2, <3>2
  <2>2. CASE GoesToClients(ThisNode, v)
    <3>1. mw' = << ClientCopy(v) >>
      BY <1>3, <1>6, <2>2
    <3>2. HandsOn(f)
      BY <3>1 DEF HandsOn
    <3>3. QED
      BY <1>2, <3>2
  <2>3. QED
    BY <2>1, <2>2, SomewhereToGo
<1>7. CASE v = DropAndAsk(ThisNode, learned, local) /\ ~Known(learned, f.dst)
  <2>1. /\ v.inject = FALSE
        /\ v.st = [learned EXCEPT !.pending = IF f.dst \in DOMAIN learned.pending THEN @
                                              ELSE Put(@, f.dst, 0)]
        /\ v.request = IF f.dst \in DOMAIN learned.pending THEN << >>
                       ELSE << MacRequest(ThisNode, f) >>
    BY <1>4, <1>7 DEF DropAndAsk, Verdict
  <2>2. learned = [table |-> learned.table, pending |-> learned.pending]
    BY DEF IInv, Good, TablesOK, UpdateIPTable
  <2>3. f.dst \in DOMAIN learned.pending <=> f.dst \in DOMAIN st.pending
    BY <1>7 DEF Known, UpdateIPTable, Put, Drop, Restrict
  <2> HIDE DEF learned, v
  <2>4. st'.pending = IF f.dst \in DOMAIN learned.pending THEN learned.pending
                      ELSE Put(learned.pending, f.dst, 0)
    BY <1>3, <2>1, <2>2
  <2>5. f.dst \in DOMAIN st'.pending
    BY <2>4 DEF Put
  <2>6. lan' = IF f.dst \in DOMAIN st.pending THEN << >> ELSE << MacRequest(ThisNode, f) >>
    <3>1. own = << >>
      BY <2>1
    <3>2. MacRequest(ThisNode, f) \in Frame
      BY <1>2, MacRequestOK
    <3>3. v.request \in Seq(Frame)
      BY <2>1, <3>2
    <3> HIDE DEF own
    <3>4. v.request \o own = v.request
      BY <3>1, <3>3
    <3>5. QED
      BY <1>3, <2>1, <2>3, <3>4
  <2>7. QED
    BY <2>5, <2>6 DEF f, buffer
<1>8. QED
  BY <1>5, <1>6, <1>7

\* In opaque operation an IP packet for an unknown host is never lost silently
\* and its MAC is asked for once (ProcessIPv4Packet, ProcessIPv6Packet).
THEOREM UnresolvedAskedOnce == Spec => UnresolvedIsAskedOnce
<1> DEFINE A == DecodeNext =>
                  LET f == Head(workingBuffers).frame
                  IN  f.type \in {"ip4", "ip6"} /\ f.op = "data" /\ ~HandsOn(f) =>
                        /\ f.dst \in DOMAIN st'.pending
                        /\ lan' = IF f.dst \in DOMAIN st.pending THEN << >>
                                  ELSE << MacRequest(ThisNode, f) >>
<1>1. IInv /\ [Next]_vars => [A]_vars
  BY DecodeNextAsksOnce
<1>2. QED
  BY <1>1, Invariant, PTL DEF Spec, UnresolvedIsAskedOnce

=============================================================================
