-------------------------- MODULE ProxyNetworkProofs --------------------------
(***************************************************************************)
(* Proofs about ProxyNetwork for every set of nodes, hosts and addresses,  *)
(* every traffic and all bounds.  The inductive invariant says of every    *)
(* place a frame can be in whose frame it is: the ring of a node holds     *)
(* frames of the hosts of its network under their own MACs, what a client  *)
(* sends comes from its hosts under one of its connection IDs, and what a  *)
(* server without -p sends comes from the server's own hosts.  What a node *)
(* learns from such frames is true.                                        *)
(***************************************************************************)
EXTENDS ProxyNetwork, TLAPS

USE TranslationAssumption, NetworkAssumption

-----------------------------------------------------------------------------
(* Folds over the one frame, or none, a packet leads to *)

\* Nobody answers nothing.
LEMMA RepliesToNone ==
  ASSUME NEW n
  PROVE  Replies(n, << >>) = << >>
<1> DEFINE e == << >>
           Folds(iter) == iter = [s \in SUBSET DOMAIN e |->
                             IF s = {} THEN << >>
                             ELSE IF Asked(n, e[Max(s)])
                                  THEN Append(iter[s \ {Max(s)}], Answer(e[Max(s)]))
                                  ELSE iter[s \ {Max(s)}]]
           It == CHOOSE iter : Folds(iter)
           g == [s \in SUBSET {} |-> << >>]
<1>1. Replies(n, << >>) = It[DOMAIN e]
  BY DEF Replies, FoldLeft, MapThenFoldSet
<1>2. DOMAIN e = {}
  OBVIOUS
<1>3. Folds(g)
  BY <1>2
<1>4. Folds(It)
  BY <1>3
<1>5. It[{}] = << >>
  BY <1>2, <1>4
<1>6. QED
  BY <1>1, <1>2, <1>5

\* One frame has at most one answer.
LEMMA RepliesToOne ==
  ASSUME NEW n, NEW m
  PROVE  Replies(n, << m >>) = IF Asked(n, m) THEN << Answer(m) >> ELSE << >>
<1> DEFINE e == << m >>
           Folds(iter) == iter = [s \in SUBSET DOMAIN e |->
                             IF s = {} THEN << >>
                             ELSE IF Asked(n, e[Max(s)])
                                  THEN Append(iter[s \ {Max(s)}], Answer(e[Max(s)]))
                                  ELSE iter[s \ {Max(s)}]]
           It == CHOOSE iter : Folds(iter)
           r == IF Asked(n, m) THEN Append(<< >>, Answer(m)) ELSE << >>
           g == [s \in SUBSET {1} |-> IF s = {} THEN << >> ELSE r]
<1>1. Replies(n, << m >>) = It[DOMAIN e]
  BY DEF Replies, FoldLeft, MapThenFoldSet
<1>2. DOMAIN e = {1} /\ e[1] = m
  OBVIOUS
<1>3. Max({1}) = 1
  BY DEF Max
<1>4. SUBSET {1} = {{}, {1}} /\ {1} \ {1} = {} /\ {} # {1}
  OBVIOUS
<1> HIDE DEF e
<1>5. Folds(g)
  <2>1. g[{}] = << >> /\ g[{1}] = r
    BY <1>4
  <2>2. SUBSET DOMAIN e = SUBSET {1}
    BY <1>2
  <2>3. \A s \in SUBSET {1} :
          g[s] = IF s = {} THEN << >>
                 ELSE IF Asked(n, e[Max(s)])
                      THEN Append(g[s \ {Max(s)}], Answer(e[Max(s)]))
                      ELSE g[s \ {Max(s)}]
    <3>1. CASE Asked(n, m)
      BY <3>1, <1>2, <1>3, <1>4, <2>1
    <3>2. CASE ~Asked(n, m)
      BY <3>2, <1>2, <1>3, <1>4, <2>1
    <3>3. QED
      BY <3>1, <3>2
  <2> HIDE DEF r
  <2>4. QED
    BY <2>2, <2>3
<1> HIDE DEF g
<1>6. Folds(It)
  BY <1>5
<1> HIDE DEF It
<1>7. It[{}] = << >>
  BY <1>2, <1>4, <1>6
<1>8. It[{1}] = IF Asked(n, m) THEN Append(It[{}], Answer(m)) ELSE It[{}]
  <2>1. It[{1}] = IF Asked(n, e[Max({1})])
                  THEN Append(It[{1} \ {Max({1})}], Answer(e[Max({1})]))
                  ELSE It[{1} \ {Max({1})}]
    BY <1>2, <1>4, <1>6
  <2>2. QED
    BY <1>2, <1>3, <1>4, <2>1
<1>9. Append(<< >>, Answer(m)) = << Answer(m) >>
  OBVIOUS
<1>10. QED
  BY <1>1, <1>2, <1>7, <1>8, <1>9

\* No message leaves what waits for a client as it was.
LEMMA DeliveredNone ==
  ASSUME NEW c \in Clients, NEW table
  PROVE  Delivered(c, << >>, table) = down[c]
<1> DEFINE e == << >>
           Folds(iter) == iter = [s \in SUBSET DOMAIN e |->
                             IF s = {} THEN down[c]
                             ELSE IF c \in Reached(e[Max(s)], table)
                                  THEN Append(iter[s \ {Max(s)}], e[Max(s)].frame)
                                  ELSE iter[s \ {Max(s)}]]
           It == CHOOSE iter : Folds(iter)
           g == [s \in SUBSET {} |-> down[c]]
<1>1. Delivered(c, << >>, table) = It[DOMAIN e]
  BY DEF Delivered, FoldLeft, MapThenFoldSet
<1>2. DOMAIN e = {}
  OBVIOUS
<1>3. Folds(g)
  BY <1>2
<1>4. Folds(It)
  BY <1>3
<1>5. It[{}] = down[c]
  BY <1>2, <1>4
<1>6. QED
  BY <1>1, <1>2, <1>5

\* One message is added for a client it reaches.
LEMMA DeliveredOne ==
  ASSUME NEW c \in Clients, NEW table, NEW m
  PROVE  Delivered(c, << m >>, table)
           = IF c \in Reached(m, table) THEN Append(down[c], m.frame) ELSE down[c]
<1> DEFINE e == << m >>
           Folds(iter) == iter = [s \in SUBSET DOMAIN e |->
                             IF s = {} THEN down[c]
                             ELSE IF c \in Reached(e[Max(s)], table)
                                  THEN Append(iter[s \ {Max(s)}], e[Max(s)].frame)
                                  ELSE iter[s \ {Max(s)}]]
           It == CHOOSE iter : Folds(iter)
           r == IF c \in Reached(m, table) THEN Append(down[c], m.frame) ELSE down[c]
           g == [s \in SUBSET {1} |-> IF s = {} THEN down[c] ELSE r]
<1>1. Delivered(c, << m >>, table) = It[DOMAIN e]
  BY DEF Delivered, FoldLeft, MapThenFoldSet
<1>2. DOMAIN e = {1} /\ e[1] = m
  OBVIOUS
<1>3. Max({1}) = 1
  BY DEF Max
<1>4. SUBSET {1} = {{}, {1}} /\ {1} \ {1} = {} /\ {} # {1}
  OBVIOUS
<1> HIDE DEF e
<1>5. Folds(g)
  <2>1. g[{}] = down[c] /\ g[{1}] = r
    BY <1>4
  <2>2. SUBSET DOMAIN e = SUBSET {1}
    BY <1>2
  <2>3. \A s \in SUBSET {1} :
          g[s] = IF s = {} THEN down[c]
                 ELSE IF c \in Reached(e[Max(s)], table)
                      THEN Append(g[s \ {Max(s)}], e[Max(s)].frame)
                      ELSE g[s \ {Max(s)}]
    <3>1. CASE c \in Reached(m, table)
      BY <3>1, <1>2, <1>3, <1>4, <2>1
    <3>2. CASE ~(c \in Reached(m, table))
      BY <3>2, <1>2, <1>3, <1>4, <2>1
    <3>3. QED
      BY <3>1, <3>2
  <2> HIDE DEF r
  <2>4. QED
    BY <2>2, <2>3
<1> HIDE DEF g
<1>6. Folds(It)
  BY <1>5
<1> HIDE DEF It
<1>7. It[{}] = down[c]
  BY <1>2, <1>4, <1>6
<1>8. It[{1}] = IF c \in Reached(e[Max({1})], table)
                THEN Append(It[{1} \ {Max({1})}], e[Max({1})].frame)
                ELSE It[{1} \ {Max({1})}]
  BY <1>2, <1>4, <1>6
<1>9. QED
  BY <1>1, <1>2, <1>3, <1>4, <1>7, <1>8

-----------------------------------------------------------------------------
(* The tables of one node *)

\* Both tables are functions on addresses.
TablesOK(s) ==
  /\ s = [table |-> s.table, pending |-> s.pending]
  /\ DOMAIN s.table \subseteq ValidIPs
  /\ s.table \in [DOMAIN s.table -> Entry]
  /\ DOMAIN s.pending \subseteq IPs
  /\ s.pending = [ip \in DOMAIN s.pending |-> s.pending[ip]]

\* The entry a node should have for a host; "own" is a client's connection ID.
TrueEntry(n, own, ip, e) ==
  IF Home[ip] = n THEN e.mac = HostMac[ip] /\ e.conn = NoConn
  ELSE /\ e.mac = NodeMac[n]
       /\ IF n = Server THEN e.conn \in IDs(Home[ip]) ELSE e.conn = own

TrueTable(n, own, s) ==
  \A ip \in DOMAIN s.table \cap Hosts : TrueEntry(n, own, ip, s.table[ip])

\* The nodes whose tables are true: with -p a client hears from itself.
Sure(n) == n = Server \/ ~Permissive

\* A node's tables have their type, and are true.
Good(n, own, s) == TablesOK(s) /\ (Sure(n) => TrueTable(n, own, s))

\* The frames a node captures, those a client sends, and those it is sent.
Captured(n) ==
  {f \in Frame : f.src \in Hosts /\ Home[f.src] = n /\ f.shost = HostMac[f.src]}
FromClient(c) == [conn : IDs(c), frame : {f \in Frame : f.src \in Hosts /\ Home[f.src] = c}]
FromServer ==
  {f \in Frame : f.src \in Hosts /\ (~Permissive => Home[f.src] = Server)}

\* A frame captured from a host teaches the node the host's own MAC
\* (UpdateIPTable, called by EncodePacket).
LEMMA LearnCaptured ==
  ASSUME NEW n \in Nodes, NEW own, NEW s, Good(n, own, s), NEW f \in Captured(n)
  PROVE  Good(n, own, UpdateIPTable(s, f.src, f.shost, NoConn))
<1> DEFINE u == UpdateIPTable(s, f.src, f.shost, NoConn)
<1>1. f.src \in ValidIPs /\ f.src \in Hosts /\ Home[f.src] = n /\ f.shost = HostMac[f.src]
      /\ f.shost \in Macs
  BY DEF Captured, Frame
<1>2. TablesOK(u)
  BY <1>1 DEF Good, TablesOK, UpdateIPTable, Put, Drop, Restrict, Entry
<1>3. ASSUME Sure(n) PROVE TrueTable(n, own, u)
  BY <1>1, <1>3 DEF Good, TablesOK, TrueTable, TrueEntry, UpdateIPTable, Put, Drop, Restrict,
                    Entry
<1>4. QED
  BY <1>2, <1>3 DEF Good

\* A frame received for a host of another network teaches the node its own MAC and the
\* connection it came over (UpdateIPTable, called by DecodePacket).
LEMMA LearnReceived ==
  ASSUME NEW n \in Nodes, NEW own, NEW s, Good(n, own, s), NEW ip \in Hosts,
         NEW conn \in Conns,
         Sure(n) => /\ Home[ip] # n
                    /\ IF n = Server THEN conn \in IDs(Home[ip]) ELSE conn = own
  PROVE  Good(n, own, UpdateIPTable(s, ip, NodeMac[n], conn))
<1> DEFINE u == UpdateIPTable(s, ip, NodeMac[n], conn)
<1>1. ip \in ValidIPs /\ NodeMac[n] \in Macs /\ conn # NoConn
  OBVIOUS
<1>2. TablesOK(u)
  BY <1>1 DEF Good, TablesOK, UpdateIPTable, Put, Drop, Restrict, Entry
<1>3. ASSUME Sure(n) PROVE TrueTable(n, own, u)
  BY <1>1, <1>3 DEF Good, TablesOK, TrueTable, TrueEntry, UpdateIPTable, Put, Drop, Restrict,
                    Entry
<1>4. QED
  BY <1>2, <1>3 DEF Good

\* A lookup only renews an entry (TryIPTableLookup).
LEMMA LookupGood ==
  ASSUME NEW n, NEW own, NEW s, Good(n, own, s), NEW ip
  PROVE  /\ Good(n, own, TryIPTableLookup(s, ip))
         /\ ConnectionOf(s, ip) \in Conns \cup {NoConn}
BY DEF Good, TablesOK, TrueTable, TrueEntry, TryIPTableLookup, ConnectionOf, Known, Entry

\* A destination that is looked up is one a node has a MAC for.
LEMMA KnownMac ==
  ASSUME NEW n, NEW own, NEW s, Good(n, own, s), NEW ip, Known(s, ip)
  PROVE  /\ s.table[ip].mac \in Macs
         /\ Sure(n) /\ ip \in Hosts /\ Home[ip] = n => s.table[ip].mac = HostMac[ip]
BY DEF Good, TablesOK, TrueTable, TrueEntry, Known, Entry

-----------------------------------------------------------------------------
(* What becomes of one frame *)

\* A packet for a host of the network it is put on carries that host's MAC.
ReachesHost(n, f) ==
  Sure(n) /\ IsData(f) /\ f.dst \in Hosts /\ Home[f.dst] = n => f.dhost = HostMac[f.dst]

\* What a Process... function makes of a frame: the tables stay good, the frame keeps
\* its source, and it goes on to its host or a request for the host's MAC does.
VerdictOK(n, own, f, v) ==
  /\ Good(n, own, v.st)
  /\ v.frame \in Frame /\ v.frame.src = f.src
  /\ v.conn \in Conns \cup {NoConn}
  /\ v.inject \in BOOLEAN
  /\ v.inject => v.request = << >> /\ ReachesHost(n, v.frame)
  /\ \/ v.request = << >>
     \/ \E r \in Frame : v.request = << r >> /\ r.src = f.src /\ ~IsData(r)

\* A verdict is in order when its parts are.
LEMMA VerdictIsOK ==
  ASSUME NEW n, NEW own, NEW f, NEW s, Good(n, own, s),
         NEW g \in Frame, g.src = f.src, NEW conn \in Conns \cup {NoConn},
         NEW inject \in BOOLEAN, inject => ReachesHost(n, g)
  PROVE  VerdictOK(n, own, f, Verdict(s, g, conn, inject))
BY DEF Verdict, VerdictOK

\* A frame readdressed to the MAC found for a destination it need not be sent to.
LEMMA FoundOK ==
  ASSUME NEW n, NEW own, NEW s, Good(n, own, s), NEW f, NEW g \in Frame, g.src = f.src,
         NEW ip, Known(s, ip), ip = g.dst \/ ~IsData(g)
  PROVE  VerdictOK(n, own, f, Verdict(TryIPTableLookup(s, ip),
                                      [g EXCEPT !.dhost = s.table[ip].mac],
                                      ConnectionOf(s, ip), TRUE))
<1> DEFINE h == [g EXCEPT !.dhost = s.table[ip].mac]
<1>1. s.table[ip].mac \in Macs
  BY KnownMac
<1>2. h \in Frame /\ h.src = f.src /\ h.dst = g.dst /\ h.dhost = s.table[ip].mac
      /\ h.type = g.type /\ h.op = g.op
  BY <1>1 DEF Frame
<1>3. Good(n, own, TryIPTableLookup(s, ip)) /\ ConnectionOf(s, ip) \in Conns \cup {NoConn}
  BY LookupGood
<1> HIDE DEF h
<1>4. ReachesHost(n, h)
  BY <1>2, KnownMac DEF ReachesHost, IsData
<1>5. VerdictOK(n, own, f, Verdict(TryIPTableLookup(s, ip), h, ConnectionOf(s, ip), TRUE))
  BY <1>2, <1>3, <1>4, VerdictIsOK
<1>6. QED
  BY <1>5 DEF h

\* The request for a MAC that a packet for an unknown host is dropped for.
LEMMA DropAndAskOK ==
  ASSUME NEW n \in Nodes, NEW own, NEW s, Good(n, own, s), NEW f \in Frame,
         f.type \in {"ip4", "ip6"}
  PROVE  VerdictOK(n, own, f, DropAndAsk(NodeOf(n), s, f))
<1> DEFINE asked == f.dst \in DOMAIN s.pending
           p == IF asked THEN s.pending ELSE Put(s.pending, f.dst, 0)
           t == [s EXCEPT !.pending = p]
           m == MacRequest(NodeOf(n), f)
           r == IF asked THEN << >> ELSE << m >>
           d == DropAndAsk(NodeOf(n), s, f)
<1>1. Good(n, own, t)
  <2>1. TablesOK(t)
    <3>1. DOMAIN p \subseteq IPs /\ p = [ip \in DOMAIN p |-> p[ip]]
      <4>1. DOMAIN s.pending \subseteq IPs /\ s.pending = [ip \in DOMAIN s.pending |-> s.pending[ip]]
        BY DEF Good, TablesOK
      <4>2. f.dst \in IPs
        BY DEF Frame
      <4>3. CASE asked
        BY <4>1, <4>3
      <4>4. CASE ~asked
        BY <4>1, <4>2, <4>4 DEF Put
      <4>5. QED
        BY <4>3, <4>4
    <3>2. t = [table |-> s.table, pending |-> p]
      BY DEF Good, TablesOK
    <3> HIDE DEF t, p
    <3>3. t = [table |-> t.table, pending |-> t.pending]
      BY <3>2
    <3>4. t.table = s.table /\ t.pending = p
      BY <3>2
    <3>5. QED
      BY <3>1, <3>3, <3>4 DEF Good, TablesOK
  <2>2. t.table = s.table
    BY DEF Good, TablesOK
  <2>3. QED
    BY <2>1, <2>2 DEF Good, TrueTable
<1>2. m \in Frame /\ m.src = f.src /\ ~IsData(m)
  <2>1. NodeOf(n).mac \in Macs
    BY DEF NodeOf
  <2>2. QED
    BY <2>1 DEF MacRequest, ARPRequest, NDPRequest, Frame, FrameTypes, FrameOps, IsData
<1>3. /\ d.st = t
      /\ d.frame = f
      /\ d.conn = NoConn
      /\ d.inject = FALSE
      /\ d.request = r
  BY DEF DropAndAsk, Verdict
<1> HIDE DEF t, m, d, p, asked
<1>4. r = << >> \/ \E q \in Frame : r = << q >> /\ q.src = f.src /\ ~IsData(q)
  BY <1>2
<1> HIDE DEF r
<1>5. VerdictOK(n, own, f, d)
  BY <1>1, <1>3, <1>4 DEF VerdictOK
<1>6. QED
  BY <1>5 DEF d

LEMMA ARPOK ==
  ASSUME NEW n \in Nodes, NEW own, NEW s, Good(n, own, s), NEW f \in Frame, f.type = "arp"
  PROVE  VerdictOK(n, own, f, ProcessARPPacket(NodeOf(n), s, f))
<1> DEFINE masked == [f EXCEPT !.sha = NodeOf(n).mac]
<1>1. masked \in Frame /\ masked.src = f.src /\ ~IsData(masked) /\ masked.dst = f.dst
  BY DEF Frame, NodeOf, IsData
<1>2. ~IsData(f)
  BY DEF IsData
<1>3. CASE f.op = "request"
  <2>1. ProcessARPPacket(NodeOf(n), s, f) = Verdict(s, masked, NoConn, TRUE)
    BY <1>3 DEF ProcessARPPacket
  <2> HIDE DEF masked
  <2>2. ReachesHost(n, masked)
    BY <1>1 DEF ReachesHost
  <2>3. VerdictOK(n, own, f, Verdict(s, masked, NoConn, TRUE))
    BY <1>1, <2>2, VerdictIsOK
  <2>4. QED
    BY <2>1, <2>3, Zenon
<1>4. CASE f.op # "request" /\ Known(s, f.dst)
  <2>1. ProcessARPPacket(NodeOf(n), s, f)
          = Verdict(TryIPTableLookup(s, f.dst), [masked EXCEPT !.dhost = s.table[f.dst].mac],
                    ConnectionOf(s, f.dst), TRUE)
    BY <1>4 DEF ProcessARPPacket
  <2> HIDE DEF masked
  <2>2. VerdictOK(n, own, f, Verdict(TryIPTableLookup(s, f.dst),
                                     [masked EXCEPT !.dhost = s.table[f.dst].mac],
                                     ConnectionOf(s, f.dst), TRUE))
    BY <1>1, <1>4, FoundOK
  <2>3. QED
    BY <2>1, <2>2, Zenon
<1>5. CASE f.op # "request" /\ ~Known(s, f.dst)
  <2>1. ProcessARPPacket(NodeOf(n), s, f) = Verdict(s, f, NoConn, FALSE)
    BY <1>5 DEF ProcessARPPacket
  <2>2. VerdictOK(n, own, f, Verdict(s, f, NoConn, FALSE))
    BY VerdictIsOK
  <2>3. QED
    BY <2>1, <2>2, Zenon
<1>6. QED
  BY <1>3, <1>4, <1>5

\* A packet is translated, dropped for a request, or goes to a multicast address.
LEMMA TranslateOK ==
  ASSUME NEW n \in Nodes, NEW own, NEW s, Good(n, own, s), NEW f \in Frame,
         f.type \in {"ip4", "ip6"}
  PROVE  VerdictOK(n, own, f, Translate(NodeOf(n), s, f))
<1>1. CASE Known(s, f.dst)
  <2>1. Translate(NodeOf(n), s, f)
          = Verdict(TryIPTableLookup(s, f.dst), [f EXCEPT !.dhost = s.table[f.dst].mac],
                    ConnectionOf(s, f.dst), TRUE)
    BY <1>1 DEF Translate
  <2>2. VerdictOK(n, own, f, Verdict(TryIPTableLookup(s, f.dst),
                                     [f EXCEPT !.dhost = s.table[f.dst].mac],
                                     ConnectionOf(s, f.dst), TRUE))
    BY <1>1, FoundOK
  <2>3. QED
    BY <2>1, <2>2, Zenon
<1>2. CASE ~Known(s, f.dst) /\ f.dst \notin MulticastIPs
  <2>1. Translate(NodeOf(n), s, f) = DropAndAsk(NodeOf(n), s, f)
    BY <1>2 DEF Translate
  <2>2. QED
    BY <2>1, DropAndAskOK
<1>3. CASE ~Known(s, f.dst) /\ f.dst \in MulticastIPs
  <2>1. Translate(NodeOf(n), s, f) = Verdict(s, f, NoConn, TRUE)
    BY <1>3 DEF Translate
  <2>2. ReachesHost(n, f)
    BY <1>3 DEF ReachesHost
  <2>3. VerdictOK(n, own, f, Verdict(s, f, NoConn, TRUE))
    BY <2>2, VerdictIsOK
  <2>4. QED
    BY <2>1, <2>3, Zenon
<1>4. QED
  BY <1>1, <1>2, <1>3

LEMMA IPv4OK ==
  ASSUME NEW n \in Nodes, NEW own, NEW s, Good(n, own, s), NEW f \in Frame, f.type = "ip4"
  PROVE  VerdictOK(n, own, f, ProcessIPv4Packet(NodeOf(n), s, f))
<1>1. CASE f.dst \in ValidIPs
  BY <1>1, TranslateOK DEF ProcessIPv4Packet
<1>2. CASE f.dst \notin ValidIPs
  <2>1. ReachesHost(n, f)
    BY <1>2 DEF ReachesHost
  <2>2. VerdictOK(n, own, f, Verdict(s, f, NoConn, TRUE))
    BY <2>1, VerdictIsOK
  <2>3. QED
    BY <1>2, <2>2 DEF ProcessIPv4Packet
<1>3. QED
  BY <1>1, <1>2

\* An IPv6 packet is translated like an IPv4 packet, and an advertisement that goes on is
\* readdressed once more, to the host it advertises.
LEMMA IPv6OK ==
  ASSUME NEW n \in Nodes, NEW own, NEW s, Good(n, own, s), NEW f \in Frame, f.type = "ip6"
  PROVE  VerdictOK(n, own, f, ProcessIPv6Packet(NodeOf(n), s, f))
<1> DEFINE v == Translate(NodeOf(n), s, f)
<1>1. VerdictOK(n, own, f, v)
  BY TranslateOK
<1>2. v.frame.op = f.op /\ v.frame.type = "ip6"
  BY DEF Translate, DropAndAsk, Verdict, Frame
<1> HIDE DEF v
<1>3. ASSUME v.inject, f.op = "advert"
      PROVE  VerdictOK(n, own, f, ProcessNDPPacket(v))
  <2>1. Good(n, own, v.st) /\ v.frame \in Frame /\ v.frame.src = f.src /\ ~IsData(v.frame)
    BY <1>1, <1>2, <1>3 DEF VerdictOK, IsData
  <2>2. CASE Known(v.st, v.frame.target)
    <3>1. VerdictOK(n, own, f, Verdict(TryIPTableLookup(v.st, v.frame.target),
                                       [v.frame EXCEPT !.dhost = v.st.table[v.frame.target].mac],
                                       ConnectionOf(v.st, v.frame.target), TRUE))
      BY <2>1, <2>2, FoundOK
    <3>2. QED
      BY <2>2, <3>1 DEF ProcessNDPPacket
  <2>3. CASE ~Known(v.st, v.frame.target)
    <3>1. ProcessNDPPacket(v) = [v EXCEPT !.inject = FALSE]
      BY <2>3 DEF ProcessNDPPacket
    <3>2. v = [st |-> v.st, frame |-> v.frame, conn |-> v.conn, inject |-> v.inject,
               request |-> v.request]
      BY DEF v, Translate, DropAndAsk, Verdict
    <3>3. QED
      BY <1>1, <3>1, <3>2 DEF VerdictOK
  <2>4. QED
    BY <2>2, <2>3
<1>4. VerdictOK(n, own, f, [v EXCEPT !.inject = FALSE])
  <2>1. v = [st |-> v.st, frame |-> v.frame, conn |-> v.conn, inject |-> v.inject,
             request |-> v.request]
    BY DEF v, Translate, DropAndAsk, Verdict
  <2>2. QED
    BY <1>1, <2>1 DEF VerdictOK
<1>5. CASE v.inject /\ f.op = "cut"
  BY <1>4, <1>5 DEF ProcessIPv6Packet, v
<1>6. CASE v.inject /\ f.op = "advert"
  BY <1>3, <1>6 DEF ProcessIPv6Packet, v
<1>7. CASE ~(v.inject /\ f.op \in {"cut", "advert"})
  BY <1>1, <1>7 DEF ProcessIPv6Packet, v
<1>8. QED
  BY <1>5, <1>6, <1>7

\* Every frame the switch of DecodePacket dispatches.
LEMMA ProcessOK ==
  ASSUME NEW n \in Nodes, NEW own, NEW s, Good(n, own, s), NEW f \in Frame, f.type # "other"
  PROVE  VerdictOK(n, own, f, Process(NodeOf(n), s, f))
<1>1. ~NodeOf(n).transparent
  BY DEF NodeOf
<1>2. CASE f.type = "arp"
  BY <1>1, <1>2, ARPOK DEF Process
<1>3. CASE f.type = "ip4"
  BY <1>1, <1>3, IPv4OK DEF Process
<1>4. CASE f.type = "ip6"
  <2>1. Process(NodeOf(n), s, f) = ProcessIPv6Packet(NodeOf(n), s, f)
    BY <1>1, <1>4 DEF Process
  <2>2. QED
    BY <1>4, <2>1, IPv6OK
<1>5. QED
  BY <1>2, <1>3, <1>4 DEF Frame, FrameTypes

\* What is put on the network of a node: nothing, or one frame from where the received
\* frame is from, which its host takes.
LanOK(n, f, frames) ==
  \/ frames = << >>
  \/ \E g \in Frame : frames = << g >> /\ g.src = f.src /\ ReachesHost(n, g)

\* What is handed to the middleware: nothing, or one message with the source of the frame.
MessagesOK(f, msgs) ==
  \/ msgs = << >>
  \/ \E m : msgs = << m >> /\ m.frame \in Frame /\ m.frame.src = f.src

\* DecodePacket, given a frame for a host of another network over a connection.
LEMMA DecodePacketOK ==
  ASSUME NEW n \in Nodes, NEW own, NEW s, Good(n, own, s), NEW f \in Frame, f.src \in Hosts,
         NEW conn \in Conns,
         Sure(n) => /\ Home[f.src] # n
                    /\ IF n = Server THEN conn \in IDs(Home[f.src]) ELSE conn = own
  PROVE  LET d == DecodePacket(NodeOf(n), s, conn, f)
         IN  /\ Good(n, own, d.st)
             /\ LanOK(n, f, d.lan)
             /\ MessagesOK(f, d.mw)
             /\ ~Permissive => d.mw = << >>
<1> DEFINE local   == [f EXCEPT !.shost = NodeOf(n).mac]
           learned == UpdateIPTable(s, local.src, local.shost, conn)
           v       == Process(NodeOf(n), learned, local)
           d       == DecodePacket(NodeOf(n), s, conn, f)
           own_    == IF v.inject /\ GoesToLan(NodeOf(n), v) THEN << v.frame >> ELSE << >>
           copies  == IF v.inject /\ GoesToClients(NodeOf(n), v) THEN << ClientCopy(v) >>
                                                                  ELSE << >>
<1>1. ~NodeOf(n).transparent /\ NodeOf(n).mac = NodeMac[n] /\ NodeMac[n] \in Macs
  BY DEF NodeOf
<1>2. CASE f.type = "other"
  BY <1>2 DEF DecodePacket, LanOK, MessagesOK
<1>3. CASE f.type # "other"
  <2>1. /\ local \in Frame
        /\ local.type = f.type /\ local.src = f.src /\ local.shost = NodeMac[n]
    BY <1>1 DEF Frame
  <2>2. d = [st |-> v.st, lan |-> v.request \o own_, mw |-> copies]
    BY <1>1, <1>3 DEF DecodePacket
  <2> HIDE DEF local
  <2>3. Good(n, own, learned)
    BY <2>1, LearnReceived
  <2> HIDE DEF learned
  <2>4. VerdictOK(n, own, local, v)
    BY <1>3, <2>1, <2>3, ProcessOK
  <2> HIDE DEF v
  <2>5. LanOK(n, f, v.request \o own_)
    <3>1. CASE v.inject
      <4>1. v.request = << >> /\ ReachesHost(n, v.frame) /\ v.frame \in Frame
            /\ v.frame.src = f.src
        BY <2>1, <2>4, <3>1 DEF VerdictOK
      <4>2. v.request \o own_ = own_
        BY <4>1
      <4>3. own_ = << >> \/ own_ = << v.frame >>
        OBVIOUS
      <4> HIDE DEF own_
      <4>4. QED
        BY <4>1, <4>2, <4>3 DEF LanOK
    <3>2. CASE ~v.inject
      <4>1. own_ = << >>
        BY <3>2
      <4>2. CASE v.request = << >>
        BY <4>1, <4>2 DEF LanOK
      <4>3. CASE v.request # << >>
        <5>1. PICK r \in Frame : v.request = << r >> /\ r.src = f.src /\ ~IsData(r)
          BY <2>1, <2>4, <4>3 DEF VerdictOK
        <5>2. v.request \o own_ = << r >>
          <6> HIDE DEF own_
          <6>1. << r >> \o << >> = << r >>
            OBVIOUS
          <6>2. QED
            BY <4>1, <5>1, <6>1
        <5>3. ReachesHost(n, r)
          BY <5>1 DEF ReachesHost
        <5>4. QED
          BY <5>1, <5>2, <5>3 DEF LanOK
      <4>4. QED
        BY <4>2, <4>3
    <3>3. QED
      BY <2>4, <3>1, <3>2 DEF VerdictOK
  <2>6. MessagesOK(f, copies)
    <3>1. ClientCopy(v).frame \in Frame /\ ClientCopy(v).frame.src = f.src
      BY <2>1, <2>4 DEF VerdictOK, ClientCopy
    <3>2. QED
      BY <3>1 DEF MessagesOK
  <2>7. ~Permissive => copies = << >>
    BY DEF GoesToClients, NodeOf
  <2> HIDE DEF own_, copies
  <2>8. Good(n, own, v.st)
    BY <2>4 DEF VerdictOK
  <2>9. QED
    BY <2>2, <2>5, <2>6, <2>7, <2>8
<1>4. QED
  BY <1>2, <1>3

\* EncodePacket, given a captured frame: it is learned and handed on.
LEMMA EncodePacketOK ==
  ASSUME NEW n \in Nodes, NEW own, NEW s, Good(n, own, s), NEW f \in Captured(n)
  PROVE  LET e == EncodePacket(NodeOf(n), s, f)
         IN  Good(n, own, e.st) /\ MessagesOK(f, e.mw)
<1> DEFINE learned == UpdateIPTable(s, f.src, f.shost, NoConn)
           unicast == SendTo(NodeOf(n), learned, f)
           e       == EncodePacket(NodeOf(n), s, f)
<1>1. Good(n, own, learned)
  BY LearnCaptured
<1>2. f \in Frame
  BY DEF Captured
<1>3. CASE f.type = "other"
  <2>1. e = [st |-> s, mw |-> << >>]
    BY <1>3 DEF EncodePacket
  <2>2. QED
    BY <2>1 DEF MessagesOK
<1>4. CASE f.type = "arp" \/ (f.type = "ip6" /\ f.op = "solicit")
  <2>1. e = [st |-> learned, mw |-> << ToAll(f) >>]
    BY <1>4 DEF EncodePacket
  <2>2. MessagesOK(f, << ToAll(f) >>)
    <3>1. ToAll(f).frame = f
      BY DEF ToAll
    <3>2. QED
      BY <1>2, <3>1 DEF MessagesOK
  <2> HIDE DEF learned, e
  <2>3. QED
    BY <1>1, <2>1, <2>2 DEF e
<1>5. CASE ~(f.type = "other" \/ f.type = "arp" \/ (f.type = "ip6" /\ f.op = "solicit"))
  <2>1. /\ Good(n, own, unicast.st)
        /\ unicast.sent = TRUE
        /\ \E m : unicast.mw = << m >> /\ m.frame \in Frame /\ m.frame.src = f.src
    <3> HIDE DEF learned
    <3>1. Good(n, own, TryIPTableLookup(learned, f.dst))
      BY <1>1, LookupGood
    <3>2. CASE NodeOf(n).server /\ f.dst \notin MulticastIPs
      <4> DEFINE to == IF ConnectionOf(learned, f.dst) = NoConn THEN AllClients
                       ELSE ConnectionOf(learned, f.dst)
                 m  == [to |-> to, frame |-> f]
      <4>1. unicast = [st |-> TryIPTableLookup(learned, f.dst), mw |-> << m >>, sent |-> TRUE]
        BY <3>2 DEF SendTo
      <4>2. m.frame = f
        OBVIOUS
      <4> HIDE DEF m, unicast
      <4>3. QED
        BY <1>2, <3>1, <4>1, <4>2
    <3>3. CASE ~(NodeOf(n).server /\ f.dst \notin MulticastIPs)
      <4>1. unicast = [st |-> learned, mw |-> << ToAll(f) >>, sent |-> TRUE]
        BY <3>3 DEF SendTo
      <4>2. ToAll(f).frame = f
        BY DEF ToAll
      <4> HIDE DEF unicast
      <4>3. QED
        BY <1>1, <1>2, <4>1, <4>2
    <3>4. QED
      BY <3>2, <3>3
  <2> DEFINE proxy == /\ ~unicast.sent
                      /\ ~NodeOf(n).transparent
                      /\ f.dst \in ValidIPs
  <2>2. e = [st |-> unicast.st,
             mw |-> unicast.mw \o IF proxy THEN << ToAll(MacRequest(NodeOf(n), f)) >> ELSE << >>]
    BY <1>5 DEF EncodePacket
  <2> HIDE DEF unicast, e
  <2>3. PICK m : unicast.mw = << m >> /\ m.frame \in Frame /\ m.frame.src = f.src
    BY <2>1
  <2>4. << m >> \o << >> = << m >>
    OBVIOUS
  <2>5. e.st = unicast.st /\ e.mw = << m >>
    BY <2>1, <2>2, <2>3, <2>4
  <2>6. QED
    BY <2>1, <2>3, <2>5 DEF MessagesOK, e
<1>6. QED
  BY <1>3, <1>4, <1>5

\* Whatever is put on a network, its hosts answer as themselves.
LEMMA RepliesOK ==
  ASSUME NEW n \in Nodes, NEW f, NEW frames, LanOK(n, f, frames)
  PROVE  Replies(n, frames) \in Seq(Captured(n))
<1>1. CASE frames = << >>
  <2>1. Replies(n, frames) = << >>
    BY <1>1, RepliesToNone
  <2>2. QED
    BY <2>1
<1>2. CASE frames # << >>
  <2>1. PICK g \in Frame : frames = << g >>
    BY <1>2 DEF LanOK
  <2>2. ASSUME Asked(n, g) PROVE Answer(g) \in Captured(n)
    <3>1. g.dst \in Hosts /\ Home[g.dst] = n /\ HostMac[g.dst] \in Macs
      BY <2>2 DEF Asked
    <3>2. Answer(g) \in Frame
      BY <3>1 DEF Answer, Frame, FrameOps
    <3>3. Answer(g).src = g.dst /\ Answer(g).shost = HostMac[g.dst]
      BY DEF Answer, Frame
    <3>4. QED
      BY <3>1, <3>2, <3>3 DEF Captured
  <2>3. Replies(n, frames) = IF Asked(n, g) THEN << Answer(g) >> ELSE << >>
    BY <2>1, RepliesToOne
  <2>4. CASE Asked(n, g)
    <3>1. << Answer(g) >> \in Seq(Captured(n))
      BY <2>2, <2>4
    <3>2. QED
      BY <2>3, <2>4, <3>1
  <2>5. CASE ~Asked(n, g)
    BY <2>3, <2>5
  <2>6. QED
    BY <2>4, <2>5
<1>3. QED
  BY <1>1, <1>2

\* The clients get what the server sends after what they had.
LEMMA DistributeOK ==
  ASSUME down \in [Clients -> Seq(FromServer)],
         NEW f, f.src \in Hosts, ~Permissive => Home[f.src] = Server,
         NEW msgs, MessagesOK(f, msgs), NEW table, Distribute(msgs, table)
  PROVE  down' \in [Clients -> Seq(FromServer)]
<1>1. SUFFICES ASSUME NEW c \in Clients
               PROVE  Delivered(c, msgs, table) \in Seq(FromServer)
  BY DEF Distribute
<1>2. CASE msgs = << >>
  BY <1>2, DeliveredNone
<1>3. CASE msgs # << >>
  <2>1. PICK m : msgs = << m >> /\ m.frame \in Frame /\ m.frame.src = f.src
    BY <1>3 DEF MessagesOK
  <2>2. m.frame \in FromServer
    BY <2>1 DEF FromServer
  <2>3. Delivered(c, msgs, table)
          = IF c \in Reached(m, table) THEN Append(down[c], m.frame) ELSE down[c]
    BY <2>1, DeliveredOne
  <2>4. QED
    BY <2>2, <2>3
<1>4. QED
  BY <1>2, <1>3

-----------------------------------------------------------------------------
(* The inductive invariant *)

Own(n) == IF n \in Clients THEN ConnOf(n) ELSE NoConn

\* What a step puts on a network.
Injected ==
  {l \in [at : Nodes, frame : Frame] :
     /\ ReachesHost(l.at, l.frame)
     /\ ~Permissive /\ l.at \in Clients => Home[l.frame.src] = Server}

IInv ==
  /\ st = [n \in Nodes |-> st[n]]
  /\ \A n \in Nodes : Good(n, Own(n), st[n])
  /\ ring = [n \in Nodes |-> ring[n]]
  /\ \A n \in Nodes : ring[n] \in Seq(Captured(n))
  /\ up = [c \in Clients |-> up[c]]
  /\ \A c \in Clients : up[c] \in Seq(FromClient(c))
  /\ down \in [Clients -> Seq(FromServer)]
  /\ runs \in [Clients -> Nat]
  /\ \A c \in Clients : runs[c] <= faults
  /\ clients \subseteq Conns
  /\ faults \in 0 .. MaxFaults
  /\ lan \in Seq(Injected)

\* A client's connection ID is one of its own.
LEMMA OwnID ==
  ASSUME IInv, NEW c \in Clients
  PROVE  ConnOf(c) \in IDs(c) /\ ConnOf(c) \in Conns
BY DEF IInv, ConnOf, IDs

LEMMA InitIInv == Init => IInv
<1> SUFFICES ASSUME Init PROVE IInv
  OBVIOUS
<1>1. ASSUME NEW n \in Nodes, NEW own
      PROVE  Good(n, own, [table |-> NoEntries, pending |-> NoEntries])
  BY DEF Good, TablesOK, TrueTable, NoEntries
<1>2. \A n \in Nodes : Good(n, Own(n), st[n])
  BY <1>1 DEF Init
<1>3. << >> \in Seq(Injected) /\ \A n : << >> \in Seq(Captured(n))
  OBVIOUS
<1>4. \A c : << >> \in Seq(FromClient(c))
  OBVIOUS
<1>5. << >> \in Seq(FromServer)
  OBVIOUS
<1>6. runs \in [Clients -> Nat] /\ faults \in 0 .. MaxFaults /\ \A c \in Clients : runs[c] <= faults
  BY DEF Init
<1>7. QED
  BY <1>2, <1>3, <1>4, <1>5, <1>6 DEF Init, IInv

\* A host sends a frame of its own.
LEMMA SendIInv ==
  ASSUME IInv, NEW f \in Traffic, Send(f)
  PROVE  IInv'
<1> DEFINE n == Home[f.src]
<1>1. f \in Frame /\ f.src \in Hosts /\ n \in Nodes /\ f \in Captured(n)
  BY DEF Captured
<1>2. /\ ring' = [ring EXCEPT ![n] = Append(@, f)]
      /\ lan' = << >>
      /\ UNCHANGED << st, up, down, runs, clients, faults >>
  BY DEF Send
<1>3. \A m \in Nodes : Own(m)' = Own(m)
  BY <1>2 DEF Own, ConnOf
<1>4. ring' = [m \in Nodes |-> ring'[m]]
  BY <1>2 DEF IInv
<1>5. ASSUME NEW m \in Nodes PROVE ring'[m] \in Seq(Captured(m))
  <2>1. CASE m = n
    <3>1. ring'[n] = Append(ring[n], f)
      BY <1>1, <1>2 DEF IInv
    <3>2. QED
      BY <1>1, <2>1, <3>1 DEF IInv
  <2>2. CASE m # n
    BY <1>2, <2>2 DEF IInv
  <2>3. QED
    BY <2>1, <2>2
<1>6. lan' \in Seq(Injected)
  BY <1>2
<1>7. QED
  BY <1>2, <1>3, <1>4, <1>5, <1>6 DEF IInv

\* What DecodePackets puts on a network, and the answers captured there.
LEMMA InjectOK ==
  ASSUME IInv, NEW n \in Nodes, NEW f, ~Permissive /\ n \in Clients => Home[f.src] = Server,
         NEW frames, LanOK(n, f, frames), Inject(n, frames)
  PROVE  /\ ring' = [m \in Nodes |-> ring'[m]]
         /\ \A m \in Nodes : ring'[m] \in Seq(Captured(m))
         /\ lan' \in Seq(Injected)
<1>1. /\ ring' = [ring EXCEPT ![n] = @ \o Replies(n, frames)]
      /\ lan' = [i \in DOMAIN frames |-> [at |-> n, frame |-> frames[i]]]
  BY DEF Inject
<1>2. ring' = [m \in Nodes |-> ring'[m]]
  BY <1>1 DEF IInv
<1>3. ASSUME NEW m \in Nodes PROVE ring'[m] \in Seq(Captured(m))
  <2>1. CASE m = n
    <3>1. ring'[n] = ring[n] \o Replies(n, frames)
      BY <1>1 DEF IInv
    <3>2. ring[n] \in Seq(Captured(n)) /\ Replies(n, frames) \in Seq(Captured(n))
      BY RepliesOK DEF IInv
    <3>3. QED
      BY <2>1, <3>1, <3>2
  <2>2. CASE m # n
    BY <1>1, <2>2 DEF IInv
  <2>3. QED
    BY <2>1, <2>2
<1>4. lan' \in Seq(Injected)
  <2>1. CASE frames = << >>
    <3>1. lan' = << >>
      BY <1>1, <2>1
    <3>2. QED
      BY <3>1
  <2>2. CASE frames # << >>
    <3>1. PICK g \in Frame : frames = << g >> /\ g.src = f.src /\ ReachesHost(n, g)
      BY <2>2 DEF LanOK
    <3> DEFINE l == [at |-> n, frame |-> g]
    <3>2. lan' = << l >>
      BY <1>1, <3>1
    <3>3. l \in Injected
      BY <3>1 DEF Injected
    <3> HIDE DEF l
    <3>4. QED
      BY <3>2, <3>3
  <2>3. QED
    BY <2>1, <2>2
<1>5. QED
  BY <1>2, <1>3, <1>4

\* A client hands what it captured to the middleware, under its connection ID.
LEMMA TransmitOK ==
  ASSUME IInv, NEW c \in Clients, NEW f, f.src \in Hosts, Home[f.src] = c,
         NEW msgs, MessagesOK(f, msgs), Transmit(c, msgs)
  PROVE  /\ up' = [d \in Clients |-> up'[d]]
         /\ \A d \in Clients : up'[d] \in Seq(FromClient(d))
<1> DEFINE sent == [i \in DOMAIN msgs |-> [conn |-> ConnOf(c), frame |-> msgs[i].frame]]
<1>1. up' = [up EXCEPT ![c] = @ \o sent]
  BY DEF Transmit
<1>2. sent \in Seq(FromClient(c))
  <2>1. CASE msgs = << >>
    <3>1. sent = << >>
      BY <2>1
    <3> HIDE DEF sent
    <3>2. QED
      BY <3>1
  <2>2. CASE msgs # << >>
    <3>1. PICK m : msgs = << m >> /\ m.frame \in Frame /\ m.frame.src = f.src
      BY <2>2 DEF MessagesOK
    <3> DEFINE x == [conn |-> ConnOf(c), frame |-> m.frame]
    <3>2. sent = << x >>
      BY <3>1
    <3>3. x \in FromClient(c)
      BY <3>1, OwnID DEF FromClient
    <3> HIDE DEF x, sent
    <3>4. QED
      BY <3>2, <3>3
  <2>3. QED
    BY <2>1, <2>2
<1> HIDE DEF sent
<1>3. up' = [d \in Clients |-> up'[d]]
  BY <1>1 DEF IInv
<1>4. ASSUME NEW d \in Clients PROVE up'[d] \in Seq(FromClient(d))
  <2>1. CASE d = c
    <3>1. up'[c] = up[c] \o sent
      BY <1>1 DEF IInv
    <3>2. QED
      BY <1>2, <2>1, <3>1 DEF IInv
  <2>2. CASE d # c
    BY <1>1, <2>2 DEF IInv
  <2>3. QED
    BY <2>1, <2>2
<1>5. QED
  BY <1>3, <1>4

\* A step of one node leaves the tables of the others alone.
LEMMA TablesStep ==
  ASSUME IInv, NEW n \in Nodes, NEW s, Good(n, Own(n), s), st' = [st EXCEPT ![n] = s],
         UNCHANGED runs
  PROVE  /\ st' = [m \in Nodes |-> st'[m]]
         /\ \A m \in Nodes : Good(m, Own(m)', st'[m])
<1>1. st' = [m \in Nodes |-> st'[m]]
  BY DEF IInv
<1>2. ASSUME NEW m \in Nodes PROVE Good(m, Own(m)', st'[m])
  <2>1. Own(m)' = Own(m)
    BY DEF Own, ConnOf
  <2>2. CASE m = n
    BY <2>1, <2>2 DEF IInv
  <2>3. CASE m # n
    BY <2>1, <2>3 DEF IInv
  <2>4. QED
    BY <2>2, <2>3
<1>3. QED
  BY <1>1, <1>2

\* A node takes the first frame of its ring.
LEMMA TakeRing ==
  ASSUME IInv, NEW n \in Nodes, ring[n] # << >>, ring' = [ring EXCEPT ![n] = Tail(@)]
  PROVE  /\ Head(ring[n]) \in Captured(n)
         /\ ring' = [m \in Nodes |-> ring'[m]]
         /\ \A m \in Nodes : ring'[m] \in Seq(Captured(m))
<1>1. ring[n] \in Seq(Captured(n))
  BY DEF IInv
<1>2. Head(ring[n]) \in Captured(n) /\ Tail(ring[n]) \in Seq(Captured(n))
  BY <1>1
<1>3. QED
  BY <1>2 DEF IInv

\* EncodePackets
LEMMA EncodeIInv ==
  ASSUME IInv, NEW n \in Nodes, Encode(n)
  PROVE  IInv'
<1> DEFINE f == Head(ring[n])
           e == EncodePacket(NodeOf(n), st[n], f)
<1>1. /\ ring[n] # << >>
      /\ st' = [st EXCEPT ![n] = e.st]
      /\ IF n = Server THEN Distribute(e.mw, clients) /\ UNCHANGED up
                       ELSE Transmit(n, e.mw) /\ UNCHANGED down
      /\ ring' = [ring EXCEPT ![n] = Tail(@)]
      /\ lan' = << >>
      /\ UNCHANGED << runs, clients, faults >>
  BY DEF Encode
<1>2. /\ f \in Captured(n)
      /\ ring' = [m \in Nodes |-> ring'[m]]
      /\ \A m \in Nodes : ring'[m] \in Seq(Captured(m))
  BY <1>1, TakeRing
<1>3. Good(n, Own(n), st[n])
  BY DEF IInv
<1> HIDE DEF f
<1>4. Good(n, Own(n), e.st) /\ MessagesOK(f, e.mw)
  BY <1>2, <1>3, EncodePacketOK
<1> HIDE DEF e
<1>5. /\ st' = [m \in Nodes |-> st'[m]]
      /\ \A m \in Nodes : Good(m, Own(m)', st'[m])
  BY <1>1, <1>4, TablesStep
<1>6. f.src \in Hosts /\ Home[f.src] = n
  BY <1>2 DEF Captured
<1>7. /\ up' = [c \in Clients |-> up'[c]]
      /\ \A c \in Clients : up'[c] \in Seq(FromClient(c))
      /\ down' \in [Clients -> Seq(FromServer)]
  <2>1. CASE n = Server
    <3>1. down \in [Clients -> Seq(FromServer)]
      BY DEF IInv
    <3>2. down' \in [Clients -> Seq(FromServer)]
      BY <1>1, <1>4, <1>6, <2>1, <3>1, DistributeOK
    <3>3. QED
      BY <1>1, <2>1, <3>2 DEF IInv
  <2>2. CASE n # Server
    <3>1. n \in Clients
      BY <2>2 DEF Nodes
    <3>2. QED
      BY <1>1, <1>4, <1>6, <2>2, <3>1, TransmitOK DEF IInv
  <2>3. QED
    BY <2>1, <2>2
<1>8. lan' \in Seq(Injected)
  BY <1>1
<1>9. QED
  BY <1>1, <1>2, <1>5, <1>7, <1>8 DEF IInv

\* The server receives from a client.
LEMMA ServerDecodeIInv ==
  ASSUME IInv, NEW c \in Clients, ServerDecode(c)
  PROVE  IInv'
<1> DEFINE m == Head(up[c])
           f == m.frame
           d == DecodePacket(NodeOf(Server), st[Server], m.conn, f)
<1>1. /\ up[c] # << >>
      /\ st' = [st EXCEPT ![Server] = d.st]
      /\ clients' = clients \cup {m.conn}
      /\ \E table \in {clients, clients'} : Distribute(d.mw, table)
      /\ Inject(Server, d.lan)
      /\ up' = [up EXCEPT ![c] = Tail(@)]
      /\ UNCHANGED << runs, faults >>
  BY DEF ServerDecode
<1>2. m \in FromClient(c) /\ Tail(up[c]) \in Seq(FromClient(c))
  <2>1. up[c] \in Seq(FromClient(c))
    BY DEF IInv
  <2>2. QED
    BY <1>1, <2>1
<1> HIDE DEF m
<1>3. /\ m.conn \in IDs(c) /\ m.conn \in Conns
      /\ f \in Frame /\ f.src \in Hosts /\ Home[f.src] = c
  BY <1>2 DEF FromClient
<1> HIDE DEF f
<1>4. Good(Server, Own(Server), st[Server]) /\ Server \in Nodes /\ c # Server
  BY DEF IInv, Nodes
<1>5. /\ Good(Server, Own(Server), d.st)
      /\ LanOK(Server, f, d.lan)
      /\ MessagesOK(f, d.mw)
      /\ ~Permissive => d.mw = << >>
  BY <1>3, <1>4, DecodePacketOK
<1> HIDE DEF d
<1>6. /\ st' = [n \in Nodes |-> st'[n]]
      /\ \A n \in Nodes : Good(n, Own(n)', st'[n])
  BY <1>1, <1>4, <1>5, TablesStep
<1>7. /\ ring' = [n \in Nodes |-> ring'[n]]
      /\ \A n \in Nodes : ring'[n] \in Seq(Captured(n))
      /\ lan' \in Seq(Injected)
  BY <1>1, <1>4, <1>5, InjectOK
<1>8. down' \in [Clients -> Seq(FromServer)]
  <2>1. PICK table : Distribute(d.mw, table)
    BY <1>1
  <2>2. down \in [Clients -> Seq(FromServer)]
    BY DEF IInv
  <2>3. CASE Permissive
    BY <1>3, <1>5, <2>1, <2>2, <2>3, DistributeOK
  <2>4. CASE ~Permissive
    <3>1. \A x \in Clients : Delivered(x, << >>, table) = down[x]
      BY DeliveredNone
    <3>2. down' = [x \in Clients |-> Delivered(x, << >>, table)]
      BY <1>5, <2>1, <2>4 DEF Distribute
    <3>3. QED
      BY <2>2, <3>1, <3>2
  <2>5. QED
    BY <2>3, <2>4
<1>9. /\ up' = [x \in Clients |-> up'[x]]
      /\ \A x \in Clients : up'[x] \in Seq(FromClient(x))
  BY <1>1, <1>2 DEF IInv
<1>10. clients' \subseteq Conns
  BY <1>1, <1>3 DEF IInv
<1>11. QED
  BY <1>1, <1>6, <1>7, <1>8, <1>9, <1>10 DEF IInv

\* A client receives from the server.
LEMMA ClientDecodeIInv ==
  ASSUME IInv, NEW c \in Clients, ClientDecode(c)
  PROVE  IInv'
<1> DEFINE f == Head(down[c])
           d == DecodePacket(NodeOf(c), st[c], ConnOf(c), f)
<1>1. /\ down[c] # << >>
      /\ st' = [st EXCEPT ![c] = d.st]
      /\ Inject(c, d.lan)
      /\ down' = [down EXCEPT ![c] = Tail(@)]
      /\ UNCHANGED << up, runs, clients, faults >>
  BY DEF ClientDecode
<1>2. f \in FromServer /\ Tail(down[c]) \in Seq(FromServer)
  <2>1. down[c] \in Seq(FromServer)
    BY DEF IInv
  <2>2. QED
    BY <1>1, <2>1
<1> HIDE DEF f
<1>3. f \in Frame /\ f.src \in Hosts /\ (~Permissive => Home[f.src] = Server)
  BY <1>2 DEF FromServer
<1>4. Good(c, ConnOf(c), st[c]) /\ Own(c) = ConnOf(c) /\ c \in Nodes /\ c # Server
  BY DEF IInv, Own, Nodes
<1>5. Good(c, ConnOf(c), d.st) /\ LanOK(c, f, d.lan)
  <2>1. ConnOf(c) \in Conns
    BY OwnID
  <2>2. Sure(c) => Home[f.src] # c
    BY <1>3, <1>4 DEF Sure
  <2>3. QED
    BY <1>3, <1>4, <2>1, <2>2, DecodePacketOK
<1> HIDE DEF d
<1>6. /\ st' = [n \in Nodes |-> st'[n]]
      /\ \A n \in Nodes : Good(n, Own(n)', st'[n])
  <2>1. Good(c, Own(c), d.st)
    BY <1>4, <1>5
  <2>2. UNCHANGED runs
    BY <1>1
  <2>3. QED
    BY <1>1, <1>4, <2>1, <2>2, TablesStep
<1>7. /\ ring' = [n \in Nodes |-> ring'[n]]
      /\ \A n \in Nodes : ring'[n] \in Seq(Captured(n))
      /\ lan' \in Seq(Injected)
  BY <1>1, <1>3, <1>4, <1>5, InjectOK
<1>8. down' \in [Clients -> Seq(FromServer)]
  BY <1>1, <1>2 DEF IInv
<1>9. QED
  BY <1>1, <1>6, <1>7, <1>8 DEF IInv

\* An entry of a node's tables expires.
LEMMA ExpireIInv ==
  ASSUME IInv, NEW n \in Nodes, NEW ip, Expire(n, ip)
  PROVE  IInv'
<1>1. /\ faults < MaxFaults /\ faults' = faults + 1
      /\ lan' = << >>
      /\ UNCHANGED << ring, up, down, runs, clients >>
  BY DEF Expire
<1>2. PICK s : Good(n, Own(n), s) /\ st' = [st EXCEPT ![n] = s]
  <2>1. Good(n, Own(n), st[n])
    BY DEF IInv
  <2>2. CASE st' = [st EXCEPT ![n].table = Drop(@, ip)]
    <3> DEFINE s == [st[n] EXCEPT !.table = Drop(@, ip)]
    <3>1. st' = [st EXCEPT ![n] = s]
      BY <2>2
    <3>2. Good(n, Own(n), s)
      <4>1. s.table = Drop(st[n].table, ip) /\ s.pending = st[n].pending
            /\ s = [table |-> s.table, pending |-> s.pending]
        BY <2>1 DEF Good, TablesOK
      <4> HIDE DEF s
      <4>2. QED
        BY <2>1, <4>1 DEF Good, TablesOK, TrueTable, Drop, Restrict
    <3>3. QED
      BY <3>1, <3>2
  <2>3. CASE st' = [st EXCEPT ![n].pending = Drop(@, ip)]
    <3> DEFINE s == [st[n] EXCEPT !.pending = Drop(@, ip)]
    <3>1. st' = [st EXCEPT ![n] = s]
      BY <2>3
    <3>2. Good(n, Own(n), s)
      <4>1. s.pending = Drop(st[n].pending, ip) /\ s.table = st[n].table
            /\ s = [table |-> s.table, pending |-> s.pending]
        BY <2>1 DEF Good, TablesOK
      <4> HIDE DEF s
      <4>2. QED
        BY <2>1, <4>1 DEF Good, TablesOK, TrueTable, Drop, Restrict
    <3>3. QED
      BY <3>1, <3>2
  <2>4. QED
    BY <2>2, <2>3 DEF Expire
<1>3. /\ st' = [m \in Nodes |-> st'[m]]
      /\ \A m \in Nodes : Good(m, Own(m)', st'[m])
  <2>1. UNCHANGED runs
    BY <1>1
  <2>2. QED
    BY <1>2, <2>1, TablesStep
<1>4. faults' \in 0 .. MaxFaults /\ \A c \in Clients : runs'[c] <= faults'
  BY <1>1 DEF IInv
<1>5. lan' \in Seq(Injected)
  BY <1>1
<1>6. \A m : Own(m)' = Own(m)
  BY <1>1 DEF Own, ConnOf
<1>7. QED
  BY <1>1, <1>3, <1>4, <1>5, <1>6 DEF IInv

\* The server forgets a connection.
LEMMA ExpireClientIInv ==
  ASSUME IInv, NEW conn, ExpireClient(conn)
  PROVE  IInv'
<1>1. /\ faults < MaxFaults /\ faults' = faults + 1
      /\ clients' = clients \ {conn}
      /\ lan' = << >>
      /\ UNCHANGED << st, ring, up, down, runs >>
  BY DEF ExpireClient
<1>2. faults' \in 0 .. MaxFaults /\ \A c \in Clients : runs'[c] <= faults'
  BY <1>1 DEF IInv
<1>3. lan' \in Seq(Injected)
  BY <1>1
<1>4. \A m : Own(m)' = Own(m)
  BY <1>1 DEF Own, ConnOf
<1>5. QED
  BY <1>1, <1>2, <1>3, <1>4 DEF IInv

\* A client starts again with nothing, and under a new connection ID.
LEMMA RestartIInv ==
  ASSUME IInv, NEW c \in Clients, Restart(c)
  PROVE  IInv'
<1> DEFINE empty == [table |-> NoEntries, pending |-> NoEntries]
<1>1. /\ faults < MaxFaults /\ faults' = faults + 1
      /\ runs' = [runs EXCEPT ![c] = @ + 1]
      /\ st' = [st EXCEPT ![c] = empty]
      /\ ring' = [ring EXCEPT ![c] = << >>]
      /\ down' = [down EXCEPT ![c] = << >>]
      /\ lan' = << >>
      /\ UNCHANGED << up, clients >>
  BY DEF Restart
<1>2. Good(c, Own(c)', empty)
  BY DEF Good, TablesOK, TrueTable, NoEntries
<1> HIDE DEF empty
<1>3. \A n \in Nodes : Good(n, Own(n)', st'[n])
  <2>1. SUFFICES ASSUME NEW n \in Nodes PROVE Good(n, Own(n)', st'[n])
    OBVIOUS
  <2>2. CASE n = c
    <3>1. st'[c] = empty
      BY <1>1, <2>2 DEF IInv
    <3>2. QED
      BY <1>2, <2>2, <3>1
  <2>3. CASE n # c
    <3>1. st'[n] = st[n]
      BY <1>1, <2>3 DEF IInv
    <3>2. Own(n)' = Own(n)
      BY <1>1, <2>3 DEF IInv, Own, ConnOf
    <3>3. QED
      BY <3>1, <3>2 DEF IInv
  <2>4. QED
    BY <2>2, <2>3
<1>4. st' = [n \in Nodes |-> st'[n]] /\ ring' = [n \in Nodes |-> ring'[n]]
  BY <1>1 DEF IInv
<1>5. ASSUME NEW n \in Nodes PROVE ring'[n] \in Seq(Captured(n))
  <2>1. CASE n = c
    BY <1>1, <2>1 DEF IInv
  <2>2. CASE n # c
    BY <1>1, <2>2 DEF IInv
  <2>3. QED
    BY <2>1, <2>2
<1>6. down' \in [Clients -> Seq(FromServer)]
  BY <1>1 DEF IInv
<1>7. /\ runs' \in [Clients -> Nat]
      /\ faults' \in 0 .. MaxFaults
      /\ \A x \in Clients : runs'[x] <= faults'
  BY <1>1 DEF IInv
<1>8. lan' \in Seq(Injected)
  BY <1>1
<1>9. QED
  BY <1>1, <1>3, <1>4, <1>5, <1>6, <1>7, <1>8 DEF IInv

LEMMA NextIInv == IInv /\ [Next]_vars => IInv'
<1> SUFFICES ASSUME IInv, [Next]_vars PROVE IInv'
  OBVIOUS
<1>1. CASE \E f \in Traffic : Send(f)
  BY <1>1, SendIInv
<1>2. CASE \E n \in Nodes : Encode(n)
  BY <1>2, EncodeIInv
<1>3. CASE \E c \in Clients : ServerDecode(c)
  BY <1>3, ServerDecodeIInv
<1>4. CASE \E c \in Clients : ClientDecode(c)
  BY <1>4, ClientDecodeIInv
<1>5. CASE \E c \in Clients : Restart(c)
  BY <1>5, RestartIInv
<1>6. CASE \E conn \in Conns : ExpireClient(conn)
  BY <1>6, ExpireClientIInv
<1>7. CASE \E n \in Nodes, ip \in IPs : Expire(n, ip)
  BY <1>7, ExpireIInv
<1>8. CASE UNCHANGED vars
  BY <1>8 DEF vars, IInv, Own, ConnOf
<1>9. QED
  BY <1>1, <1>2, <1>3, <1>4, <1>5, <1>6, <1>7, <1>8 DEF Next

LEMMA Inductive == Spec => []IInv
<1>1. Init => IInv
  BY InitIInv
<1>2. IInv /\ [Next]_vars => IInv'
  BY NextIInv
<1>3. QED
  BY <1>1, <1>2, PTL DEF Spec

-----------------------------------------------------------------------------
(* The theorems *)

\* Sequences over a set are sequences over a larger one.
LEMMA SeqOfLarger ==
  ASSUME NEW S, NEW T, S \subseteq T, NEW s \in Seq(S)
  PROVE  s \in Seq(T)
OBVIOUS

\* Tables and everything in transit keep their type, with and without -p.
THEOREM TypeCorrect == Spec => []TypeOK
<1>1. IInv => TypeOK
  <2> SUFFICES ASSUME IInv PROVE TypeOK
    OBVIOUS
  <2>1. ASSUME NEW n \in Nodes
        PROVE  /\ DOMAIN st[n].table \subseteq ValidIPs
               /\ \A ip \in DOMAIN st[n].table : st[n].table[ip] \in Entry
               /\ DOMAIN st[n].pending \subseteq IPs
               /\ ring[n] \in Seq(Frame)
    <3>1. TablesOK(st[n])
      BY DEF IInv, Good
    <3>2. ring[n] \in Seq(Captured(n)) /\ Captured(n) \subseteq Frame
      BY DEF IInv, Captured
    <3>3. ring[n] \in Seq(Frame)
      BY <3>2
    <3>4. QED
      BY <3>1, <3>3 DEF TablesOK
  <2>2. ASSUME NEW c \in Clients
        PROVE  /\ up[c] \in Seq([conn : IDs(c), frame : Frame])
               /\ down[c] \in Seq(Frame)
    <3> DEFINE T == [conn : IDs(c), frame : Frame]
    <3>1. up[c] \in Seq(FromClient(c)) /\ FromClient(c) \subseteq T
      BY DEF IInv, FromClient
    <3>2. down[c] \in Seq(FromServer) /\ FromServer \subseteq Frame
      BY DEF IInv, FromServer
    <3>3. up[c] \in Seq(T)
      <4> HIDE DEF T
      <4>1. QED
        BY <3>1, SeqOfLarger
    <3>4. down[c] \in Seq(Frame)
      BY <3>2, SeqOfLarger
    <3>5. QED
      BY <3>3, <3>4
  <2>3. runs \in [Clients -> 0 .. MaxFaults]
    BY DEF IInv
  <2>4. lan \in Seq([at : Nodes, frame : Frame])
    <3>1. lan \in Seq(Injected) /\ Injected \subseteq [at : Nodes, frame : Frame]
      BY DEF IInv, Injected
    <3>2. QED
      BY <3>1, SeqOfLarger
  <2>5. QED
    BY <2>1, <2>2, <2>3, <2>4 DEF IInv, TypeOK
<1>2. QED
  BY <1>1, Inductive, PTL

\* Without -p every entry of every node's IP table is true, in whatever order requests,
\* replies, packets, expiries and restarts come (UpdateIPTable).
THEOREM RoutesStayTrue ==
  ASSUME ~Permissive
  PROVE  Spec => []RoutesAreTrue
<1>1. IInv => RoutesAreTrue
  <2> SUFFICES ASSUME IInv, NEW n \in Nodes, NEW ip \in DOMAIN st[n].table \cap Hosts
               PROVE  IsTrue(n, ip)
    BY DEF RoutesAreTrue
  <2>1. TrueEntry(n, Own(n), ip, st[n].table[ip])
    BY DEF IInv, Good, Sure, TrueTable
  <2>2. QED
    BY <2>1 DEF TrueEntry, IsTrue, Own, Nodes
<1>2. QED
  BY <1>1, Inductive, PTL

\* With -p as well, the server's own table is true: it sends a frame for a client's host
\* over a connection of that client and no other (SendPacket).
THEOREM ServerRoutesStayTrue ==
  Spec => [](\A ip \in DOMAIN st[Server].table \cap Hosts : IsTrue(Server, ip))
<1>1. IInv => \A ip \in DOMAIN st[Server].table \cap Hosts : IsTrue(Server, ip)
  <2> SUFFICES ASSUME IInv, NEW ip \in DOMAIN st[Server].table \cap Hosts
               PROVE  IsTrue(Server, ip)
    OBVIOUS
  <2>1. TrueEntry(Server, Own(Server), ip, st[Server].table[ip])
    BY DEF IInv, Good, Sure, TrueTable, Nodes
  <2>2. QED
    BY <2>1 DEF TrueEntry, IsTrue
<1>2. QED
  BY <1>1, Inductive, PTL

\* Without -p an IP packet that is put on the network of the host it is for carries that
\* host's MAC (PacketProcessor.cpp:390).
THEOREM HostsTakeTheirPackets ==
  ASSUME ~Permissive
  PROVE  Spec => []PacketsReachTheirHost
<1>1. IInv => PacketsReachTheirHost
  <2> SUFFICES ASSUME IInv PROVE PacketsReachTheirHost
    OBVIOUS
  <2>1. \A i \in DOMAIN lan : lan[i] \in Injected
    BY DEF IInv
  <2>2. QED
    BY <2>1 DEF PacketsReachTheirHost, Injected, ReachesHost, Sure
<1>2. QED
  BY <1>1, Inductive, PTL

\* Without -p nothing a host behind a client sends is put on the network of a client
\* (ARMOREProxy.cpp:95).
THEOREM ClientsStaySegmented == Spec => []ClientsAreSegmented
<1>1. IInv => ClientsAreSegmented
  <2> SUFFICES ASSUME IInv PROVE ClientsAreSegmented
    OBVIOUS
  <2>1. \A i \in DOMAIN lan : lan[i] \in Injected
    BY DEF IInv
  <2>2. QED
    BY <2>1 DEF ClientsAreSegmented, Injected
<1>2. QED
  BY <1>1, Inductive, PTL

=============================================================================
