--------------------------- MODULE MacTranslation ---------------------------
(***************************************************************************)
(* The packet handling of PacketProcessor.cpp as pure operators: what one  *)
(* captured frame (EncodePacket) and one frame received from the           *)
(* middleware (DecodePacket) do to the IP table and to the table of        *)
(* pending MAC requests, and which frames they give to the local interface *)
(* and to the middleware.                                                  *)
(*                                                                         *)
(* A node is [mac, server, transparent, permissive]: the MAC of the        *)
(* captured interface and the command line options -s, -h and -p.  The     *)
(* tables are st = [table, pending]; both are partial functions on IPs.    *)
(* Instead of the time of the last access each entry keeps the seconds     *)
(* that have passed since ("idle"), saturated one past the timeout the     *)
(* code compares it with, which is all that comparison can see.            *)
(***************************************************************************)
EXTENDS Naturals, Sequences, Functions

CONSTANTS
  IPs,          \* addresses that occur in frames
  ValidIPs,     \* those IPAddress::IsValid accepts (every IPv6 address; an
                \* IPv4 address whose host part is neither all 0 nor all 1)
  MulticastIPs, \* those IPAddress::IsMulticast accepts
  Macs,         \* MAC addresses
  Broadcast,    \* MacAddress::Broadcast
  Conns,        \* connection IDs (UUIDs) of the middleware
  NoConn,       \* UUID::Empty
  AllClients    \* destination of a buffer sent down every path

ASSUME TranslationAssumption ==
  /\ ValidIPs \subseteq IPs
  /\ MulticastIPs \subseteq IPs
  /\ Broadcast \in Macs
  /\ NoConn \notin Conns
  /\ AllClients \notin Conns \cup {NoConn}

(***************************************************************************)
(* A frame carries what the code reads or rewrites of it.  "other" stands  *)
(* for every frame either direction rejects: an uncommon Ethernet type or  *)
(* one too short for its header.  "src" and "dst" are arp_spa and arp_tpa, *)
(* ip_src and ip_dst, or ip6_src and ip6_dst; "target" is nd_na_target of  *)
(* an advertisement; "sha" is arp_sha.  arp_tha, which is only ever given  *)
(* the value of dhost, is folded into dhost.  "lla" are the addresses in   *)
(* the link-layer address options of an NDP message, which the code passes *)
(* on as they are.  A "cut" IPv6 frame ends before the extension, ICMPv6   *)
(* or advertisement header it announces.                                   *)
(***************************************************************************)
FrameTypes == {"arp", "ip4", "ip6", "other"}
FrameOps   == {"request", "reply", "data", "solicit", "advert", "cut"}
Frame == [type : FrameTypes, op : FrameOps, src : IPs, dst : IPs, target : IPs,
          shost : Macs, dhost : Macs, sha : Macs, lla : SUBSET Macs]

Node == [mac : Macs, server : BOOLEAN, transparent : BOOLEAN, permissive : BOOLEAN]

NoEntries == [ip \in {} |-> 0]

\* Add or replace one entry of a table; remove one.
Put(f, k, v) == [x \in DOMAIN f \cup {k} |-> IF x = k THEN v ELSE f[x]]
Drop(f, k)   == Restrict(f, DOMAIN f \ {k})

-----------------------------------------------------------------------------
(* The tables *)

\* Faulty variants of UpdateIPTable for the mutation runs: every source is
\* learned; a resolved address stays pending.
UpdateIPTable_AnySource(st, ip, mac, conn) ==
  [table   |-> Put(st.table, ip, [mac |-> mac, conn |-> conn, idle |-> 0]),
   pending |-> Drop(st.pending, ip)]

UpdateIPTable_KeepsPending(st, ip, mac, conn) ==
  [st EXCEPT !.table = IF ip \in ValidIPs
                       THEN Put(@, ip, [mac |-> mac, conn |-> conn, idle |-> 0]) ELSE @]

\* Faulty variant: a frame from a connection only refreshes the entry, too.
UpdateIPTable_KeepsConnection(st, ip, mac, conn) ==
  IF ip \notin ValidIPs THEN st
  ELSE [table   |-> Put(st.table, ip, IF ip \in DOMAIN st.table
                                      THEN [st.table[ip] EXCEPT !.idle = 0]
                                      ELSE [mac |-> mac, conn |-> conn, idle |-> 0]),
        pending |-> Drop(st.pending, ip)]

\* A frame captured locally is learned with conn = NoConn.  It only refreshes
\* an entry that exists; a frame from a connection replaces it.
UpdateIPTable(st, ip, mac, conn) ==
  IF ip \notin ValidIPs THEN st
  ELSE IF ip \notin DOMAIN st.table
       THEN [table   |-> Put(st.table, ip, [mac |-> mac, conn |-> conn, idle |-> 0]),
             pending |-> Drop(st.pending, ip)]
       ELSE [table   |-> [st.table EXCEPT ![ip] =
                            [mac  |-> IF conn = NoConn THEN @.mac ELSE mac,
                             conn |-> IF conn = NoConn THEN @.conn ELSE conn,
                             idle |-> 0]],
             pending |-> st.pending]

Known(st, ip) == ip \in DOMAIN st.table

\* A lookup counts as an access to the entry it finds ...
TryIPTableLookup(st, ip) ==
  IF Known(st, ip) THEN [st EXCEPT !.table[ip].idle = 0] ELSE st

\* ... and leaves the connection ID it was given empty when it finds none.
ConnectionOf(st, ip) == IF Known(st, ip) THEN st.table[ip].conn ELSE NoConn

-----------------------------------------------------------------------------
(* Captured interface => middleware *)

ARPRequest(node, f) ==
  [f EXCEPT !.type = "arp", !.op = "request", !.shost = node.mac,
            !.dhost = Broadcast, !.sha = node.mac, !.lla = {}]

\* ip6_src of the packet that is built is not assigned; it has no options
NDPRequest(node, f) ==
  [f EXCEPT !.op = "solicit", !.target = f.dst, !.shost = node.mac, !.dhost = Broadcast,
            !.lla = {}]

MacRequest(node, f) == IF f.type = "ip4" THEN ARPRequest(node, f) ELSE NDPRequest(node, f)

ToAll(f) == [to |-> AllClients, frame |-> f]

\* SendPacket(destinationIP, packet): one destination for a server that knows
\* it, every path otherwise.  It reports success whatever it found.
SendTo(node, st, f) ==
  IF node.server /\ f.dst \notin MulticastIPs
  THEN LET conn == ConnectionOf(st, f.dst)
       IN  [st   |-> TryIPTableLookup(st, f.dst),
            mw   |-> << [to |-> IF conn = NoConn THEN AllClients ELSE conn, frame |-> f] >>,
            sent |-> TRUE]
  ELSE [st |-> st, mw |-> << ToAll(f) >>, sent |-> TRUE]

\* EncodePacket with the two SendPacket(sourceIP, ...) it dispatches to
EncodePacket(node, st, f) ==
  LET learned == UpdateIPTable(st, f.src, f.shost, NoConn)
      unicast == SendTo(node, learned, f)
      proxy   == /\ ~unicast.sent
                 /\ ~node.transparent
                 /\ f.dst \in ValidIPs
  IN  CASE f.type = "other" ->
             [st |-> st, mw |-> << >>]
        [] f.type = "arp" \/ (f.type = "ip6" /\ f.op = "solicit") ->
             [st |-> learned, mw |-> << ToAll(f) >>]
        [] OTHER ->
             [st |-> unicast.st,
              mw |-> unicast.mw \o IF proxy THEN << ToAll(MacRequest(node, f)) >> ELSE << >>]

-----------------------------------------------------------------------------
(* Middleware => captured interface                                        *)
(*                                                                         *)
(* Each Process... function decides what becomes of the frame f received   *)
(* from connection conn, once its source has been learned:                 *)
(* [st, frame, conn, inject, request], the tables after it, the rewritten  *)
(* frame, the connection of the destination, whether the frame goes on,    *)
(* and the MAC request injected instead of it, if any.                     *)

Verdict(st, f, conn, inject) ==
  [st |-> st, frame |-> f, conn |-> conn, inject |-> inject, request |-> << >>]

\* Transparent operation only looks up the connection.
ProcessTransparent(st, f) ==
  Verdict(TryIPTableLookup(st, f.dst), f, ConnectionOf(st, f.dst), TRUE)

\* A reply for an address that is not in the table is dropped.
ProcessARPPacket(node, st, f) ==
  LET masked == [f EXCEPT !.sha = node.mac]
  IN  CASE f.op = "request" -> Verdict(st, masked, NoConn, TRUE)
        [] f.op # "request" /\ Known(st, f.dst) ->
             Verdict(TryIPTableLookup(st, f.dst),
                     [masked EXCEPT !.dhost = st.table[f.dst].mac],
                     ConnectionOf(st, f.dst), TRUE)
        [] OTHER -> Verdict(st, f, NoConn, FALSE)

\* Faulty variants: the request is not recorded; its time is renewed by every
\* packet dropped.
DropAndAsk_Unrecorded(node, st, f) ==
  [Verdict(st, f, NoConn, FALSE) EXCEPT !.request = << MacRequest(node, f) >>]

DropAndAsk_Renewed(node, st, f) ==
  [Verdict([st EXCEPT !.pending = Put(@, f.dst, 0)], f, NoConn, FALSE)
   EXCEPT !.request = IF f.dst \in DOMAIN st.pending THEN << >> ELSE << MacRequest(node, f) >>]

\* A packet for an unknown host is dropped; the first one asks for its MAC.
DropAndAsk(node, st, f) ==
  LET asked == f.dst \in DOMAIN st.pending
  IN  [Verdict([st EXCEPT !.pending = IF asked THEN @ ELSE Put(@, f.dst, 0)],
               f, NoConn, FALSE)
       EXCEPT !.request = IF asked THEN << >> ELSE << MacRequest(node, f) >>]

\* Faulty variant: the MAC is looked up of the source.
Translate_BySource(node, st, f) ==
  IF Known(st, f.dst)
  THEN Verdict(TryIPTableLookup(st, f.dst),
               [f EXCEPT !.dhost = st.table[IF Known(st, f.src) THEN f.src ELSE f.dst].mac],
               ConnectionOf(st, f.dst), TRUE)
  ELSE IF f.dst \notin MulticastIPs THEN DropAndAsk(node, st, f) ELSE Verdict(st, f, NoConn, TRUE)

\* Common part of ProcessIPv4Packet and ProcessIPv6Packet
Translate(node, st, f) ==
  CASE Known(st, f.dst) ->
         Verdict(TryIPTableLookup(st, f.dst),
                 [f EXCEPT !.dhost = st.table[f.dst].mac],
                 ConnectionOf(st, f.dst), TRUE)
    [] ~Known(st, f.dst) /\ f.dst \notin MulticastIPs -> DropAndAsk(node, st, f)
    [] OTHER -> Verdict(st, f, NoConn, TRUE)

ProcessIPv4Packet(node, st, f) ==
  IF f.dst \in ValidIPs THEN Translate(node, st, f) ELSE Verdict(st, f, NoConn, TRUE)

\* Looks up the advertised address, not the one the frame is sent to.
ProcessNDPPacket(v) ==
  IF Known(v.st, v.frame.target)
  THEN Verdict(TryIPTableLookup(v.st, v.frame.target),
               [v.frame EXCEPT !.dhost = v.st.table[v.frame.target].mac],
               ConnectionOf(v.st, v.frame.target), TRUE)
  ELSE [v EXCEPT !.inject = FALSE]

\* The headers after the IPv6 header are only read when the destination has
\* been looked up: a frame without them is dropped, its host known or not.
ProcessIPv6Packet(node, st, f) ==
  LET v == Translate(node, st, f)
  IN  CASE v.inject /\ f.op = "cut"    -> [v EXCEPT !.inject = FALSE]
        [] v.inject /\ f.op = "advert" -> ProcessNDPPacket(v)
        [] OTHER -> v

Process(node, st, f) ==
  CASE node.transparent  -> ProcessTransparent(st, f)
    [] ~node.transparent /\ f.type = "arp" -> ProcessARPPacket(node, st, f)
    [] ~node.transparent /\ f.type = "ip4" -> ProcessIPv4Packet(node, st, f)
    [] OTHER -> ProcessIPv6Packet(node, st, f)

\* Where a frame that goes on is sent: the local interface, except when a
\* permissive server knows the client it is for ...
GoesToLan(node, v) ==
  \/ ~(node.permissive /\ node.server)
  \/ v.frame.dst \in MulticastIPs
  \/ v.conn = NoConn

\* Faulty variant: the server does so without -p.
GoesToClients_Always(node, v) ==
  /\ node.server
  /\ v.frame.dst \in MulticastIPs \/ v.conn # NoConn \/ v.frame.type = "arp"

\* ... and, from a permissive server, the clients.
GoesToClients(node, v) ==
  /\ node.permissive /\ node.server
  /\ v.frame.dst \in MulticastIPs \/ v.conn # NoConn \/ v.frame.type = "arp"

ClientCopy(v) ==
  [to |-> IF v.frame.dst \in MulticastIPs \/ v.conn = NoConn THEN AllClients ELSE v.conn,
   frame |-> v.frame]

\* Faulty variant: the table learns the source MAC before it is replaced.
DecodePacket_LearnsFirst(node, st, conn, f) ==
  LET learned == UpdateIPTable(st, f.src, f.shost, conn)
      local   == IF node.transparent THEN f ELSE [f EXCEPT !.shost = node.mac]
      v       == Process(node, learned, local)
  IN  [st  |-> v.st,
       lan |-> v.request \o IF v.inject /\ GoesToLan(node, v) THEN << v.frame >> ELSE << >>,
       mw  |-> IF v.inject /\ GoesToClients(node, v) THEN << ClientCopy(v) >> ELSE << >>]

\* In opaque operation the source MAC is replaced before it is learned.
DecodePacket(node, st, conn, f) ==
  LET local   == IF node.transparent THEN f ELSE [f EXCEPT !.shost = node.mac]
      learned == UpdateIPTable(st, local.src, local.shost, conn)
      v       == Process(node, learned, local)
  IN  IF f.type = "other"
      THEN [st |-> st, lan |-> << >>, mw |-> << >>]
      ELSE [st  |-> v.st,
            lan |-> v.request \o IF v.inject /\ GoesToLan(node, v)
                                 THEN << v.frame >> ELSE << >>,
            mw  |-> IF v.inject /\ GoesToClients(node, v)
                    THEN << ClientCopy(v) >> ELSE << >>]

-----------------------------------------------------------------------------
(* Expiry *)

CheckActiveIPAddresses(st, timeout) ==
  [st EXCEPT !.table = Restrict(@, {ip \in DOMAIN @ : @[ip].idle <= timeout})]

CheckPendingIPMacRequests(st, timeout) ==
  [st EXCEPT !.pending = Restrict(@, {ip \in DOMAIN @ : @[ip] <= timeout})]

\* One second passes (time(nullptr) advances).
Older(idle, timeout) == IF idle <= timeout THEN idle + 1 ELSE idle

Age(st, ipTimeout, macTimeout) ==
  [table   |-> [ip \in DOMAIN st.table |->
                  [st.table[ip] EXCEPT !.idle = Older(@, ipTimeout)]],
   pending |-> [ip \in DOMAIN st.pending |-> Older(st.pending[ip], macTimeout)]]

=============================================================================
