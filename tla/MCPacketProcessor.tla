-------------------------- MODULE MCPacketProcessor --------------------------
(***************************************************************************)
(* Small instances of PacketProcessor for TLC: one local host, one remote  *)
(* host, a multicast and a broadcast address, and the frames they send.    *)
(***************************************************************************)
EXTENDS PacketProcessor

CONSTANTS host, remote, group, everyone,      \* addresses
          nobody,                             \* 0.0.0.0
          hostMac, proxyMac, peerMac, bcMac,  \* MAC addresses
          c1, c2                              \* connections

MCIPs       == {host, remote, group, everyone, nobody}
MCValid     == {host, remote, group}
MCMulticast == {group}
MCMacs      == {hostMac, proxyMac, peerMac, bcMac}

OpaqueClient      == [mac |-> proxyMac, server |-> FALSE, transparent |-> FALSE, permissive |-> FALSE]
OpaqueServer      == [OpaqueClient EXCEPT !.server = TRUE]
PermissiveServer  == [OpaqueServer EXCEPT !.permissive = TRUE]

F(type, op, src, dst, shost) ==
  [type |-> type, op |-> op, src |-> src, dst |-> dst, target |-> src,
   shost |-> shost, dhost |-> bcMac, sha |-> shost,
   lla |-> IF op \in {"solicit", "advert"} THEN {shost} ELSE {}]

FromHost(type, op, dst) == F(type, op, host, dst, hostMac)
FromPeer(c, type, op, dst) == [conn |-> c, frame |-> F(type, op, remote, dst, peerMac)]

\* Both families: a host that resolves addresses and sends packets, before it
\* has an address and after; one peer behind a client and one host of another
\* client with the same kinds of frames, and frames the proxy rejects
MixedCaptured == {FromHost("arp", "request", remote), FromHost("ip4", "data", remote),
                  F("ip4", "data", nobody, everyone, hostMac),
                  FromHost("ip6", "solicit", group), FromHost("other", "data", remote)}
MixedReceived == {FromPeer(c1, "ip4", "data", host), FromPeer(c1, "arp", "request", host),
                  FromPeer(c1, "arp", "reply", host), FromPeer(c1, "ip4", "data", everyone),
                  FromPeer(c1, "ip6", "advert", host), FromPeer(c1, "ip6", "data", group),
                  FromPeer(c2, "ip6", "data", host), FromPeer(c2, "ip6", "cut", host),
                  [conn |-> c2, frame |-> F("ip6", "data", host, remote, hostMac)],
                  FromPeer(c1, "other", "data", host)}

\* One frame from the network and two from the middleware are enough for the
\* queues and for the liveness properties.  The frame from the network is of a
\* host that has no address yet, so that it resolves no pending request.
LiveCaptured == {F("ip4", "data", nobody, everyone, hostMac)}
LiveReceived == {FromPeer(c1, "ip4", "data", everyone), FromPeer(c1, "ip4", "data", host)}

=============================================================================
