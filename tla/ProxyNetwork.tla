----------------------------- MODULE ProxyNetwork -----------------------------
(***************************************************************************)
(* Several networks joined by ARMORE proxies: one node in server mode, the *)
(* others clients of it, each with the hosts of its own local network.     *)
(* Every node runs EncodePacket and DecodePacket (module MacTranslation);  *)
(* the middleware between them is what ZeroMQServer and ZeroMQClient give: *)
(* a client only sends to the server; the server sends to one connection,  *)
(* or to those in its client table, which a client enters with its first   *)
(* message.  A client takes a new connection ID whenever it starts.        *)
(*                                                                         *)
(* The module is IPv4 only.  Time is abstracted: an entry of a table may   *)
(* expire at any moment, which every order of the timeouts refines.        *)
(***************************************************************************)
EXTENDS MacTranslation, FiniteSets, SequencesExt

CONSTANTS
  Server, Clients, \* the nodes
  NodeMac,         \* [Nodes -> Macs]
  Permissive,      \* option -p of the server
  Home,            \* [hosts -> Nodes]: the network each host is on
  HostMac,         \* [hosts -> Macs]
  Traffic,         \* frames hosts send of their own accord, each under its own MAC
  MaxFaults,       \* bound: restarts and expired entries
  MaxInTransit     \* bound: frames in transit when a host sends another

Nodes == {Server} \cup Clients
Hosts == DOMAIN Home

\* The connection IDs a client uses, one per run of its process.
IDs(c) == {<< c, n >> : n \in 0 .. MaxFaults}

ASSUME NetworkAssumption ==
  /\ Server \notin Clients
  /\ NodeMac \in [Nodes -> Macs]
  /\ Permissive \in BOOLEAN
  /\ Hosts \subseteq ValidIPs \ MulticastIPs
  /\ Home \in [Hosts -> Nodes]
  /\ HostMac \in [Hosts -> Macs]
  /\ Traffic \subseteq {f \in Frame : f.src \in Hosts /\ f.shost = HostMac[f.src]}
  /\ Conns = UNION {IDs(c) : c \in Clients}
  /\ MaxFaults \in Nat

NodeOf(n) == [mac |-> NodeMac[n], server |-> n = Server, transparent |-> FALSE,
              permissive |-> n = Server /\ Permissive]

VARIABLES
  st,       \* the tables of each node
  ring,     \* frames captured at each node and not yet encoded
  up,       \* [conn, frame] sent by each client to the server
  down,     \* frames sent by the server to each client
  runs,     \* how often each client has been restarted
  clients,  \* m_clients of the server: the connections it has heard of
  faults,   \* how many restarts and expiries there have been
  lan       \* [at, frame]: what the last step put on a local network

vars == << st, ring, up, down, runs, clients, faults, lan >>

ConnOf(c) == << c, runs[c] >>

InTransit == FoldFunction(+, 0, [n \in Nodes |-> Len(ring[n])])
           + FoldFunction(+, 0, [c \in Clients |-> Len(up[c]) + Len(down[c])])

Init ==
  /\ st = [n \in Nodes |-> [table |-> NoEntries, pending |-> NoEntries]]
  /\ ring = [n \in Nodes |-> << >>]
  /\ up = [c \in Clients |-> << >>]
  /\ down = [c \in Clients |-> << >>]
  /\ runs = [c \in Clients |-> 0]
  /\ clients = {}
  /\ faults = 0
  /\ lan = << >>

-----------------------------------------------------------------------------
(* Hosts *)

\* A host sends a frame of its own.
Send(f) ==
  LET n == Home[f.src]
  IN  /\ InTransit < MaxInTransit
      /\ ring' = [ring EXCEPT ![n] = Append(@, f)]
      /\ lan' = << >>
      /\ UNCHANGED << st, up, down, runs, clients, faults >>

\* A host replies to an ARP request for its address.
Asked(n, f) == f.type = "arp" /\ f.op = "request" /\ f.dst \in Hosts /\ Home[f.dst] = n

Answer(f) == [f EXCEPT !.op = "reply", !.src = f.dst, !.dst = f.src, !.target = f.dst,
                       !.shost = HostMac[f.dst], !.sha = HostMac[f.dst], !.dhost = f.sha]

\* What the hosts of network n answer to frames put on it.
Replies(n, frames) ==
  FoldLeft(LAMBDA q, f : IF Asked(n, f) THEN Append(q, Answer(f)) ELSE q, << >>, frames)

-----------------------------------------------------------------------------
(* The middleware *)

\* A message of the server reaches the client the connection belongs to now,
\* or nobody; a broadcast goes to every connection of the client table.
Reached(m, table) ==
  {c \in Clients : IF m.to = AllClients THEN ConnOf(c) \in table ELSE m.to = ConnOf(c)}

\* What waits for client c once the messages are sent.
Delivered(c, msgs, table) ==
  FoldLeft(LAMBDA q, m : IF c \in Reached(m, table) THEN Append(q, m.frame) ELSE q,
           down[c], msgs)

Distribute(msgs, table) == down' = [c \in Clients |-> Delivered(c, msgs, table)]

Transmit(c, msgs) ==
  up' = [up EXCEPT ![c] = @ \o [i \in DOMAIN msgs |->
                                 [conn |-> ConnOf(c), frame |-> msgs[i].frame]]]

\* The server's client table forgets a connection that has been silent.
ExpireClient(conn) ==
  /\ conn \in clients
  /\ faults < MaxFaults
  /\ faults' = faults + 1
  /\ clients' = clients \ {conn}
  /\ lan' = << >>
  /\ UNCHANGED << st, ring, up, down, runs >>

-----------------------------------------------------------------------------
(* The nodes *)

\* EncodePackets: one captured frame goes to the middleware.
Encode(n) ==
  /\ ring[n] # << >>
  /\ LET e == EncodePacket(NodeOf(n), st[n], Head(ring[n]))
     IN  /\ st' = [st EXCEPT ![n] = e.st]
         /\ IF n = Server THEN Distribute(e.mw, clients) /\ UNCHANGED up
                          ELSE Transmit(n, e.mw) /\ UNCHANGED down
  /\ ring' = [ring EXCEPT ![n] = Tail(@)]
  /\ lan' = << >>
  /\ UNCHANGED << runs, clients, faults >>

\* What DecodePackets puts on the local network, and the hosts' answer to it.
Inject(n, frames) ==
  /\ ring' = [ring EXCEPT ![n] = @ \o Replies(n, frames)]
  /\ lan' = [i \in DOMAIN frames |-> [at |-> n, frame |-> frames[i]]]

\* The server receives from client c: the frame is decoded, and the connection
\* is entered into the client table.  The message is handed to the packet
\* processor first, so a broadcast it causes may or may not include its sender
\* when that one is new.
ServerDecode(c) ==
  /\ up[c] # << >>
  /\ LET m == Head(up[c])
         d == DecodePacket(NodeOf(Server), st[Server], m.conn, m.frame)
     IN  /\ st' = [st EXCEPT ![Server] = d.st]
         /\ clients' = clients \cup {m.conn}
         /\ \E table \in {clients, clients'} : Distribute(d.mw, table)
         /\ Inject(Server, d.lan)
  /\ up' = [up EXCEPT ![c] = Tail(@)]
  /\ UNCHANGED << runs, faults >>

\* Faulty variant: the client hands frames on under the server's ID.
ClientDecode_NoConnection(c) ==
  /\ down[c] # << >>
  /\ LET d == DecodePacket(NodeOf(c), st[c], NoConn, Head(down[c]))
     IN  /\ st' = [st EXCEPT ![c] = d.st]
         /\ Inject(c, d.lan)
  /\ down' = [down EXCEPT ![c] = Tail(@)]
  /\ UNCHANGED << up, runs, clients, faults >>

\* A client receives from the server, and hands the frame on under its own
\* connection ID (ZeroMQClient::ReceiveDataHandler).
ClientDecode(c) ==
  /\ down[c] # << >>
  /\ LET d == DecodePacket(NodeOf(c), st[c], ConnOf(c), Head(down[c]))
     IN  /\ st' = [st EXCEPT ![c] = d.st]
         /\ Inject(c, d.lan)
  /\ down' = [down EXCEPT ![c] = Tail(@)]
  /\ UNCHANGED << up, runs, clients, faults >>

\* CheckActiveIPAddresses and CheckPendingIPMacRequests
Expire(n, ip) ==
  /\ faults < MaxFaults
  /\ \/ /\ ip \in DOMAIN st[n].table
        /\ st' = [st EXCEPT ![n].table = Drop(@, ip)]
     \/ /\ ip \in DOMAIN st[n].pending
        /\ st' = [st EXCEPT ![n].pending = Drop(@, ip)]
  /\ faults' = faults + 1
  /\ lan' = << >>
  /\ UNCHANGED << ring, up, down, runs, clients >>

\* A client's process ends, with what waited in it, and starts again.
Restart(c) ==
  /\ faults < MaxFaults
  /\ faults' = faults + 1
  /\ runs' = [runs EXCEPT ![c] = @ + 1]
  /\ st' = [st EXCEPT ![c] = [table |-> NoEntries, pending |-> NoEntries]]
  /\ ring' = [ring EXCEPT ![c] = << >>]
  /\ down' = [down EXCEPT ![c] = << >>]
  /\ lan' = << >>
  /\ UNCHANGED << up, clients >>

Next ==
  \/ \E f \in Traffic : Send(f)
  \/ \E n \in Nodes : Encode(n)
  \/ \E c \in Clients : ServerDecode(c) \/ ClientDecode(c) \/ Restart(c)
  \/ \E conn \in Conns : ExpireClient(conn)
  \/ \E n \in Nodes, ip \in IPs : Expire(n, ip)

Spec == Init /\ [][Next]_vars

\* Every node keeps running, and a host that has something to say repeats it
\* whenever there is room for it.
Fairness ==
  /\ \A f \in Traffic : SF_vars(Send(f))
  /\ \A n \in Nodes : WF_vars(Encode(n))
  /\ \A c \in Clients : WF_vars(ServerDecode(c)) /\ WF_vars(ClientDecode(c))

FairSpec == Spec /\ Fairness

-----------------------------------------------------------------------------
(* Properties *)

Entry == [mac : Macs, conn : Conns \cup {NoConn}, idle : {0}]

\* The type of every node's tables and of everything in transit.
TypeOK ==
  /\ \A n \in Nodes :
       /\ DOMAIN st[n].table \subseteq ValidIPs
       /\ \A ip \in DOMAIN st[n].table : st[n].table[ip] \in Entry
       /\ DOMAIN st[n].pending \subseteq IPs
       /\ ring[n] \in Seq(Frame)
  /\ \A c \in Clients :
       /\ up[c] \in Seq([conn : IDs(c), frame : Frame])
       /\ down[c] \in Seq(Frame)
  /\ runs \in [Clients -> 0 .. MaxFaults]
  /\ clients \subseteq Conns
  /\ faults \in 0 .. MaxFaults
  /\ lan \in Seq([at : Nodes, frame : Frame])

\* Where an entry of node n for address ip leads to.
IsTrue(n, ip) ==
  LET e == st[n].table[ip]
  IN  CASE Home[ip] = n                -> e.mac = HostMac[ip] /\ e.conn = NoConn
        [] Home[ip] # n /\ n = Server  -> e.mac = NodeMac[n] /\ e.conn \in IDs(Home[ip])
        [] OTHER                       -> e.mac = NodeMac[n] /\ e.conn = ConnOf(n)

\* Every entry of every node's IP table is true: a host of the node's own
\* network has its own MAC and no connection, any other host is reached with
\* the node's MAC through the connection it is behind, whatever order requests,
\* replies, packets, expiries and restarts come in (UpdateIPTable).
RoutesAreTrue == \A n \in Nodes : \A ip \in DOMAIN st[n].table \cap Hosts : IsTrue(n, ip)

IsData(f) == f.type = "ip4" /\ f.op = "data"

\* "MAC found, return proper local network MAC addresses for IP response"
\* (PacketProcessor.cpp:390): an IP packet that is put on the network of the
\* host it is for carries that host's MAC, so the host takes it.
PacketsReachTheirHost ==
  \A i \in DOMAIN lan :
    LET f == lan[i].frame
    IN  IsData(f) /\ f.dst \in Hosts /\ Home[f.dst] = lan[i].at => f.dhost = HostMac[f.dst]

\* Without -p ("Permit local segmented client traffic via server proxy",
\* ARMOREProxy.cpp:95) nothing that a host behind one client sends is ever put
\* on the network of another client, nor sent back to its own.
ClientsAreSegmented ==
  ~Permissive => \A i \in DOMAIN lan :
    lan[i].at \in Clients /\ lan[i].frame.src \in Hosts => Home[lan[i].frame.src] = Server

Arrives(src, dst) ==
  \E i \in DOMAIN lan : /\ IsData(lan[i].frame)
                        /\ lan[i].frame.src = src /\ lan[i].frame.dst = dst
                        /\ lan[i].at = Home[dst] /\ lan[i].frame.dhost = HostMac[dst]

\* A host that keeps sending packets to a host of another network gets through
\* again and again, although the first ones are dropped while the MAC request
\* they cause is answered, and although clients restart and entries expire
\* (Translate, DropAndAsk, ProcessARPPacket).
PacketsGetThrough ==
  \A f \in Traffic :
    IsData(f) /\ Server \in {Home[f.src], Home[f.dst]} => []<>Arrives(f.src, f.dst)

=============================================================================
