----------------------------- MODULE TrafficStats -----------------------------
(***************************************************************************)
(* The statistics the Bro scripts of an ARMORE node gather about Modbus    *)
(* and DNP3 traffic, with all six levels enabled (the default): the        *)
(* collector (stats_col*.bro), which turns the events of a packet into     *)
(* items, and the counter (stats_count.bro), which observes the items and  *)
(* publishes a tree of counts at the end of each period.                   *)
(*                                                                         *)
(* Bro runs one handler at a time, in the order in which the events were   *)
(* raised; an event raised by a handler goes to the end of the queue, and  *)
(* the queue is empty again before the next packet.  An event holds a      *)
(* reference to a record it is given, not a copy: an item_seen or item_gen *)
(* for g_info sees what g_info holds when it is handled.  items[k] is the  *)
(* record g_info refers to since the k-th packet.                          *)
(*                                                                         *)
(* A node of the tree is named by its path <<sender, receiver, protocol,   *)
(* unit, function, target>>; the root is << >>.  Bytes and delays, which   *)
(* are averaged next to the counts, are left out.                          *)
(***************************************************************************)
EXTENDS Naturals, Sequences, SequencesExt, FiniteSets, FiniteSetsExt, Functions

CONSTANTS
  Hosts,      \* addresses
  Links,      \* connections
  Units,      \* Modbus unit IDs
  Addresses,  \* DNP3 addresses
  Funcs,      \* function names
  Asks,       \* those that are requests
  Targets,    \* what target_gen makes of the objects of a message
  None,
  Packets,    \* packets the network may carry: [link, src, dst, pdus]
  MaxPackets, \* bound: packets
  MaxPeriods  \* bound: periods

\* A Modbus message; "detailed" when Bro has an event for its function.
Modbus == [protocol : {"Modbus"}, unit : Units, func : Funcs, target : Targets,
           detailed : BOOLEAN]

\* A DNP3 message.  The qualifier of an object header says of its objects that they are
\* a range (or all, or a quantity), that the prefixes to come are their indexes, or
\* something the collector does not look at.  target_gen makes one target of a range.
ObjectHeader == {o \in [qualifier : {"range", "prefix", "other"}, targets : Seq(Targets)] :
                   o.qualifier = "range" => o.targets # << >>}
Dnp3 == [protocol : {"DNP3"}, src : Addresses, dest : Addresses, func : Funcs,
         objects : Seq(ObjectHeader)]

UnitIds == Units \cup [src : Addresses, dest : Addresses]

ASSUME StatsAssumption ==
  /\ None \notin Hosts \cup Links \cup UnitIds \cup Funcs \cup Targets \cup {"Modbus", "DNP3"}
  /\ Packets \subseteq [link : Links, src : Hosts, dst : Hosts, pdus : Seq(Modbus \cup Dnp3)]
  /\ Asks \subseteq Funcs
  /\ MaxPackets \in Nat
  /\ MaxPeriods \in Nat

\* A packet goes one way: the side that opened the connection asks and the other one
\* answers (is_orig).
ASSUME OriginAssumption ==
  \E orig, resp \in [Links -> Hosts] : \A p \in Packets :
    LET funcs == {p.pdus[i].func : i \in DOMAIN p.pdus}
    IN  \/ p.src = orig[p.link] /\ p.dst = resp[p.link] /\ funcs \subseteq Asks
        \/ p.src = resp[p.link] /\ p.dst = orig[p.link] /\ funcs \cap Asks = {}

\* Bro has one analyzer for a connection: the messages of a packet have one protocol.
ASSUME ProtocolAssumption ==
  \A p \in Packets : \A i, j \in DOMAIN p.pdus : p.pdus[i].protocol = p.pdus[j].protocol

VARIABLES
  queue,      \* events raised and not yet handled
  items,      \* the records g_info has referred to
  wait,       \* g_wait
  prefixed,   \* dnp3_prefix
  tgt_table,  \* g_tgt_table: latest target of each connection
  req_table,  \* latest request of each connection
  counts,     \* observations of this period, by path
  responses,  \* responses to requests observed this period, by path
  logged,     \* packets whose items stats_col has logged
  periods     \* trees stats_count has published: [num, num_res]

statsVars == << queue, items, wait, prefixed, tgt_table, req_table, counts, responses,
                logged, periods >>

Nothing == [x \in {} |-> 0]

StatsInit ==
  /\ queue = << >>
  /\ items = << >>
  /\ wait = FALSE /\ prefixed = FALSE
  /\ tgt_table = Nothing /\ req_table = Nothing
  /\ counts = Nothing /\ responses = Nothing
  /\ logged = << >> /\ periods = << >>

-----------------------------------------------------------------------------
(* Events *)

Event(type) == queue # << >> /\ Head(queue).type = type

\* The handler of the first event raises others.
Raise(events) == queue' = Tail(queue) \o events

ItemSeen(item) == [type |-> "item_seen", item |-> item, ref |-> 0]

\* events that hold g_info itself
SeenRef(k) == [type |-> "item_seen", item |-> None, ref |-> k]
GenRef(k)  == [type |-> "item_gen", ref |-> k]

Current == Len(items)

MessageEvent(type, pdu) == [type |-> type, pdu |-> pdu]

ModbusEvents(pdu) ==
  << MessageEvent("modbus_message", pdu) >>
    \o (IF pdu.detailed THEN << MessageEvent("detail", pdu) >> ELSE << >>)

ObjectEvents(o) ==
  << [type |-> "object_header", object |-> o] >>
    \o (IF o.qualifier = "range" THEN << >>
        ELSE [i \in DOMAIN o.targets |-> [type |-> "object_prefix", target |-> o.targets[i]]])

Dnp3Events(pdu) ==
  << MessageEvent("header_block", pdu), MessageEvent("application_header", pdu) >>
    \o FlattenSeq([i \in DOMAIN pdu.objects |-> ObjectEvents(pdu.objects[i])])

\* Bro dissects a packet: it raises an event for the packet, two for each Modbus
\* message it finds there, if it knows the function, and one for each header of DNP3.
Packet(p) ==
  /\ queue = << >>
  /\ Len(items) < MaxPackets
  /\ queue' = << [type |-> "new_packet", packet |-> p] >>
              \o FlattenSeq([i \in DOMAIN p.pdus |->
                   IF p.pdus[i].protocol = "Modbus" THEN ModbusEvents(p.pdus[i])
                                                   ELSE Dnp3Events(p.pdus[i])])
  /\ UNCHANGED << items, wait, prefixed, tgt_table, req_table, counts, responses, logged,
                  periods >>

-----------------------------------------------------------------------------
(* The collector *)

uncounted == << req_table, counts, responses, logged, periods >>

\* A packet no message event came for is logged when the next one arrives.
NewPacket ==
  /\ Event("new_packet")
  /\ LET p == Head(queue).packet
         item == [link |-> p.link, sender |-> p.src, receiver |-> p.dst, protocol |-> None,
                  unit |-> None, func |-> None, is_response |-> FALSE, target |-> None]
     IN  /\ items' = Append(items, item)
         /\ Raise((IF wait THEN << GenRef(Current) >> ELSE << >>) \o << ItemSeen(item) >>)
  /\ wait' = TRUE
  /\ UNCHANGED << prefixed, tgt_table, uncounted >>

\* A message gives g_info its function, and a Modbus message its unit.
Described(pdu) ==
  LET item == [items[Current] EXCEPT !.protocol = pdu.protocol, !.func = pdu.func,
                                     !.is_response = pdu.func \notin Asks]
  IN  IF pdu.protocol = "Modbus" THEN [item EXCEPT !.unit = pdu.unit] ELSE item

\* Faulty variant: the item is taken to be complete.
Message_Ends(type) ==
  /\ Event(type)
  /\ LET item == Described(Head(queue).pdu)
     IN  /\ items' = [items EXCEPT ![Current] = item]
         /\ Raise(<< ItemSeen([item EXCEPT !.target = None]) >>)
  /\ wait' = FALSE
  /\ UNCHANGED << prefixed, tgt_table, uncounted >>

\* Faulty variant: the event is given g_info instead of a record of its own.
Message_Shares(type) ==
  /\ Event(type)
  /\ items' = [items EXCEPT ![Current] = Described(Head(queue).pdu)]
  /\ Raise(<< SeenRef(Current) >>)
  /\ UNCHANGED << wait, prefixed, tgt_table, uncounted >>

\* The item that is observed for a message has no target, even when an earlier
\* message of the same packet gave g_info one.
Message(type) ==
  /\ Event(type)
  /\ LET item == Described(Head(queue).pdu)
     IN  /\ items' = [items EXCEPT ![Current] = item]
         /\ Raise(<< ItemSeen([item EXCEPT !.target = None]) >>)
  /\ UNCHANGED << wait, prefixed, tgt_table, uncounted >>

WithTarget(target) ==
  /\ items' = [items EXCEPT ![Current].target = target]
  /\ Raise(<< SeenRef(Current), GenRef(Current) >>)
  /\ wait' = FALSE

ModbusMessage == Message("modbus_message")

\* The handler of a request remembers its target for the response ...
ModbusRequest ==
  /\ Event("detail")
  /\ LET pdu == Head(queue).pdu
         link == items[Current].link
     IN  /\ pdu.func \in Asks
         /\ tgt_table' = [x \in DOMAIN tgt_table \cup {link} |->
                            IF x = link THEN pdu.target ELSE tgt_table[x]]
         /\ WithTarget(pdu.target)
  /\ UNCHANGED << prefixed, uncounted >>

\* ... and that of a response looks it up; without one the handler ends there.
ModbusResponse ==
  /\ Event("detail")
  /\ Head(queue).pdu.func \notin Asks
  /\ LET link == items[Current].link
     IN  IF link \in DOMAIN tgt_table
         THEN WithTarget(tgt_table[link])
         ELSE Raise(<< >>) /\ wait' = FALSE /\ UNCHANGED items
  /\ UNCHANGED << prefixed, tgt_table, uncounted >>

\* DNP3: the unit is the pair of addresses.
HeaderBlock ==
  /\ Event("header_block")
  /\ LET pdu == Head(queue).pdu
     IN  items' = [items EXCEPT ![Current].unit = [src |-> pdu.src, dest |-> pdu.dest]]
  /\ Raise(<< >>)
  /\ UNCHANGED << wait, prefixed, tgt_table, uncounted >>

ApplicationHeader == Message("application_header")

WithoutTarget == Raise(<< >>) /\ UNCHANGED << items, wait >>

HandleObjectHeader ==
  /\ Event("object_header")
  /\ LET o == Head(queue).object
     IN  /\ prefixed' = (o.qualifier = "prefix")
         /\ IF o.qualifier = "range" THEN WithTarget(Head(o.targets)) ELSE WithoutTarget
  /\ UNCHANGED << tgt_table, uncounted >>

HandleObjectPrefix ==
  /\ Event("object_prefix")
  /\ IF prefixed THEN WithTarget(Head(queue).target) ELSE WithoutTarget
  /\ UNCHANGED << prefixed, tgt_table, uncounted >>

\* The item is logged; the other handlers of the event may raise more.
ItemGen(raised) ==
  /\ Event("item_gen")
  /\ logged' = Append(logged, Head(queue).ref)
  /\ Raise(raised)
  /\ UNCHANGED << items, wait, prefixed, tgt_table, req_table, counts, responses, periods >>

-----------------------------------------------------------------------------
(* The counter *)

PacketPaths(i) == {<< >>, << i.sender >>, << i.sender, i.receiver >>}

FunctionPath(i) == << i.sender, i.receiver, i.protocol, i.unit, i.func >>

MessagePaths(i) == {SubSeq(FunctionPath(i), 1, n) : n \in 3 .. 5}

TargetPath(i) == Append(FunctionPath(i), i.target)

\* Observations of a reducer are summed by their string.
Plus(f, paths) ==
  [p \in DOMAIN f \cup paths |-> (IF p \in DOMAIN f THEN f[p] ELSE 0)
                                 + (IF p \in paths THEN 1 ELSE 0)]

\* A DNP3 response has the addresses of its request the other way round.
Swapped(unit, protocol) ==
  IF protocol = "DNP3" THEN [src |-> unit.dest, dest |-> unit.src] ELSE unit

Remembered(i) ==
  [x \in DOMAIN req_table \cup {i.link} |->
     IF x = i.link
     THEN [requestor |-> i.sender, responder |-> i.receiver, protocol |-> i.protocol,
           unit |-> i.unit, func |-> i.func, is_responded |-> FALSE]
     ELSE req_table[x]]

\* A response answers the request remembered for its connection, when that came from
\* the other side and has no answer yet.
Answers(i) ==
  /\ i.link \in DOMAIN req_table
  /\ LET r == req_table[i.link]
     IN  /\ r.requestor = i.receiver /\ r.responder = i.sender
         /\ r.protocol = i.protocol /\ r.unit = Swapped(i.unit, i.protocol)
         /\ ~r.is_responded

AnsweredPath(i) ==
  << i.receiver, i.sender, i.protocol, Swapped(i.unit, i.protocol), req_table[i.link].func >>

ObserveMessage_Unmarked(i) ==
  /\ counts' = Plus(counts, MessagePaths(i))
  /\ req_table' = IF i.is_response THEN req_table ELSE Remembered(i)
  /\ responses' = IF i.is_response /\ Answers(i) THEN Plus(responses, {AnsweredPath(i)})
                                                ELSE responses

ObserveMessage(i) ==
  /\ counts' = Plus(counts, MessagePaths(i))
  /\ \/ ~i.is_response /\ req_table' = Remembered(i) /\ UNCHANGED responses
     \/ /\ i.is_response /\ Answers(i)
        /\ req_table' = [req_table EXCEPT ![i.link].is_responded = TRUE]
        /\ responses' = Plus(responses, {AnsweredPath(i)})
     \/ i.is_response /\ ~Answers(i) /\ UNCHANGED << req_table, responses >>

Observe(i) ==
  \/ /\ i.protocol = None
     /\ counts' = Plus(counts, PacketPaths(i)) /\ UNCHANGED << req_table, responses >>
  \/ i.protocol # None /\ i.target = None /\ ObserveMessage(i)
  \/ /\ i.protocol # None /\ i.target # None
     /\ counts' = Plus(counts, {TargetPath(i)}) /\ UNCHANGED << req_table, responses >>

CountItem ==
  /\ Event("item_seen")
  /\ LET e == Head(queue) IN Observe(IF e.ref = 0 THEN e.item ELSE items[e.ref])
  /\ Raise(<< >>)
  /\ UNCHANGED << items, wait, prefixed, tgt_table, logged, periods >>

\* A node can be added when its parent is there; the lookup fails otherwise.
Attached(path) == path = << >> \/ Front(path) \in DOMAIN counts

\* process_result adds the levels one after the other, and ends at the first lookup
\* that fails; the function of a request has a number of responses, if only zero.
Tree ==
  LET nodes == {p \in DOMAIN counts :
                  \A q \in DOMAIN counts : Len(q) <= Len(p) => Attached(q)}
      asked == {p \in nodes : Len(p) = 5 /\ p[5] \in Asks}
  IN  [num     |-> Restrict(counts, nodes),
       num_res |-> [p \in asked |-> IF p \in DOMAIN responses THEN responses[p] ELSE 0]]

\* A period ends between two packets: process_result and after_process publish
\* and log the tree, and SumStats starts from nothing again.
FinishPeriod ==
  /\ queue = << >>
  /\ Len(periods) < MaxPeriods
  /\ periods' = Append(periods, Tree)
  /\ counts' = Nothing
  /\ responses' = Nothing
  /\ UNCHANGED << queue, items, wait, prefixed, tgt_table, req_table, logged >>

\* What these scripts do by themselves; the others have handlers of item_gen, and of
\* process_finish, which is raised at the end of a period.
Collect ==
  \/ \E p \in Packets : Packet(p)
  \/ NewPacket
  \/ ModbusMessage \/ ModbusRequest \/ ModbusResponse
  \/ HeaderBlock \/ ApplicationHeader \/ HandleObjectHeader \/ HandleObjectPrefix
  \/ CountItem

-----------------------------------------------------------------------------
(* Properties *)

Item == [link : Links, sender : Hosts, receiver : Hosts, protocol : {"Modbus", "DNP3", None},
         unit : UnitIds \cup {None}, func : Funcs \cup {None}, is_response : BOOLEAN,
         target : Targets \cup {None}]

Request == [requestor : Hosts, responder : Hosts, protocol : {"Modbus", "DNP3"},
            unit : UnitIds, func : Funcs, is_responded : BOOLEAN]

IsCount(f) == \A p \in DOMAIN f : Len(p) \in 0 .. 6 /\ f[p] \in Nat \ {0}

\* The type of the scripts' tables, of the items and of what is published.
StatsTypeOK ==
  /\ items \in Seq(Item)
  /\ wait \in BOOLEAN /\ prefixed \in BOOLEAN
  /\ DOMAIN tgt_table \subseteq Links /\ Range(tgt_table) \subseteq Targets
  /\ DOMAIN req_table \subseteq Links /\ Range(req_table) \subseteq Request
  /\ IsCount(counts) /\ IsCount(responses)
  /\ \A p \in DOMAIN responses : Len(p) = 5
  /\ logged \in Seq(1 .. Len(items))
  /\ \A i \in DOMAIN periods :
       IsCount(periods[i].num) /\ DOMAIN periods[i].num_res \subseteq DOMAIN periods[i].num

Below(path, n) ==
  {p \in DOMAIN counts : Len(p) = n /\ Len(path) <= n /\ SubSeq(p, 1, Len(path)) = path}

Total(paths) == MapThenSumSet(LAMBDA p : counts[p], paths)

\* The tree a period ends with is whole, although the levels of a packet are
\* observed by separate events: every node has its parent, so that no lookup of
\* process_result fails and leaves a count out; every packet is counted for its sender
\* and its receiver, every message for its unit and its function, and no more targets
\* than Modbus messages are counted between two hosts.
LevelsAgree ==
  queue = << >> =>
    \A p \in DOMAIN counts :
      /\ Attached(p)
      /\ Len(p) \in {0, 1, 3, 4} => counts[p] = Total(Below(p, Len(p) + 1))
      /\ Len(p) = 3 /\ p[3] = "Modbus" => Total(Below(p, 6)) <= counts[p]

\* Of every function, the logs never show more requests answered than made,
\* over all periods and the one under way: a response answers at most one
\* request, and one request at most once.
AnsweredOnce ==
  LET Sum(f, p) == IF p \in DOMAIN f THEN f[p] ELSE 0
      Logged(field, p) == FoldFunction(+, 0, [i \in DOMAIN periods |-> Sum(periods[i][field], p)])
  IN  queue = << >> =>
        \A p \in DOMAIN responses \cup UNION {DOMAIN periods[i].num_res : i \in DOMAIN periods} :
          Logged("num_res", p) + Sum(responses, p) <= Logged("num", p) + Sum(counts, p)

\* Every packet but the latest is logged, whichever messages it carries, unless
\* it is a response whose request was not seen; and packets are logged in order
\* (g_wait).
EveryPacketLogged ==
  /\ queue = << >> =>
       \A k \in 1 .. Len(items) - 1 :
         k \in Range(logged) \/ (items[k].is_response /\ items[k].target = None)
  /\ \A i, j \in DOMAIN logged : i <= j => logged[i] <= logged[j]

=============================================================================
