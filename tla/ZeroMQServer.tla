----------------------------- MODULE ZeroMQServer -----------------------------
(***************************************************************************)
(* The middleware of a proxy in server mode (ZeroMQServer.cpp): the pool   *)
(* of socket polling threads, the table of clients and the queue of        *)
(* buffers to send, which the main thread fills.                           *)
(*                                                                         *)
(* A worker is one thread of the pool; pc says where each is in            *)
(* SocketPollHandler and the functions it calls.  A critical section is    *)
(* one step unless another thread can act while the lock is held:          *)
(* SendBuffer to all clients holds m_clientsLock while it takes            *)
(* m_sendBuffersLock once per client, and SendQueuedBuffers holds          *)
(* m_sendBuffersLock while the others, which only try to, fail.            *)
(*                                                                         *)
(* Buffers are numbered in the order SendBuffer is called, the messages of *)
(* a client in the order it sends them.  A client's entry in m_clients     *)
(* keeps the seconds since its last activity, saturated one past the       *)
(* timeout.                                                                *)
(***************************************************************************)
EXTENDS Naturals, Sequences, FiniteSets, Functions, SequencesExt

CONSTANTS
  Clients,          \* connection IDs
  Workers,          \* threads the pool may ever hold
  FirstWorker,      \* the one Initialize creates
  MaxThreadPoolSize,
  InactiveClientTimeout,
  None,
  MaxBuffers,       \* bound: calls of SendBuffer
  MaxMessages,      \* bound: messages each client sends
  MaxWork           \* bound: messages and calls together

ASSUME ServerAssumption ==
  /\ IsFiniteSet(Clients)
  /\ IsFiniteSet(Workers)
  /\ FirstWorker \in Workers
  /\ MaxThreadPoolSize \in 1 .. Cardinality(Workers)
  /\ InactiveClientTimeout \in Nat \ {0}
  /\ None \notin Workers \cup Clients
  /\ MaxBuffers \in Nat
  /\ MaxMessages \in [Clients -> Nat]
  /\ MaxWork \in Nat

VARIABLES
  clients,      \* m_clients: idle seconds of each known client
  clientsLock,  \* holds the main thread while it sends to all
  checkActiveClients,
  sendBuffers,  \* m_sendBuffers: [to, number]
  eventfd,      \* counter of m_fileDescriptor
  sendLock,     \* the worker that swaps m_sendBuffers, or None
  pool,         \* m_socketPollThreadPool
  pc,           \* where each worker is
  readable,     \* whether poll() reported m_fileDescriptor, per worker
  working,      \* workingBuffers of each worker
  peer,         \* the connectionID at hand, per worker
  inbox,        \* messages the proxy has passed to each worker: [from, number]
  posted,       \* number of messages each client has sent
  number,       \* number of the latest SendBuffer call
  toSend,       \* clients that call has yet to queue the buffer for
  sent,         \* numbers given to the socket, per client
  heard         \* numbers given to the packet processor, per client

clientVars == << clients, clientsLock, checkActiveClients >>
sendVars   == << sendBuffers, eventfd, sendLock >>
callVars   == << number, toSend >>
logs       == << posted, sent, heard >>
vars == << clientVars, sendVars, pool, pc, readable, working, peer, inbox, callVars, logs >>

Init ==
  /\ clients = [c \in {} |-> 0]
  /\ clientsLock = FALSE
  /\ checkActiveClients = FALSE
  /\ sendBuffers = << >>
  /\ eventfd = 0
  /\ sendLock = None
  /\ pool = {FirstWorker}
  /\ pc = [w \in Workers |-> "poll"]
  /\ readable = [w \in Workers |-> FALSE]
  /\ working = [w \in Workers |-> << >>]
  /\ peer = [w \in Workers |-> None]
  /\ inbox = [w \in Workers |-> << >>]
  /\ posted = [c \in Clients |-> 0]
  /\ number = 0
  /\ toSend = {}
  /\ sent = [c \in Clients |-> << >>]
  /\ heard = [c \in Clients |-> << >>]

InBound == number + MapThenSumSet(LAMBDA c : posted[c], Clients) < MaxWork
MaySend == number < MaxBuffers /\ InBound

Goto(w, label) == pc' = [pc EXCEPT ![w] = label]

-----------------------------------------------------------------------------
(* Clients, the clock and the timer *)

\* A message of client c comes in; the proxy passes it to some worker.
ClientSends(c, w) ==
  /\ posted[c] < MaxMessages[c] /\ InBound
  /\ w \in pool
  /\ posted' = [posted EXCEPT ![c] = @ + 1]
  /\ inbox' = [inbox EXCEPT ![w] = Append(@, [from |-> c, number |-> posted'[c]])]
  /\ UNCHANGED << clientVars, sendVars, pool, pc, readable, working, peer, callVars, sent, heard >>

ActiveClientTimerElapsed ==
  /\ checkActiveClients' = TRUE
  /\ UNCHANGED << clients, clientsLock, sendVars, pool, pc, readable, working, peer, inbox,
                  callVars, logs >>

Tick ==
  /\ clients' = [c \in DOMAIN clients |->
                   IF clients[c] <= InactiveClientTimeout THEN clients[c] + 1 ELSE clients[c]]
  /\ UNCHANGED << clientsLock, checkActiveClients, sendVars, pool, pc, readable, working, peer,
                  inbox, callVars, logs >>

-----------------------------------------------------------------------------
(* SendBuffer, called by the main thread *)

QueueFor(c) ==
  /\ sendLock = None
  /\ sendBuffers' = Append(sendBuffers, [to |-> c, number |-> number'])
  /\ eventfd' = eventfd + 1
  /\ UNCHANGED sendLock

\* SendBuffer(connectionID, buffer), to a client the processor has heard from
SendBuffer(c) ==
  /\ heard[c] # << >>
  /\ ~clientsLock
  /\ MaySend
  /\ number' = number + 1
  /\ QueueFor(c)
  /\ UNCHANGED << clientVars, pool, pc, readable, working, peer, inbox, toSend, logs >>

\* SendBuffer(buffer) takes the lock of the clients ...
SendToAllBegin ==
  /\ ~clientsLock
  /\ MaySend
  /\ clientsLock' = TRUE
  /\ number' = number + 1
  /\ toSend' = DOMAIN clients
  /\ UNCHANGED << clients, checkActiveClients, sendVars, pool, pc, readable, working, peer,
                  inbox, logs >>

\* ... queues a copy for each ...
SendToAllNext(c) ==
  /\ clientsLock
  /\ c \in toSend
  /\ toSend' = toSend \ {c}
  /\ UNCHANGED number
  /\ QueueFor(c)
  /\ UNCHANGED << clientVars, pool, pc, readable, working, peer, inbox, logs >>

\* ... and releases it.
SendToAllEnd ==
  /\ clientsLock
  /\ toSend = {}
  /\ clientsLock' = FALSE
  /\ UNCHANGED << clients, checkActiveClients, sendVars, pool, pc, readable, working, peer,
                  inbox, callVars, logs >>

MainThread ==
  \/ \E c \in Clients : SendBuffer(c) \/ SendToAllNext(c)
  \/ SendToAllBegin \/ SendToAllEnd

-----------------------------------------------------------------------------
(* A worker *)

\* poll() reports a message, buffers to send, or both.  What a thread has found
\* out is kept until it has been used.
Poll(w) ==
  /\ pc[w] = "poll"
  /\ inbox[w] # << >> \/ eventfd > 0
  /\ readable' = [readable EXCEPT ![w] = inbox[w] # << >> /\ eventfd > 0]
  /\ Goto(w, IF inbox[w] # << >> THEN "receive" ELSE "swap")
  /\ UNCHANGED << clientVars, sendVars, pool, working, peer, inbox, callVars, logs >>

\* Faulty variant: the first message of a client only registers it.
ReceiveNextBuffer_Registers(w) ==
  /\ pc[w] = "receive"
  /\ LET message == Head(inbox[w])
     IN  /\ peer' = [peer EXCEPT ![w] = message.from]
         /\ heard' = IF message.from \in DOMAIN clients
                     THEN [heard EXCEPT ![message.from] = Append(@, message.number)] ELSE heard
  /\ inbox' = [inbox EXCEPT ![w] = Tail(@)]
  /\ Goto(w, "received")
  /\ UNCHANGED << clientVars, sendVars, pool, readable, working, callVars, posted, sent >>

\* ReceiveNextBuffer hands the message to the packet processor ...
ReceiveNextBuffer(w) ==
  /\ pc[w] = "receive"
  /\ LET message == Head(inbox[w])
     IN  /\ peer' = [peer EXCEPT ![w] = message.from]
         /\ heard' = [heard EXCEPT ![message.from] = Append(@, message.number)]
  /\ inbox' = [inbox EXCEPT ![w] = Tail(@)]
  /\ Goto(w, "received")
  /\ UNCHANGED << clientVars, sendVars, pool, readable, working, callVars, posted, sent >>

\* Faulty variant of UpdateClientActivityTime: one thread more than clients.
UpdateClientActivityTime_OneMore(c) ==
  /\ ~clientsLock
  /\ clients' = [x \in DOMAIN clients \cup {c} |-> IF x = c THEN 0 ELSE clients[x]]
  /\ pool' = IF /\ c \notin DOMAIN clients
                /\ Cardinality(pool) < MaxThreadPoolSize
                /\ Cardinality(DOMAIN clients') >= Cardinality(pool)
             THEN pool \cup {CHOOSE new \in Workers : new \notin pool} ELSE pool

\* Faulty variant: the pool only grows once it is smaller by two.
UpdateClientActivityTime_OneLess(c) ==
  /\ ~clientsLock
  /\ clients' = [x \in DOMAIN clients \cup {c} |-> IF x = c THEN 0 ELSE clients[x]]
  /\ pool' = IF /\ c \notin DOMAIN clients
                /\ Cardinality(pool) < MaxThreadPoolSize
                /\ Cardinality(DOMAIN clients) > Cardinality(pool)
             THEN pool \cup {CHOOSE new \in Workers : new \notin pool} ELSE pool

\* Faulty variant: the table is changed without its lock.
UpdateClientActivityTime_Unlocked(c) ==
  /\ clients' = [x \in DOMAIN clients \cup {c} |-> IF x = c THEN 0 ELSE clients[x]]
  /\ pool' = IF /\ c \notin DOMAIN clients
                /\ Cardinality(pool) < MaxThreadPoolSize
                /\ Cardinality(DOMAIN clients') > Cardinality(pool)
             THEN pool \cup {CHOOSE new \in Workers : new \notin pool} ELSE pool

\* A new client gets the pool one more thread while there are fewer threads
\* than clients and the pool is below its limit.
UpdateClientActivityTime(c) ==
  /\ ~clientsLock
  /\ clients' = [x \in DOMAIN clients \cup {c} |-> IF x = c THEN 0 ELSE clients[x]]
  /\ pool' = IF /\ c \notin DOMAIN clients
                /\ Cardinality(pool) < MaxThreadPoolSize
                /\ Cardinality(DOMAIN clients') > Cardinality(pool)
             THEN pool \cup {CHOOSE new \in Workers : new \notin pool} ELSE pool

\* ... and updates the activity of its sender, which may be new.
Received(w) ==
  /\ pc[w] = "received"
  /\ UpdateClientActivityTime(peer[w])
  /\ peer' = [peer EXCEPT ![w] = None]
  /\ Goto(w, "check")
  /\ UNCHANGED << clientsLock, checkActiveClients, sendVars, readable, working, inbox,
                  callVars, logs >>

AfterReceive(w) ==
  /\ Goto(w, IF readable[w] THEN "swap" ELSE "poll")
  /\ readable' = [readable EXCEPT ![w] = FALSE]

\* The flag the timer sets is only looked at here.
CheckFlag(w) ==
  /\ pc[w] = "check"
  /\ \/ checkActiveClients /\ Goto(w, "expire") /\ UNCHANGED readable
     \/ ~checkActiveClients /\ AfterReceive(w)
  /\ checkActiveClients' = FALSE
  /\ UNCHANGED << clients, clientsLock, sendVars, pool, working, peer, inbox,
                  callVars, logs >>

CheckActiveClients(w) ==
  /\ pc[w] = "expire"
  /\ ~clientsLock
  /\ clients' = Restrict(clients, {c \in DOMAIN clients : clients[c] <= InactiveClientTimeout})
  /\ AfterReceive(w)
  /\ UNCHANGED << clientsLock, checkActiveClients, sendVars, pool, working, peer, inbox,
                  callVars, logs >>

\* Faulty variant: the lock is not held until the descriptor has been read.
SwapSendBuffers_Unlocks(w) ==
  /\ pc[w] = "swap"
  /\ sendLock = None
  /\ working' = [working EXCEPT ![w] = sendBuffers]
  /\ sendBuffers' = << >>
  /\ Goto(w, "drain")
  /\ UNCHANGED << clientVars, sendLock, eventfd, pool, readable, peer, inbox, callVars, logs >>

\* SendQueuedBuffers takes the queue if it gets the lock at once.
SwapSendBuffers(w) ==
  /\ pc[w] = "swap"
  /\ sendLock = None
  /\ sendLock' = w
  /\ working' = [working EXCEPT ![w] = sendBuffers]
  /\ sendBuffers' = << >>
  /\ Goto(w, "drain")
  /\ UNCHANGED << clientVars, eventfd, pool, readable, peer, inbox, callVars, logs >>

\* Another worker holds the lock, or the main thread does to queue a buffer.
SwapFails(w) ==
  /\ pc[w] = "swap"
  /\ sendLock # None \/ toSend # {} \/ MaySend
  /\ Goto(w, "poll")
  /\ UNCHANGED << clientVars, sendVars, pool, readable, working, peer, inbox, callVars, logs >>

\* eventfd_read blocks while the counter is zero.
ReadDescriptor(w) ==
  /\ pc[w] = "drain"
  /\ working[w] # << >> => eventfd > 0
  /\ eventfd' = IF working[w] # << >> THEN 0 ELSE eventfd
  /\ sendLock' = None
  /\ Goto(w, "send")
  /\ UNCHANGED << clientVars, sendBuffers, pool, readable, working, peer, inbox, callVars, logs >>

SendNext(w) ==
  /\ pc[w] = "send"
  /\ working[w] # << >>
  /\ LET message == Head(working[w])
     IN  /\ peer' = [peer EXCEPT ![w] = message.to]
         /\ sent' = [sent EXCEPT ![message.to] = Append(@, message.number)]
  /\ working' = [working EXCEPT ![w] = Tail(@)]
  /\ Goto(w, "sent")
  /\ UNCHANGED << clientVars, sendVars, pool, readable, inbox, callVars, posted, heard >>

\* Sending counts as activity of the client, too.
Sent(w) ==
  /\ pc[w] = "sent"
  /\ UpdateClientActivityTime(peer[w])
  /\ peer' = [peer EXCEPT ![w] = None]
  /\ Goto(w, "send")
  /\ UNCHANGED << clientsLock, checkActiveClients, sendVars, readable, working, inbox,
                  callVars, logs >>

SendDone(w) ==
  /\ pc[w] = "send"
  /\ working[w] = << >>
  /\ Goto(w, "poll")
  /\ UNCHANGED << clientVars, sendVars, pool, readable, working, peer, inbox, callVars, logs >>

Worker(w) ==
  /\ w \in pool
  /\ \/ Poll(w)
     \/ ReceiveNextBuffer(w) \/ Received(w) \/ CheckFlag(w) \/ CheckActiveClients(w)
     \/ SwapSendBuffers(w) \/ SwapFails(w) \/ ReadDescriptor(w)
     \/ SendNext(w) \/ Sent(w) \/ SendDone(w)

Next ==
  \/ \E c \in Clients, w \in Workers : ClientSends(c, w)
  \/ ActiveClientTimerElapsed
  \/ Tick
  \/ MainThread
  \/ \E w \in Workers : Worker(w)

Spec == Init /\ [][Next]_vars

SendToAllGoesOn == SendToAllEnd \/ \E c \in Clients : SendToAllNext(c)
TakesLock(w) == Received(w) \/ Sent(w) \/ CheckActiveClients(w) \/ SwapSendBuffers(w)

\* Every thread keeps running, and the main thread finishes a call it began.  A
\* lock is taken in the end by a thread that waits for it, and by one that tries
\* again and again: the main thread does not always hold it just then.
Fairness ==
  /\ \A w \in Workers : WF_vars(Worker(w)) /\ SF_vars(TakesLock(w))
  /\ SF_vars(SendToAllGoesOn)

FairSpec == Spec /\ Fairness

-----------------------------------------------------------------------------
(* Properties *)

Message == [to : Clients, number : 1 .. MaxBuffers]
Arrival == [from : Clients, number : Nat \ {0}]

TypeOK ==
  /\ DOMAIN clients \subseteq Clients
  /\ clients \in [DOMAIN clients -> 0 .. InactiveClientTimeout + 1]
  /\ clientsLock \in BOOLEAN
  /\ checkActiveClients \in BOOLEAN
  /\ sendBuffers \in Seq(Message)
  /\ eventfd \in Nat
  /\ sendLock \in pool \cup {None}
  /\ FirstWorker \in pool /\ pool \subseteq Workers
  /\ pc \in [Workers -> {"poll", "receive", "received", "check", "expire", "swap", "drain",
                         "send", "sent"}]
  /\ readable \in [Workers -> BOOLEAN]
  /\ working \in [Workers -> Seq(Message)]
  /\ peer \in [Workers -> Clients \cup {None}]
  /\ inbox \in [Workers -> Seq(Arrival)]
  /\ posted \in [Clients -> Nat]
  /\ number \in 0 .. MaxBuffers
  /\ toSend \subseteq Clients
  /\ sent \in [Clients -> Seq(1 .. MaxBuffers)]
  /\ heard \in [Clients -> Seq(Nat \ {0})]

\* The descriptor announces what the queue holds, whatever the workers and the
\* main thread do at the same time: no wakeup is lost, no worker spins on an empty
\* queue, and none blocks on the descriptor while it holds the send lock, which
\* would stop all the others (SendBuffer; SendQueuedBuffers, "checking buffer size
\* to prevent a blocking read", ZeroMQServer.cpp:392).
DescriptorMatchesQueue ==
  /\ sendLock = None => (eventfd > 0 <=> sendBuffers # << >>)
  /\ \A w \in pool : pc[w] = "drain" /\ working[w] # << >> => eventfd > 0

\* "maintain one server worker per client up to maximum thread pool size"
\* (ZeroMQServer.cpp:252).
PoolMatchesClients ==
  /\ Cardinality(pool) <= MaxThreadPoolSize
  /\ \/ Cardinality(DOMAIN clients) <= Cardinality(pool)
     \/ Cardinality(pool) = MaxThreadPoolSize

NumbersTo(messages, c) == {m.number : m \in {x \in Range(messages) : x.to = c}}

OnTheWay(c) ==
  NumbersTo(sendBuffers, c) \cup UNION {NumbersTo(working[w], c) : w \in Workers}

\* A buffer sent to all goes to every client in the table when the call ends,
\* although workers add and remove clients meanwhile (SendBuffer holds
\* m_clientsLock).
BroadcastReachesAll ==
  [][SendToAllEnd => \A c \in DOMAIN clients : number \in OnTheWay(c) \cup Range(sent[c])]_vars

\* A second client has sent a message, or a buffer has been queued for one.
Several ==
  \E c, d \in Clients :
    /\ c # d
    /\ \A x \in {c, d} : posted[x] > 0 \/ OnTheWay(x) # {} \/ sent[x] # << >>

\* Every buffer queued for a client is given to the socket once, by one worker
\* or another, and in the order of the calls as long as there is one client,
\* for which there is one worker.
ToClients == INSTANCE Channel WITH
  Ends <- Clients, Numbers <- 1 .. MaxBuffers,
  pending <- [c \in Clients |-> OnTheWay(c)], arrived <- sent, several <- Several

OutgoingChannel == ToClients!Spec

Passed(c) ==
  {m.number : m \in {x \in UNION {Range(inbox[w]) : w \in Workers} : x.from = c}}

\* Every message of a client is given to the packet processor once, and in the
\* order it sent them as long as there is one client.
FromClients == INSTANCE Channel WITH
  Ends <- Clients, Numbers <- UNION {1 .. MaxMessages[c] : c \in Clients},
  pending <- [c \in Clients |-> Passed(c)], arrived <- heard, several <- Several

IncomingChannel == FromClients!Spec

\* What is queued is in the end given to the socket, whichever worker gets the
\* lock and whoever holds the clients (SendQueuedBuffers).
QueuedIsSent ==
  (\E c \in Clients : OnTheWay(c) # {}) ~> \A c \in Clients : OnTheWay(c) = {}

=============================================================================
