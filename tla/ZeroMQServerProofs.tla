-------------------------- MODULE ZeroMQServerProofs --------------------------
(***************************************************************************)
(* Proofs about ZeroMQServer for any number of clients and workers.  The   *)
(* worker that swapped the send queue holds its lock until it has read the *)
(* descriptor; meanwhile the queue is empty and the descriptor announces   *)
(* what that worker took.  The rest is about the table of clients, which   *)
(* only changes while its lock is free.                                    *)
(***************************************************************************)
EXTENDS ZeroMQServer, FiniteSetTheorems, SequenceTheorems, TLAPS

USE ServerAssumption

Labels == {"poll", "receive", "received", "check", "expire", "swap", "drain", "send", "sent"}

\* What is in hand at each place of a worker.
WorkerOK(w) ==
  /\ pc[w] = "receive" => inbox[w] # << >>
  /\ pc[w] \in {"received", "sent"} => peer[w] \in Clients
  /\ pc[w] \notin {"drain", "send", "sent"} => working[w] = << >>
  /\ pc[w] = "drain" <=> sendLock = w

\* While the send lock is held the queue is empty, and the descriptor announces
\* what the holder took.
HolderOK ==
  \A w \in Workers :
    sendLock = w => sendBuffers = << >> /\ (eventfd > 0 <=> working[w] # << >>)

FreeOK == sendLock = None => (eventfd > 0 <=> sendBuffers # << >>)

\* A call of SendBuffer that goes through the clients has a number.
CallOK == clientsLock => number > 0

\* While the main thread goes through the clients, each of them still has its
\* turn or has the buffer on its way.
TurnsOK ==
  clientsLock =>
    \A c \in DOMAIN clients : c \in toSend \/ number \in OnTheWay(c) \cup Range(sent[c])

IInv ==
  /\ TypeOK
  /\ \A w \in Workers : WorkerOK(w)
  /\ HolderOK /\ FreeOK /\ CallOK /\ TurnsOK
  /\ PoolMatchesClients

-----------------------------------------------------------------------------
(* The table of clients and the pool *)

\* The table and the pool are finite, so that their sizes are numbers.
LEMMA Sizes ==
  ASSUME TypeOK
  PROVE  /\ IsFiniteSet(pool) /\ IsFiniteSet(DOMAIN clients)
         /\ Cardinality(pool) \in Nat /\ Cardinality(DOMAIN clients) \in Nat
BY FS_Subset, FS_CardinalityType DEF TypeOK

\* The pool keeps up with the table while it may grow (UpdateClientActivityTime).
LEMMA UpdateKeepsPool ==
  ASSUME TypeOK, PoolMatchesClients, NEW c \in Clients, UpdateClientActivityTime(c)
  PROVE  /\ PoolMatchesClients'
         /\ pool \subseteq pool' /\ pool' \subseteq Workers
         /\ DOMAIN clients' = DOMAIN clients \cup {c}
         /\ clients' \in [DOMAIN clients' -> 0 .. InactiveClientTimeout + 1]
<1> DEFINE Grows == /\ c \notin DOMAIN clients
                    /\ Cardinality(pool) < MaxThreadPoolSize
                    /\ Cardinality(DOMAIN clients') > Cardinality(pool)
           new == CHOOSE x \in Workers : x \notin pool
<1>1. DOMAIN clients' = DOMAIN clients \cup {c}
  BY DEF UpdateClientActivityTime
<1>2. clients' \in [DOMAIN clients' -> 0 .. InactiveClientTimeout + 1]
  BY <1>1 DEF UpdateClientActivityTime, TypeOK
<1>3. pool' = IF Grows THEN pool \cup {new} ELSE pool
  BY DEF UpdateClientActivityTime
<1>4. /\ MaxThreadPoolSize \in Nat /\ MaxThreadPoolSize <= Cardinality(Workers)
      /\ Cardinality(Workers) \in Nat
  BY FS_CardinalityType
<1>5. Grows => new \in Workers /\ new \notin pool
  <2> SUFFICES ASSUME Grows PROVE \E x \in Workers : x \notin pool
    OBVIOUS
  <2>1. pool # Workers
    BY <1>4, Sizes
  <2>2. QED
    BY <2>1 DEF TypeOK
<1>6. c \notin DOMAIN clients => Cardinality(DOMAIN clients') = Cardinality(DOMAIN clients) + 1
  BY <1>1, Sizes, FS_AddElement
<1>7. Grows => Cardinality(pool') = Cardinality(pool) + 1
  BY <1>3, <1>5, Sizes, FS_AddElement
<1>8. PoolMatchesClients'
  <2>1. CASE Grows
    BY <2>1, <1>4, <1>6, <1>7, Sizes DEF PoolMatchesClients
  <2>2. CASE c \in DOMAIN clients
    <3>1. DOMAIN clients' = DOMAIN clients /\ pool' = pool
      BY <2>2, <1>1, <1>3
    <3>2. QED
      BY <3>1 DEF PoolMatchesClients
  <2>3. CASE ~Grows /\ c \notin DOMAIN clients
    <3>1. pool' = pool
      BY <2>3, <1>3
    <3>2. QED
      BY <2>3, <3>1, <1>4, <1>6, Sizes DEF PoolMatchesClients
  <2>4. QED
    BY <2>1, <2>2, <2>3
<1>9. QED
  BY <1>1, <1>2, <1>3, <1>5, <1>8 DEF TypeOK

\* Fewer clients need no more threads (CheckActiveClients).
LEMMA ExpireKeepsPool ==
  ASSUME TypeOK, PoolMatchesClients, NEW S \in SUBSET DOMAIN clients,
         clients' = Restrict(clients, S), pool' = pool
  PROVE  PoolMatchesClients'
<1>1. DOMAIN clients' = S
  BY DEF Restrict
<1>2. Cardinality(S) <= Cardinality(DOMAIN clients) /\ Cardinality(S) \in Nat
  BY Sizes, FS_Subset, FS_CardinalityType
<1>3. QED
  BY <1>1, <1>2, Sizes DEF PoolMatchesClients

-----------------------------------------------------------------------------
(* Each action keeps the invariant *)

LEMMA InitOK == Init => IInv
<1> SUFFICES ASSUME Init PROVE IInv
  OBVIOUS
<1>1. TypeOK
  <2>1. /\ sendBuffers \in Seq(Message)
        /\ working \in [Workers -> Seq(Message)]
        /\ inbox \in [Workers -> Seq(Arrival)]
        /\ sent \in [Clients -> Seq(1 .. MaxBuffers)]
        /\ heard \in [Clients -> Seq(Nat \ {0})]
    BY EmptySeq DEF Init
  <2>2. DOMAIN clients = {} /\ clients \in [DOMAIN clients -> 0 .. InactiveClientTimeout + 1]
    BY DEF Init
  <2>3. /\ pc \in [Workers -> Labels] /\ readable \in [Workers -> BOOLEAN]
        /\ peer \in [Workers -> Clients \cup {None}] /\ posted \in [Clients -> Nat]
    BY DEF Init, Labels
  <2>4. clientsLock \in BOOLEAN /\ checkActiveClients \in BOOLEAN /\ toSend \subseteq Clients
    BY DEF Init
  <2>5. eventfd \in Nat /\ number \in 0 .. MaxBuffers
    BY DEF Init
  <2>6. sendLock \in pool \cup {None} /\ FirstWorker \in pool /\ pool \subseteq Workers
    BY DEF Init
  <2>7. QED
    BY <2>1, <2>2, <2>3, <2>4, <2>5, <2>6 DEF TypeOK, Labels
<1>2. Cardinality(pool) = 1 /\ Cardinality(DOMAIN clients) = 0
  BY FS_Singleton, FS_EmptySet DEF Init
<1>3. PoolMatchesClients
  BY <1>2 DEF PoolMatchesClients
<1>4. QED
  BY <1>1, <1>3 DEF Init, IInv, WorkerOK, HolderOK, FreeOK, CallOK, TurnsOK

\* What the parts other than the pool are about; a step that leaves these alone
\* keeps the parts that are about them.
workVars == << sendBuffers, eventfd, sendLock, pc, working, peer, inbox >>

LEMMA ClientSendsOK ==
  ASSUME IInv, NEW c \in Clients, NEW w \in Workers, ClientSends(c, w)
  PROVE  IInv'
<1> DEFINE m == [from |-> c, number |-> posted'[c]]
<1>0. /\ posted \in [Clients -> Nat] /\ inbox \in [Workers -> Seq(Arrival)]
      /\ posted' = [posted EXCEPT ![c] = @ + 1]
      /\ inbox' = [inbox EXCEPT ![w] = Append(@, m)]
  BY DEF IInv, TypeOK, ClientSends
<1>1. m \in Arrival /\ posted' \in [Clients -> Nat]
  BY <1>0 DEF Arrival
<1>2. inbox' \in [Workers -> Seq(Arrival)] /\ inbox'[w] # << >>
  <2> HIDE DEF m
  <2> QED BY <1>0, <1>1
<1> USE DEF IInv, ClientSends, clientVars, sendVars, callVars
<1>3. TypeOK'
  BY <1>1, <1>2 DEF TypeOK
<1>4. \A v \in Workers : WorkerOK(v)'
  BY <1>0, <1>2 DEF WorkerOK
<1>5. /\ HolderOK' /\ FreeOK' /\ CallOK' /\ PoolMatchesClients'
  BY DEF HolderOK, FreeOK, CallOK, PoolMatchesClients
<1>6. TurnsOK'
  BY DEF TurnsOK, OnTheWay, NumbersTo
<1>7. QED
  BY <1>3, <1>4, <1>5, <1>6

LEMMA ActiveClientTimerElapsedOK ==
  ASSUME IInv, ActiveClientTimerElapsed PROVE IInv'
<1> USE DEF IInv, ActiveClientTimerElapsed, clientVars, sendVars, callVars, logs
<1>1. TypeOK'
  BY DEF TypeOK
<1>2. /\ \A v \in Workers : WorkerOK(v)'
      /\ HolderOK' /\ FreeOK' /\ CallOK' /\ PoolMatchesClients'
  BY DEF WorkerOK, HolderOK, FreeOK, CallOK, PoolMatchesClients
<1>3. TurnsOK'
  BY DEF TurnsOK, OnTheWay, NumbersTo
<1>4. QED
  BY <1>1, <1>2, <1>3

LEMMA TickOK == ASSUME IInv, Tick PROVE IInv'
<1> USE DEF IInv, Tick, clientVars, sendVars, callVars, logs
<1>1. /\ DOMAIN clients' = DOMAIN clients
      /\ clients' \in [DOMAIN clients -> 0 .. InactiveClientTimeout + 1]
  BY DEF TypeOK
<1>2. TypeOK'
  BY <1>1 DEF TypeOK
<1>3. /\ \A v \in Workers : WorkerOK(v)'
      /\ HolderOK' /\ FreeOK' /\ CallOK'
  BY DEF WorkerOK, HolderOK, FreeOK, CallOK
<1>4. PoolMatchesClients'
  BY <1>1 DEF PoolMatchesClients
<1>5. TurnsOK'
  BY <1>1 DEF TurnsOK, OnTheWay, NumbersTo
<1>6. QED
  BY <1>2, <1>3, <1>4, <1>5

-----------------------------------------------------------------------------
(* SendBuffer *)

\* What QueueFor does to the parts that are about the send queue.
LEMMA QueueForKeeps ==
  ASSUME TypeOK, HolderOK, NEW c \in Clients, number' \in 1 .. MaxBuffers, QueueFor(c)
  PROVE  /\ sendBuffers' \in Seq(Message) /\ sendBuffers' # << >>
         /\ eventfd' \in Nat /\ eventfd' > 0
         /\ sendLock = None /\ sendLock' = None
         /\ \A d : NumbersTo(sendBuffers, d) \subseteq NumbersTo(sendBuffers', d)
         /\ number' \in NumbersTo(sendBuffers', c)
<1> DEFINE m == [to |-> c, number |-> number']
<1>0. /\ sendBuffers \in Seq(Message) /\ eventfd \in Nat
      /\ sendBuffers' = Append(sendBuffers, m)
      /\ eventfd' = eventfd + 1
      /\ sendLock = None /\ sendLock' = None
  BY DEF TypeOK, QueueFor
<1>1. m \in Message /\ m.to = c /\ m.number = number'
  BY DEF Message
<1> HIDE DEF m
<1>2. sendBuffers' \in Seq(Message) /\ sendBuffers' # << >>
  BY <1>0, <1>1
<1>3. Range(sendBuffers') = Range(sendBuffers) \cup {m}
  BY <1>0, <1>1 DEF Range
<1>4. QED
  BY <1>0, <1>1, <1>2, <1>3 DEF NumbersTo

LEMMA SendBufferOK ==
  ASSUME IInv, NEW c \in Clients, SendBuffer(c) PROVE IInv'
<1>1. number' = number + 1 /\ number' \in 1 .. MaxBuffers
  BY DEF IInv, TypeOK, SendBuffer, MaySend
<1>2. QueueFor(c) /\ ~clientsLock /\ clientsLock' = clientsLock
  BY DEF SendBuffer, clientVars
<1>3. /\ sendBuffers' \in Seq(Message) /\ sendBuffers' # << >>
      /\ eventfd' \in Nat /\ eventfd' > 0
      /\ sendLock = None /\ sendLock' = None
  BY <1>1, <1>2, QueueForKeeps DEF IInv
<1> USE DEF IInv, SendBuffer, clientVars, logs
<1>4. TypeOK'
  <2>1. TypeOK
    OBVIOUS
  <2>2. /\ clients' = clients /\ clientsLock' = clientsLock
        /\ checkActiveClients' = checkActiveClients /\ pool' = pool /\ pc' = pc
        /\ readable' = readable /\ working' = working /\ peer' = peer /\ inbox' = inbox
        /\ posted' = posted /\ toSend' = toSend /\ sent' = sent /\ heard' = heard
    OBVIOUS
  <2>3. number' \in 0 .. MaxBuffers /\ sendLock' \in pool' \cup {None}
    BY <1>1, <1>3
  <2> HIDE DEF IInv, SendBuffer
  <2>4. QED
    BY <1>3, <2>1, <2>2, <2>3 DEF TypeOK
<1>5. \A v \in Workers : WorkerOK(v)'
  BY <1>3 DEF WorkerOK
<1>6. HolderOK' /\ FreeOK' /\ CallOK' /\ TurnsOK'
  BY <1>2, <1>3 DEF HolderOK, FreeOK, CallOK, TurnsOK
<1>7. PoolMatchesClients'
  BY DEF PoolMatchesClients
<1>8. QED
  BY <1>4, <1>5, <1>6, <1>7

LEMMA SendToAllBeginOK == ASSUME IInv, SendToAllBegin PROVE IInv'
<1>1. number' = number + 1 /\ number' \in 1 .. MaxBuffers
  BY DEF IInv, TypeOK, SendToAllBegin, MaySend
<1>0. clientsLock' \in BOOLEAN /\ toSend' \subseteq Clients
  BY DEF IInv, TypeOK, SendToAllBegin
<1> USE DEF IInv, SendToAllBegin, sendVars, logs
<1>2. TypeOK'
  <2>1. TypeOK
    OBVIOUS
  <2>2. UNCHANGED << clients, checkActiveClients, sendBuffers, eventfd, sendLock, pool, pc,
                     readable, working, peer, inbox, posted, sent, heard >>
    OBVIOUS
  <2> HIDE DEF IInv, SendToAllBegin
  <2>3. QED
    BY <1>0, <1>1, <2>1, <2>2 DEF TypeOK
<1>3. \A v \in Workers : WorkerOK(v)'
  BY DEF WorkerOK
<1>4. HolderOK' /\ FreeOK' /\ CallOK' /\ TurnsOK'
  BY <1>1 DEF HolderOK, FreeOK, CallOK, TurnsOK
<1>5. PoolMatchesClients'
  BY DEF PoolMatchesClients
<1>6. QED
  BY <1>2, <1>3, <1>4, <1>5

LEMMA SendToAllNextOK ==
  ASSUME IInv, NEW c \in Clients, SendToAllNext(c) PROVE IInv'
<1>1. number' = number /\ number' \in 1 .. MaxBuffers
  BY DEF IInv, TypeOK, SendToAllNext, CallOK
<1>2. QueueFor(c) /\ clientsLock /\ toSend' = toSend \ {c}
  BY DEF SendToAllNext
<1>3. /\ sendBuffers' \in Seq(Message) /\ sendBuffers' # << >>
      /\ eventfd' \in Nat /\ eventfd' > 0
      /\ sendLock = None /\ sendLock' = None
      /\ \A d : NumbersTo(sendBuffers, d) \subseteq NumbersTo(sendBuffers', d)
      /\ number' \in NumbersTo(sendBuffers', c)
  BY <1>1, <1>2, QueueForKeeps DEF IInv
<1> USE DEF IInv, SendToAllNext, clientVars, logs
<1>4. TypeOK'
  BY <1>1, <1>3 DEF TypeOK
<1>5. \A v \in Workers : WorkerOK(v)'
  BY <1>3 DEF WorkerOK
<1>6. HolderOK' /\ FreeOK' /\ CallOK'
  BY <1>1, <1>3 DEF HolderOK, FreeOK, CallOK
<1>7. TurnsOK'
  BY <1>1, <1>2, <1>3 DEF TurnsOK, OnTheWay
<1>8. PoolMatchesClients'
  BY DEF PoolMatchesClients
<1>9. QED
  BY <1>4, <1>5, <1>6, <1>7, <1>8

LEMMA SendToAllEndOK == ASSUME IInv, SendToAllEnd PROVE IInv'
<1> USE DEF IInv, SendToAllEnd, sendVars, callVars, logs
<1>1. TypeOK'
  BY DEF TypeOK
<1>2. \A v \in Workers : WorkerOK(v)'
  BY DEF WorkerOK
<1>3. HolderOK' /\ FreeOK' /\ CallOK' /\ TurnsOK' /\ PoolMatchesClients'
  BY DEF HolderOK, FreeOK, CallOK, TurnsOK, PoolMatchesClients
<1>4. QED
  BY <1>1, <1>2, <1>3

-----------------------------------------------------------------------------
(* A worker *)

\* A worker only goes to another place: what it holds there is all that is asked.
\* This covers Poll, CheckFlag, SwapFails and SendDone.
LEMMA GoesOn ==
  ASSUME IInv, NEW w \in Workers, NEW label \in Labels \ {"received", "sent", "drain"},
         label = "receive" => inbox[w] # << >>,
         label # "send" => working[w] = << >>,
         pc[w] # "drain",
         pc' = [pc EXCEPT ![w] = label],
         readable' \in [Workers -> BOOLEAN],
         checkActiveClients' \in BOOLEAN,
         UNCHANGED << clients, clientsLock, sendVars, pool, working, peer, inbox,
                      callVars, logs >>
  PROVE  IInv'
<1> USE DEF IInv, sendVars, callVars, logs
<1>1. pc \in [Workers -> Labels] /\ pc' \in [Workers -> Labels]
  BY DEF TypeOK, Labels
<1>2. TypeOK'
  BY <1>1 DEF TypeOK, Labels
<1>3. ASSUME NEW v \in Workers PROVE WorkerOK(v)'
  <2>1. CASE v = w
    BY <1>1, <2>1 DEF WorkerOK, Labels
  <2>2. CASE v # w
    <3>1. pc'[v] = pc[v]
      BY <1>1, <2>2
    <3>2. QED
      BY <3>1 DEF WorkerOK
  <2>3. QED
    BY <2>1, <2>2
<1>4. HolderOK' /\ FreeOK' /\ CallOK' /\ PoolMatchesClients'
  BY DEF HolderOK, FreeOK, CallOK, PoolMatchesClients
<1>5. TurnsOK'
  BY DEF TurnsOK, OnTheWay, NumbersTo
<1>6. QED
  BY <1>2, <1>3, <1>4, <1>5

LEMMA PollOK == ASSUME IInv, NEW w \in Workers, Poll(w) PROVE IInv'
<1> DEFINE label == IF inbox[w] # << >> THEN "receive" ELSE "swap"
<1>1. /\ pc[w] = "poll" /\ pc' = [pc EXCEPT ![w] = label]
      /\ UNCHANGED << clients, clientsLock, sendVars, pool, working, peer, inbox,
                      callVars, logs >>
      /\ checkActiveClients' = checkActiveClients
  BY DEF Poll, Goto, clientVars
<1>2. readable' \in [Workers -> BOOLEAN] /\ checkActiveClients' \in BOOLEAN
  BY <1>1 DEF Poll, IInv, TypeOK
<1>3. working[w] = << >>
  BY <1>1 DEF IInv, WorkerOK
<1>4. /\ label \in Labels \ {"received", "sent", "drain"}
      /\ label = "receive" => inbox[w] # << >>
  BY DEF Labels
<1> HIDE DEF label
<1>5. QED
  BY <1>1, <1>2, <1>3, <1>4, GoesOn

LEMMA CheckFlagOK == ASSUME IInv, NEW w \in Workers, CheckFlag(w) PROVE IInv'
<1> DEFINE label == IF checkActiveClients THEN "expire" ELSE IF readable[w] THEN "swap" ELSE "poll"
<1>1. /\ pc[w] = "check"
      /\ UNCHANGED << clients, clientsLock, sendVars, pool, working, peer, inbox,
                      callVars, logs >>
      /\ checkActiveClients' = FALSE
  BY DEF CheckFlag
<1>2. pc' = [pc EXCEPT ![w] = label]
  BY DEF CheckFlag, Goto, AfterReceive
<1>3. readable' \in [Workers -> BOOLEAN]
  BY DEF CheckFlag, AfterReceive, IInv, TypeOK
<1>4. working[w] = << >>
  BY <1>1 DEF IInv, WorkerOK
<1>5. label \in Labels \ {"receive", "received", "sent", "drain"}
  BY DEF Labels
<1> HIDE DEF label
<1>6. QED
  BY <1>1, <1>2, <1>3, <1>4, <1>5, GoesOn

LEMMA SwapFailsOK == ASSUME IInv, NEW w \in Workers, SwapFails(w) PROVE IInv'
<1>1. /\ pc[w] = "swap" /\ pc' = [pc EXCEPT ![w] = "poll"] /\ readable' = readable
      /\ UNCHANGED << clients, clientsLock, sendVars, pool, working, peer, inbox,
                      callVars, logs >>
      /\ checkActiveClients' = checkActiveClients
  BY DEF SwapFails, Goto, clientVars
<1>2. working[w] = << >>
  BY <1>1 DEF IInv, WorkerOK
<1>3. readable' \in [Workers -> BOOLEAN] /\ checkActiveClients' \in BOOLEAN
  BY <1>1 DEF IInv, TypeOK
<1>4. "poll" \in Labels \ {"receive", "received", "sent", "drain"}
  BY DEF Labels
<1>5. QED
  BY <1>1, <1>2, <1>3, <1>4, GoesOn

LEMMA SendDoneOK == ASSUME IInv, NEW w \in Workers, SendDone(w) PROVE IInv'
<1>1. /\ pc[w] = "send" /\ pc' = [pc EXCEPT ![w] = "poll"] /\ readable' = readable
      /\ working[w] = << >>
      /\ UNCHANGED << clients, clientsLock, sendVars, pool, working, peer, inbox,
                      callVars, logs >>
      /\ checkActiveClients' = checkActiveClients
  BY DEF SendDone, Goto, clientVars
<1>2. readable' \in [Workers -> BOOLEAN] /\ checkActiveClients' \in BOOLEAN
  BY <1>1 DEF IInv, TypeOK
<1>3. "poll" \in Labels \ {"receive", "received", "sent", "drain"}
  BY DEF Labels
<1>4. QED
  BY <1>1, <1>2, <1>3, GoesOn

\* Received and Sent: the sender or the receiver is in the table afterwards.
LEMMA UpdatesActivity ==
  ASSUME IInv, NEW w \in Workers, NEW label \in {"check", "send"},
         pc[w] \in {"received", "sent"}, label = "check" => pc[w] = "received",
         UpdateClientActivityTime(peer[w]),
         peer' = [peer EXCEPT ![w] = None],
         pc' = [pc EXCEPT ![w] = label],
         UNCHANGED << clientsLock, checkActiveClients, sendVars, readable, working, inbox,
                      callVars, logs >>
  PROVE  IInv'
<1>1. peer[w] \in Clients
  BY DEF IInv, WorkerOK
<1>2. /\ PoolMatchesClients'
      /\ pool \subseteq pool' /\ pool' \subseteq Workers
      /\ DOMAIN clients' = DOMAIN clients \cup {peer[w]}
      /\ clients' \in [DOMAIN clients' -> 0 .. InactiveClientTimeout + 1]
  BY <1>1, UpdateKeepsPool DEF IInv
<1>3. ~clientsLock
  BY DEF UpdateClientActivityTime
<1>4. pc \in [Workers -> Labels] /\ pc' \in [Workers -> Labels]
  BY DEF IInv, TypeOK, Labels
<1>5. peer \in [Workers -> Clients \cup {None}] /\ peer' \in [Workers -> Clients \cup {None}]
  BY DEF IInv, TypeOK
<1> USE DEF IInv, sendVars, callVars, logs
<1>6. TypeOK'
  <2>1. DOMAIN clients' \subseteq Clients
    BY <1>1, <1>2 DEF TypeOK
  <2>2. sendLock' \in pool' \cup {None} /\ FirstWorker \in pool'
    BY <1>2 DEF TypeOK
  <2>3. QED
    BY <1>2, <1>4, <1>5, <2>1, <2>2 DEF TypeOK, Labels
<1>7. ASSUME NEW v \in Workers PROVE WorkerOK(v)'
  <2>1. CASE v = w
    BY <1>4, <2>1 DEF WorkerOK
  <2>2. CASE v # w
    <3>1. pc'[v] = pc[v] /\ peer'[v] = peer[v]
      BY <1>4, <1>5, <2>2
    <3>2. QED
      BY <3>1 DEF WorkerOK
  <2>3. QED
    BY <2>1, <2>2
<1>8. HolderOK' /\ FreeOK' /\ CallOK' /\ TurnsOK'
  BY <1>3 DEF HolderOK, FreeOK, CallOK, TurnsOK
<1>9. QED
  BY <1>2, <1>6, <1>7, <1>8

LEMMA ReceivedOK == ASSUME IInv, NEW w \in Workers, Received(w) PROVE IInv'
<1>1. "check" \in {"check", "send"}
  OBVIOUS
<1>2. QED
  BY <1>1, UpdatesActivity DEF Received, Goto

LEMMA SentOK == ASSUME IInv, NEW w \in Workers, Sent(w) PROVE IInv'
<1>1. "send" \in {"check", "send"}
  OBVIOUS
<1>2. QED
  BY <1>1, UpdatesActivity DEF Sent, Goto

LEMMA ReceiveNextBufferOK ==
  ASSUME IInv, NEW w \in Workers, ReceiveNextBuffer(w) PROVE IInv'
<1> DEFINE m == Head(inbox[w])
<1>1. /\ pc[w] = "receive" /\ pc' = [pc EXCEPT ![w] = "received"]
      /\ peer' = [peer EXCEPT ![w] = m.from]
      /\ heard' = [heard EXCEPT ![m.from] = Append(@, m.number)]
      /\ inbox' = [inbox EXCEPT ![w] = Tail(@)]
      /\ UNCHANGED << clientVars, sendVars, pool, readable, working, callVars, posted, sent >>
  BY DEF ReceiveNextBuffer, Goto
<1>2. /\ pc \in [Workers -> Labels] /\ peer \in [Workers -> Clients \cup {None}]
      /\ inbox \in [Workers -> Seq(Arrival)] /\ heard \in [Clients -> Seq(Nat \ {0})]
  BY DEF IInv, TypeOK, Labels
<1>3. inbox[w] # << >>
  BY <1>1 DEF IInv, WorkerOK
<1>4. m \in Arrival /\ Tail(inbox[w]) \in Seq(Arrival)
  BY <1>2, <1>3, HeadTailProperties
<1>5. m.from \in Clients /\ m.number \in Nat \ {0}
  BY <1>4 DEF Arrival
<1> HIDE DEF m
<1>6. /\ pc' \in [Workers -> Labels] /\ peer' \in [Workers -> Clients \cup {None}]
      /\ inbox' \in [Workers -> Seq(Arrival)]
  BY <1>1, <1>2, <1>4, <1>5 DEF Labels
<1>7. heard' \in [Clients -> Seq(Nat \ {0})]
  BY <1>1, <1>2, <1>5
<1> USE DEF IInv, clientVars, sendVars, callVars
<1>8. TypeOK'
  BY <1>1, <1>6, <1>7 DEF TypeOK, Labels
<1>9. ASSUME NEW v \in Workers PROVE WorkerOK(v)'
  <2>1. CASE v = w
    BY <1>1, <1>2, <1>5, <1>6, <2>1 DEF WorkerOK
  <2>2. CASE v # w
    <3>1. pc'[v] = pc[v] /\ peer'[v] = peer[v] /\ inbox'[v] = inbox[v]
      BY <1>1, <1>2, <2>2
    <3>2. QED
      BY <1>1, <3>1 DEF WorkerOK
  <2>3. QED
    BY <2>1, <2>2
<1>10. HolderOK' /\ FreeOK' /\ CallOK' /\ PoolMatchesClients'
  BY <1>1 DEF HolderOK, FreeOK, CallOK, PoolMatchesClients
<1>11. TurnsOK'
  BY <1>1 DEF TurnsOK, OnTheWay, NumbersTo
<1>12. QED
  BY <1>8, <1>9, <1>10, <1>11

LEMMA CheckActiveClientsOK ==
  ASSUME IInv, NEW w \in Workers, CheckActiveClients(w) PROVE IInv'
<1> DEFINE S == {c \in DOMAIN clients : clients[c] <= InactiveClientTimeout}
           label == IF readable[w] THEN "swap" ELSE "poll"
<1>1. /\ pc[w] = "expire" /\ ~clientsLock /\ clients' = Restrict(clients, S)
      /\ pc' = [pc EXCEPT ![w] = label]
      /\ readable' = [readable EXCEPT ![w] = FALSE]
      /\ UNCHANGED << clientsLock, checkActiveClients, sendVars, pool, working, peer, inbox,
                      callVars, logs >>
  BY DEF CheckActiveClients, AfterReceive, Goto
<1>2. /\ pc \in [Workers -> Labels] /\ pc' \in [Workers -> Labels]
      /\ readable' \in [Workers -> BOOLEAN]
      /\ label \in {"swap", "poll"}
  BY <1>1 DEF IInv, TypeOK, Labels
<1>3. DOMAIN clients' = S /\ clients' \in [S -> 0 .. InactiveClientTimeout + 1]
  BY <1>1 DEF IInv, TypeOK, Restrict
<1>4. PoolMatchesClients'
  BY <1>1, ExpireKeepsPool DEF IInv
<1> HIDE DEF label
<1> USE DEF IInv, sendVars, callVars, logs
<1>5. TypeOK'
  <2>1. DOMAIN clients' \subseteq Clients
    BY <1>3 DEF TypeOK
  <2> HIDE DEF S
  <2>2. QED
    BY <1>1, <1>2, <1>3, <2>1 DEF TypeOK, Labels
<1>6. ASSUME NEW v \in Workers PROVE WorkerOK(v)'
  <2>1. CASE v = w
    BY <1>1, <1>2, <2>1 DEF WorkerOK
  <2>2. CASE v # w
    <3>1. pc'[v] = pc[v]
      BY <1>1, <1>2, <2>2
    <3>2. QED
      BY <1>1, <3>1 DEF WorkerOK
  <2>3. QED
    BY <2>1, <2>2
<1>7. HolderOK' /\ FreeOK' /\ CallOK' /\ TurnsOK'
  BY <1>1 DEF HolderOK, FreeOK, CallOK, TurnsOK
<1>8. QED
  BY <1>4, <1>5, <1>6, <1>7

LEMMA SwapSendBuffersOK ==
  ASSUME IInv, NEW w \in Workers, w \in pool, SwapSendBuffers(w) PROVE IInv'
<1>1. /\ pc[w] = "swap" /\ sendLock = None /\ sendLock' = w
      /\ working' = [working EXCEPT ![w] = sendBuffers] /\ sendBuffers' = << >>
      /\ pc' = [pc EXCEPT ![w] = "drain"]
      /\ UNCHANGED << clientVars, eventfd, pool, readable, peer, inbox, callVars, logs >>
  BY DEF SwapSendBuffers, Goto
<1>2. /\ pc \in [Workers -> Labels] /\ working \in [Workers -> Seq(Message)]
      /\ sendBuffers \in Seq(Message)
  BY DEF IInv, TypeOK, Labels
<1>3. /\ pc' \in [Workers -> Labels] /\ working' \in [Workers -> Seq(Message)]
      /\ sendBuffers' \in Seq(Message)
  BY <1>1, <1>2, EmptySeq DEF Labels
<1>4. working[w] = << >>
  BY <1>1 DEF IInv, WorkerOK
<1> USE DEF IInv, clientVars, callVars, logs
<1>5. TypeOK'
  BY <1>1, <1>3 DEF TypeOK, Labels
<1>6. ASSUME NEW v \in Workers PROVE WorkerOK(v)'
  <2>1. CASE v = w
    BY <1>1, <1>2, <2>1 DEF WorkerOK
  <2>2. CASE v # w
    <3>1. pc'[v] = pc[v] /\ working'[v] = working[v]
      BY <1>1, <1>2, <2>2
    <3>2. pc[v] # "drain" /\ sendLock' # v
      BY <1>1, <2>2 DEF WorkerOK
    <3>3. QED
      BY <1>1, <3>1, <3>2 DEF WorkerOK
  <2>3. QED
    BY <2>1, <2>2
<1>7. HolderOK' /\ FreeOK'
  BY <1>1, <1>2 DEF HolderOK, FreeOK
<1>8. \A c : OnTheWay(c) \subseteq OnTheWay(c)'
  <2> SUFFICES ASSUME NEW c, NEW n \in OnTheWay(c) PROVE n \in OnTheWay(c)'
    OBVIOUS
  <2>1. CASE n \in NumbersTo(sendBuffers, c)
    <3>1. working'[w] = sendBuffers
      BY <1>1, <1>2
    <3>2. n \in NumbersTo(working'[w], c)
      BY <2>1, <3>1
    <3>3. QED
      BY <3>2 DEF OnTheWay
  <2>2. ASSUME NEW v \in Workers, n \in NumbersTo(working[v], c) PROVE n \in OnTheWay(c)'
    <3>1. v # w
      BY <1>4, <2>2 DEF NumbersTo, Range
    <3>2. working'[v] = working[v]
      BY <1>1, <1>2, <3>1
    <3>3. QED
      BY <2>2, <3>2 DEF OnTheWay
  <2>3. QED
    BY <2>1, <2>2 DEF OnTheWay
<1>9. CallOK' /\ TurnsOK' /\ PoolMatchesClients'
  BY <1>1, <1>8 DEF CallOK, TurnsOK, PoolMatchesClients
<1>10. QED
  BY <1>5, <1>6, <1>7, <1>9

LEMMA ReadDescriptorOK ==
  ASSUME IInv, NEW w \in Workers, ReadDescriptor(w) PROVE IInv'
<1>1. /\ pc[w] = "drain" /\ pc' = [pc EXCEPT ![w] = "send"] /\ sendLock' = None
      /\ eventfd' = IF working[w] # << >> THEN 0 ELSE eventfd
      /\ UNCHANGED << clientVars, sendBuffers, pool, readable, working, peer, inbox, callVars, logs >>
  BY DEF ReadDescriptor, Goto
<1>2. pc \in [Workers -> Labels] /\ pc' \in [Workers -> Labels] /\ eventfd' \in Nat
  BY <1>1 DEF IInv, TypeOK, Labels
<1>3. sendLock = w
  BY <1>1 DEF IInv, WorkerOK
<1>4. sendBuffers' = << >> /\ eventfd' = 0
  BY <1>1, <1>3 DEF IInv, HolderOK, TypeOK
<1> USE DEF IInv, clientVars, callVars, logs
<1>5. TypeOK'
  BY <1>1, <1>2 DEF TypeOK, Labels
<1>6. ASSUME NEW v \in Workers PROVE WorkerOK(v)'
  <2>1. CASE v = w
    BY <1>1, <1>2, <2>1 DEF WorkerOK
  <2>2. CASE v # w
    <3>1. pc'[v] = pc[v]
      BY <1>1, <1>2, <2>2
    <3>2. pc[v] # "drain"
      BY <1>3, <2>2 DEF WorkerOK
    <3>3. QED
      BY <1>1, <3>1, <3>2 DEF WorkerOK
  <2>3. QED
    BY <2>1, <2>2
<1>7. HolderOK' /\ FreeOK'
  BY <1>1, <1>4 DEF HolderOK, FreeOK
<1>8. CallOK' /\ PoolMatchesClients'
  BY <1>1 DEF CallOK, PoolMatchesClients
<1>9. TurnsOK'
  BY <1>1 DEF TurnsOK, OnTheWay
<1>10. QED
  BY <1>5, <1>6, <1>7, <1>8, <1>9

\* What a sequence holds once its first element has been taken ...
LEMMA RangeOfTail ==
  ASSUME NEW S, NEW s \in Seq(S), s # << >>
  PROVE  /\ Head(s) \in S /\ Tail(s) \in Seq(S)
         /\ Range(s) \subseteq {Head(s)} \cup Range(Tail(s))
<1>1. /\ Head(s) \in S /\ Tail(s) \in Seq(S) /\ Head(s) = s[1]
      /\ Len(Tail(s)) = Len(s) - 1 /\ \A i \in 1 .. Len(Tail(s)) : Tail(s)[i] = s[i + 1]
  BY HeadTailProperties
<1>2. ASSUME NEW i \in 1 .. Len(s) PROVE s[i] \in {Head(s)} \cup Range(Tail(s))
  <2>1. CASE i = 1
    BY <1>1, <2>1
  <2>2. CASE i # 1
    <3>1. i - 1 \in 1 .. Len(Tail(s)) /\ (i - 1) + 1 = i
      BY <1>1, <2>2
    <3>2. s[i] = Tail(s)[i - 1]
      BY <1>1, <3>1
    <3>3. DOMAIN Tail(s) = 1 .. Len(Tail(s))
      BY <1>1
    <3>4. QED
      BY <3>1, <3>2, <3>3 DEF Range
  <2>3. QED
    BY <2>1, <2>2
<1>3. DOMAIN s = 1 .. Len(s)
  OBVIOUS
<1>4. QED
  BY <1>1, <1>2, <1>3 DEF Range

\* ... and once one has been appended.
LEMMA RangeOfAppend ==
  ASSUME NEW S, NEW s \in Seq(S), NEW e \in S
  PROVE  Append(s, e) \in Seq(S) /\ Range(Append(s, e)) = Range(s) \cup {e}
<1> DEFINE t == Append(s, e)
<1>1. /\ t \in Seq(S) /\ DOMAIN t = 1 .. Len(s) + 1 /\ DOMAIN s = 1 .. Len(s)
      /\ t[Len(s) + 1] = e /\ \A i \in 1 .. Len(s) : t[i] = s[i]
      /\ Len(s) \in Nat
  OBVIOUS
<1> HIDE DEF t
<1>2. Range(t) \subseteq Range(s) \cup {e}
  BY <1>1 DEF Range
<1>3. Range(s) \cup {e} \subseteq Range(t)
  BY <1>1 DEF Range
<1>4. QED
  BY <1>1, <1>2, <1>3 DEF t

LEMMA SendNextOK == ASSUME IInv, NEW w \in Workers, SendNext(w) PROVE IInv'
<1> DEFINE m == Head(working[w])
<1>1. /\ pc[w] = "send" /\ working[w] # << >>
      /\ peer' = [peer EXCEPT ![w] = m.to]
      /\ sent' = [sent EXCEPT ![m.to] = Append(@, m.number)]
      /\ working' = [working EXCEPT ![w] = Tail(@)]
      /\ pc' = [pc EXCEPT ![w] = "sent"]
      /\ UNCHANGED << clientVars, sendVars, pool, readable, inbox, callVars, posted, heard >>
  BY DEF SendNext, Goto
<1>2. /\ pc \in [Workers -> Labels] /\ peer \in [Workers -> Clients \cup {None}]
      /\ working \in [Workers -> Seq(Message)] /\ sent \in [Clients -> Seq(1 .. MaxBuffers)]
  BY DEF IInv, TypeOK, Labels
<1>3. /\ m \in Message /\ Tail(working[w]) \in Seq(Message)
      /\ Range(working[w]) \subseteq {m} \cup Range(Tail(working[w]))
  BY <1>1, <1>2, RangeOfTail
<1>4. m.to \in Clients /\ m.number \in 1 .. MaxBuffers
  BY <1>3 DEF Message
<1> HIDE DEF m
<1>5. /\ pc' \in [Workers -> Labels] /\ peer' \in [Workers -> Clients \cup {None}]
      /\ working' \in [Workers -> Seq(Message)]
  BY <1>1, <1>2, <1>3, <1>4 DEF Labels
<1>6. /\ sent' \in [Clients -> Seq(1 .. MaxBuffers)]
      /\ \A c \in Clients : Range(sent[c]) \subseteq Range(sent'[c])
      /\ m.number \in Range(sent'[m.to])
  <2>1. sent'[m.to] = Append(sent[m.to], m.number)
    BY <1>1, <1>2, <1>4
  <2>2. /\ sent'[m.to] \in Seq(1 .. MaxBuffers)
        /\ Range(sent'[m.to]) = Range(sent[m.to]) \cup {m.number}
    <3>1. sent[m.to] \in Seq(1 .. MaxBuffers)
      BY <1>2, <1>4
    <3>2. QED
      BY <1>4, <2>1, <3>1, RangeOfAppend
  <2>3. \A c \in Clients : c # m.to => sent'[c] = sent[c]
    BY <1>1, <1>2
  <2>4. sent' \in [Clients -> Seq(1 .. MaxBuffers)]
    BY <1>1, <1>2, <1>4, <2>1, <2>2
  <2>5. QED
    BY <1>4, <2>2, <2>3, <2>4
<1> USE DEF IInv, clientVars, sendVars, callVars
<1>7. TypeOK'
  BY <1>1, <1>5, <1>6 DEF TypeOK, Labels
<1>8. ASSUME NEW v \in Workers PROVE WorkerOK(v)'
  <2>1. CASE v = w
    BY <1>1, <1>2, <1>4, <2>1 DEF WorkerOK
  <2>2. CASE v # w
    <3>1. pc'[v] = pc[v] /\ peer'[v] = peer[v] /\ working'[v] = working[v]
      BY <1>1, <1>2, <2>2
    <3>2. QED
      BY <1>1, <3>1 DEF WorkerOK
  <2>3. QED
    BY <2>1, <2>2
<1>9. HolderOK' /\ FreeOK' /\ CallOK' /\ PoolMatchesClients'
  <2>1. sendLock # w
    BY <1>1 DEF WorkerOK
  <2>2. \A v \in Workers : v # w => working'[v] = working[v]
    BY <1>1, <1>2
  <2>3. QED
    BY <1>1, <2>1, <2>2 DEF HolderOK, FreeOK, CallOK, PoolMatchesClients
<1>10. ASSUME NEW c \in Clients, NEW n \in OnTheWay(c)
       PROVE  n \in OnTheWay(c)' \cup Range(sent'[c])
  <2>1. CASE n \in NumbersTo(sendBuffers, c)
    BY <1>1, <2>1 DEF OnTheWay
  <2>2. ASSUME NEW v \in Workers, n \in NumbersTo(working[v], c)
        PROVE  n \in OnTheWay(c)' \cup Range(sent'[c])
    <3>1. CASE v # w
      <4>1. working'[v] = working[v]
        BY <1>1, <1>2, <3>1
      <4>2. QED
        BY <2>2, <4>1 DEF OnTheWay
    <3>2. CASE v = w
      <4>1. working'[w] = Tail(working[w])
        BY <1>1, <1>2
      <4>2. PICK x \in Range(working[w]) : x.to = c /\ x.number = n
        BY <2>2, <3>2 DEF NumbersTo
      <4>3. CASE x = m
        BY <1>6, <4>2, <4>3
      <4>4. CASE x \in Range(Tail(working[w]))
        <5>1. n \in NumbersTo(working'[w], c)
          BY <4>1, <4>2, <4>4 DEF NumbersTo
        <5>2. QED
          BY <5>1 DEF OnTheWay
      <4>5. QED
        BY <1>3, <4>2, <4>3, <4>4
    <3>3. QED
      BY <3>1, <3>2
  <2>3. QED
    BY <2>1, <2>2 DEF OnTheWay
<1>11. TurnsOK'
  <2>1. DOMAIN clients \subseteq Clients
    BY DEF TypeOK
  <2>2. /\ clientsLock' = clientsLock /\ clients' = clients /\ toSend' = toSend
        /\ number' = number
    BY <1>1
  <2>3. QED
    BY <1>6, <1>10, <2>1, <2>2 DEF TurnsOK
<1>12. QED
  BY <1>7, <1>8, <1>9, <1>11

-----------------------------------------------------------------------------
(* The theorems *)

LEMMA WorkerOKs == ASSUME IInv, NEW w \in Workers, Worker(w) PROVE IInv'
BY PollOK, ReceiveNextBufferOK, ReceivedOK, CheckFlagOK, CheckActiveClientsOK,
   SwapSendBuffersOK, SwapFailsOK, ReadDescriptorOK, SendNextOK, SentOK, SendDoneOK
   DEF Worker

LEMMA StutterOK == ASSUME IInv, UNCHANGED vars PROVE IInv'
<1> USE DEF IInv, vars, clientVars, sendVars, callVars, logs
<1>1. TypeOK' /\ \A v \in Workers : WorkerOK(v)'
  BY DEF TypeOK, WorkerOK
<1>2. HolderOK' /\ FreeOK' /\ CallOK' /\ PoolMatchesClients'
  BY DEF HolderOK, FreeOK, CallOK, PoolMatchesClients
<1>3. TurnsOK'
  BY DEF TurnsOK, OnTheWay, NumbersTo
<1>4. QED
  BY <1>1, <1>2, <1>3

LEMMA StepOK == IInv /\ [Next]_vars => IInv'
<1> SUFFICES ASSUME IInv, [Next]_vars PROVE IInv'
  OBVIOUS
<1>1. CASE \E c \in Clients, w \in Workers : ClientSends(c, w)
  BY <1>1, ClientSendsOK
<1>2. CASE ActiveClientTimerElapsed
  BY <1>2, ActiveClientTimerElapsedOK
<1>3. CASE Tick
  BY <1>3, TickOK
<1>4. CASE MainThread
  BY <1>4, SendBufferOK, SendToAllBeginOK, SendToAllNextOK, SendToAllEndOK DEF MainThread
<1>5. CASE \E w \in Workers : Worker(w)
  BY <1>5, WorkerOKs
<1>6. CASE UNCHANGED vars
  BY <1>6, StutterOK
<1>7. QED
  BY <1>1, <1>2, <1>3, <1>4, <1>5, <1>6 DEF Next

\* The invariant the others follow from: who holds the send lock, what the queue
\* and the descriptor are meanwhile, and which turn of a call each client has.
THEOREM Invariant == Spec => []IInv
<1>1. QED
  BY InitOK, StepOK, PTL DEF Spec

\* Every variable of the server keeps its type, whatever the threads do.
THEOREM TypeCorrect == Spec => []TypeOK
<1>1. IInv => TypeOK
  BY DEF IInv
<1>2. QED
  BY Invariant, <1>1, PTL

\* With any number of workers the descriptor announces what the queue holds, and
\* no worker blocks on it while it holds the send lock (SendQueuedBuffers).
THEOREM DescriptorCorrect == Spec => []DescriptorMatchesQueue
<1>1. IInv => DescriptorMatchesQueue
  <2> SUFFICES ASSUME IInv PROVE DescriptorMatchesQueue
    OBVIOUS
  <2>1. ASSUME NEW w \in pool, pc[w] = "drain", working[w] # << >> PROVE eventfd > 0
    <3>1. w \in Workers
      BY DEF IInv, TypeOK
    <3>2. sendLock = w
      BY <2>1, <3>1 DEF IInv, WorkerOK
    <3>3. QED
      BY <2>1, <3>1, <3>2 DEF IInv, HolderOK
  <2>2. QED
    BY <2>1 DEF IInv, FreeOK, DescriptorMatchesQueue
<1>2. QED
  BY Invariant, <1>1, PTL

\* With any number of clients the pool has a thread for each of them, or as many
\* as it may have (UpdateClientActivityTime, CheckActiveClients).
THEOREM PoolCorrect == Spec => []PoolMatchesClients
<1>1. IInv => PoolMatchesClients
  BY DEF IInv
<1>2. QED
  BY Invariant, <1>1, PTL

\* A buffer sent to all is on its way to, or has reached, every client that is in
\* the table when the call ends (SendBuffer to all).
THEOREM BroadcastCorrect == Spec => BroadcastReachesAll
<1>1. IInv /\ [Next]_vars =>
        [SendToAllEnd => \A c \in DOMAIN clients : number \in OnTheWay(c) \cup Range(sent[c])]_vars
  BY DEF IInv, TurnsOK, SendToAllEnd
<1>2. QED
  BY Invariant, <1>1, PTL DEF Spec, BroadcastReachesAll

-----------------------------------------------------------------------------
(* The channels *)

\* Clients the server has had to do with
Known == {c \in Clients : posted[c] > 0 \/ OnTheWay(c) # {} \/ sent[c] # << >>}

\* Messages of a sequence that agree in the key are in the order of their numbers.
InOrder(s, key) ==
  \A i, j \in DOMAIN s : i < j /\ s[i][key] = s[j][key] => s[i].number < s[j].number

\* Buffers for a client are numbered as they were queued, those a worker took before
\* those in the queue, and each is in one place.
OutInv ==
  /\ \A m \in Range(sendBuffers) : m.number <= number
  /\ \A w \in Workers : \A m \in Range(working[w]) : m.number <= number
  /\ \A c \in Clients : \A n \in Range(sent[c]) : n <= number
  /\ InOrder(sendBuffers, "to") /\ \A w \in Workers : InOrder(working[w], "to")
  /\ \A w \in Workers : \A m \in Range(working[w]), x \in Range(sendBuffers) :
       m.to = x.to => m.number < x.number
  /\ \A v, w \in Workers : v # w => Range(working[v]) \cap Range(working[w]) = {}
  /\ clientsLock => \A c \in toSend : number \notin OnTheWay(c) \cup Range(sent[c])

\* So are the messages of a client that the proxy has passed to the workers.
InInv ==
  /\ \A c \in Clients : posted[c] <= MaxMessages[c]
  /\ \A w \in Workers : \A m \in Range(inbox[w]) : m.number <= posted[m.from]
  /\ \A c \in Clients : \A n \in Range(heard[c]) : n <= posted[c]
  /\ \A w \in Workers : InOrder(inbox[w], "from")
  /\ \A v, w \in Workers : v # w => Range(inbox[v]) \cap Range(inbox[w]) = {}

\* Only clients that are known are in the table or at hand, and while there is one,
\* the first worker does everything.
KnownInv ==
  /\ DOMAIN clients \subseteq Known /\ toSend \subseteq Known
  /\ \A w \in Workers : peer[w] # None => peer[w] \in Known
  /\ \A w \in Workers \ pool : working[w] = << >> /\ inbox[w] = << >>
  /\ ~Several => pool = {FirstWorker}

ChannelInv == OutInv /\ InInv /\ KnownInv

LEMMA OrderOfAppend ==
  ASSUME NEW T, NEW s \in Seq(T), NEW e \in T, NEW key, InOrder(s, key),
         \A m \in Range(s) : m[key] = e[key] => m.number < e.number
  PROVE  InOrder(Append(s, e), key)
<1> DEFINE t == Append(s, e)
<1>1. /\ t \in Seq(T) /\ DOMAIN t = 1 .. Len(s) + 1 /\ DOMAIN s = 1 .. Len(s)
      /\ t[Len(s) + 1] = e /\ \A i \in 1 .. Len(s) : t[i] = s[i]
      /\ Len(s) \in Nat
  OBVIOUS
<1> HIDE DEF t
<1>2. ASSUME NEW i \in DOMAIN t, NEW j \in DOMAIN t, i < j, t[i][key] = t[j][key]
      PROVE  t[i].number < t[j].number
  <2>1. i \in 1 .. Len(s) /\ t[i] = s[i] /\ s[i] \in Range(s)
    BY <1>1, <1>2 DEF Range
  <2>2. CASE j \in 1 .. Len(s)
    <3>1. t[j] = s[j]
      BY <1>1, <2>2
    <3>2. QED
      BY <1>1, <1>2, <2>1, <2>2, <3>1 DEF InOrder
  <2>3. CASE j = Len(s) + 1
    <3>1. t[j] = e
      BY <1>1, <2>3
    <3>2. QED
      BY <1>2, <2>1, <3>1
  <2>4. QED
    BY <1>1, <2>2, <2>3
<1>3. QED
  BY <1>2 DEF InOrder, t

LEMMA OrderOfTail ==
  ASSUME NEW T, \A m \in T : m.number \in Nat, NEW s \in Seq(T), s # << >>,
         NEW key, InOrder(s, key)
  PROVE  /\ InOrder(Tail(s), key) /\ Head(s) \notin Range(Tail(s))
         /\ \A m \in Range(Tail(s)) : m[key] = Head(s)[key] => Head(s).number < m.number
         /\ Range(s) = {Head(s)} \cup Range(Tail(s))
<1> DEFINE t == Tail(s)
           h == Head(s)
<1>1. /\ t \in Seq(T) /\ h = s[1] /\ h \in T /\ Len(s) \in Nat /\ Len(s) >= 1
      /\ Len(t) = Len(s) - 1 /\ \A i \in 1 .. Len(t) : t[i] = s[i + 1]
      /\ DOMAIN t = 1 .. Len(t) /\ DOMAIN s = 1 .. Len(s)
  BY HeadTailProperties
<1> HIDE DEF t, h
<1>2. ASSUME NEW i \in DOMAIN t, NEW j \in DOMAIN t, i < j, t[i][key] = t[j][key]
      PROVE  t[i].number < t[j].number
  <2>1. /\ i + 1 \in DOMAIN s /\ j + 1 \in DOMAIN s /\ i + 1 < j + 1
        /\ t[i] = s[i + 1] /\ t[j] = s[j + 1]
    BY <1>1, <1>2
  <2>2. QED
    BY <1>2, <2>1 DEF InOrder
<1>3. ASSUME NEW m \in Range(t), m[key] = h[key] PROVE h.number < m.number
  <2>1. PICK i \in DOMAIN t : m = t[i]
    BY DEF Range
  <2>2. i + 1 \in DOMAIN s /\ 1 \in DOMAIN s /\ 1 < i + 1 /\ m = s[i + 1]
    BY <1>1, <2>1
  <2>3. QED
    BY <1>1, <1>3, <2>2 DEF InOrder
<1>4. h \notin Range(t)
  <2>1. h.number \in Nat
    BY <1>1
  <2>2. QED
    BY <1>3, <2>1
<1>5. Range(s) \subseteq {h} \cup Range(t)
  BY RangeOfTail DEF h, t
<1>6. {h} \cup Range(t) \subseteq Range(s)
  <2>1. h \in Range(s)
    BY <1>1 DEF Range
  <2>2. ASSUME NEW m \in Range(t) PROVE m \in Range(s)
    <3>1. PICK i \in DOMAIN t : m = t[i]
      BY DEF Range
    <3>2. i + 1 \in DOMAIN s /\ m = s[i + 1]
      BY <1>1, <3>1
    <3>3. QED
      BY <3>2 DEF Range
  <2>3. QED
    BY <2>1, <2>2
<1>7. QED
  BY <1>2, <1>3, <1>4, <1>5, <1>6 DEF InOrder, t, h

\* What the channels are mapped to, and a step of theirs.
OutPending == [c \in Clients |-> OnTheWay(c)]
InPending == [c \in Clients |-> Passed(c)]
OutStep == [ToClients!Next]_<< OutPending, sent >>
InStep == [FromClients!Next]_<< InPending, heard >>

LEMMA SeveralKnown == Several <=> \E c, d \in Known : c # d
BY DEF Several, Known

\* There is no way back to a single client.
LEMMA OneClient ==
  ASSUME Known \subseteq Known', ~Several'
  PROVE  ~Several
BY SeveralKnown DEF Several, Known

LEMMA InitChannels == Init => ChannelInv /\ ToClients!Init /\ FromClients!Init
<1> SUFFICES ASSUME Init PROVE ChannelInv /\ ToClients!Init /\ FromClients!Init
  OBVIOUS
<1>1. Range(<< >>) = {}
  BY DEF Range
<1>2. \A c \in Clients : OnTheWay(c) = {} /\ Passed(c) = {}
  BY <1>1 DEF Init, OnTheWay, NumbersTo, Passed
<1>3. \A key : InOrder(<< >>, key)
  BY DEF InOrder
<1>4. OutInv /\ InInv
  <2>1. OutInv
    BY <1>1, <1>3 DEF Init, OutInv
  <2>2. \A c \in Clients : posted[c] <= MaxMessages[c]
    BY ServerAssumption DEF Init
  <2>3. InInv
    BY <1>1, <1>3, <2>2 DEF Init, InInv
  <2>4. QED
    BY <2>1, <2>3
<1>5. DOMAIN clients = {} /\ toSend = {} /\ \A w \in Workers : peer[w] = None
  BY DEF Init
<1>6. KnownInv
  BY <1>5 DEF Init, KnownInv
<1>7. QED
  BY <1>2, <1>4, <1>6 DEF Init, ChannelInv, ToClients!Init, FromClients!Init

\* Most steps touch no message.
LEMMA StillOK ==
  ASSUME IInv, ChannelInv,
         UNCHANGED << sendBuffers, working, inbox, posted, number, toSend, sent, heard >>,
         clientsLock' => clientsLock,
         DOMAIN clients' \subseteq Known,
         \A w \in Workers : peer'[w] # None => peer'[w] \in Known,
         pool \subseteq pool', ~Several => pool' = pool
  PROVE  ChannelInv' /\ OutStep /\ InStep
<1>1. \A c : OnTheWay(c)' = OnTheWay(c) /\ Passed(c)' = Passed(c)
  BY DEF OnTheWay, NumbersTo, Passed
<1>2. Known' = Known /\ (Several' <=> Several)
  BY <1>1 DEF Known, Several
<1>3. OutStep /\ InStep
  BY <1>1 DEF OutStep, InStep, OutPending, InPending
<1>4. OutInv'
  BY <1>1 DEF ChannelInv, OutInv
<1>5. InInv'
  BY DEF ChannelInv, InInv
<1>6. KnownInv'
  BY <1>2 DEF ChannelInv, KnownInv
<1>7. QED
  BY <1>3, <1>4, <1>5, <1>6 DEF ChannelInv

\* The pool only grows when a second client is known.
LEMMA UpdateWithOne ==
  ASSUME IInv, ChannelInv, NEW c \in Known, UpdateClientActivityTime(c)
  PROVE  /\ DOMAIN clients' \subseteq Known /\ pool \subseteq pool' 
         /\ ~Several => pool' = pool
<1>1. c \in Clients /\ DOMAIN clients' = DOMAIN clients \cup {c}
  BY DEF Known, UpdateClientActivityTime
<1>2. DOMAIN clients' \subseteq Known /\ pool \subseteq pool'
  BY <1>1, UpdateKeepsPool DEF ChannelInv, KnownInv, IInv
<1>3. ASSUME ~Several, c \notin DOMAIN clients,
             Cardinality(DOMAIN clients') > Cardinality(pool)
      PROVE  FALSE
  <2>1. DOMAIN clients' = {c}
    BY <1>1, <1>2, <1>3, SeveralKnown
  <2>2. pool = {FirstWorker}
    BY <1>3 DEF ChannelInv, KnownInv
  <2>3. Cardinality({c}) = 1 /\ Cardinality({FirstWorker}) = 1
    BY FS_Singleton
  <2>4. 1 > 1
    BY <1>3, <2>1, <2>2, <2>3
  <2>5. QED
    BY <2>4
<1>4. ~Several => pool' = pool
  BY <1>3 DEF UpdateClientActivityTime
<1>5. QED
  BY <1>2, <1>4

LEMMA QuietStepsOK ==
  ASSUME IInv, ChannelInv,
         \/ ActiveClientTimerElapsed \/ Tick \/ SendToAllEnd
         \/ \E w \in Workers : \/ Poll(w) \/ CheckFlag(w) \/ CheckActiveClients(w)
                               \/ SwapFails(w) \/ ReadDescriptor(w) \/ SendDone(w)
  PROVE  ChannelInv' /\ OutStep /\ InStep
<1>1. /\ UNCHANGED << sendBuffers, working, inbox, posted, number, toSend, sent, heard, peer, pool >>
      /\ clientsLock' => clientsLock
  <2> USE DEF clientVars, sendVars, callVars, logs
  <2>1. CASE ActiveClientTimerElapsed \/ Tick \/ SendToAllEnd
    BY <2>1 DEF ActiveClientTimerElapsed, Tick, SendToAllEnd
  <2>2. ASSUME NEW w \in Workers, Poll(w) \/ CheckFlag(w) \/ CheckActiveClients(w)
        PROVE  /\ UNCHANGED << sendBuffers, working, inbox, posted, number, toSend, sent, heard, peer, pool >>
               /\ clientsLock' => clientsLock
    BY <2>2 DEF Poll, CheckFlag, CheckActiveClients
  <2>3. ASSUME NEW w \in Workers, SwapFails(w) \/ ReadDescriptor(w) \/ SendDone(w)
        PROVE  /\ UNCHANGED << sendBuffers, working, inbox, posted, number, toSend, sent, heard, peer, pool >>
               /\ clientsLock' => clientsLock
    BY <2>3 DEF SwapFails, ReadDescriptor, SendDone
  <2>4. QED
    BY <2>1, <2>2, <2>3
<1>2. DOMAIN clients' \subseteq DOMAIN clients
  BY DEF ActiveClientTimerElapsed, Tick, SendToAllEnd, Poll, CheckFlag, CheckActiveClients,
         SwapFails, ReadDescriptor, SendDone, clientVars, Restrict
<1>3. DOMAIN clients' \subseteq Known /\ \A w \in Workers : peer'[w] # None => peer'[w] \in Known
  BY <1>1, <1>2 DEF ChannelInv, KnownInv
<1>4. QED
  BY <1>1, <1>3, StillOK

LEMMA ActivityOK ==
  ASSUME IInv, ChannelInv, NEW w \in Workers, Received(w) \/ Sent(w)
  PROVE  ChannelInv' /\ OutStep /\ InStep
<1>1. /\ pc[w] \in {"received", "sent"} /\ UpdateClientActivityTime(peer[w])
      /\ peer' = [peer EXCEPT ![w] = None]
      /\ UNCHANGED << sendBuffers, working, inbox, posted, number, toSend, sent, heard, clientsLock >>
  BY DEF Received, Sent, sendVars, callVars, logs
<1>2. peer[w] \in Known
  <2>1. peer[w] \in Clients
    BY <1>1 DEF IInv, WorkerOK
  <2>2. peer[w] # None
    BY <2>1
  <2>3. QED
    BY <2>2 DEF ChannelInv, KnownInv
<1>3. /\ DOMAIN clients' \subseteq Known /\ pool \subseteq pool'
      /\ ~Several => pool' = pool
  BY <1>1, <1>2, UpdateWithOne
<1>4. \A v \in Workers : peer'[v] # None => peer'[v] \in Known
  BY <1>1 DEF ChannelInv, KnownInv, IInv, TypeOK
<1>5. QED
  BY <1>1, <1>3, <1>4, StillOK

LEMMA Numbered ==
  ASSUME IInv
  PROVE  /\ number \in Nat /\ \A m \in Message : m.to \in Clients /\ m.number \in Nat
         /\ sendBuffers \in Seq(Message) /\ \A w \in Workers : working[w] \in Seq(Message)
         /\ \A c \in Clients : sent[c] \in Seq(1 .. MaxBuffers)
         /\ \A c \in Clients : OnTheWay(c) \subseteq Nat /\ Range(sent[c]) \subseteq Nat
<1>1. number \in 0 .. MaxBuffers /\ MaxBuffers \in Nat
  BY DEF IInv, TypeOK
<1>2. \A m \in Message : m.to \in Clients /\ m.number \in Nat
  BY <1>1 DEF Message
<1>3. sendBuffers \in Seq(Message) /\ \A w \in Workers : working[w] \in Seq(Message)
  BY DEF IInv, TypeOK
<1>4. \A c \in Clients : sent[c] \in Seq(1 .. MaxBuffers)
  BY DEF IInv, TypeOK
<1>5. \A c \in Clients : Range(sent[c]) \subseteq Nat
  BY <1>1, <1>4 DEF Range
<1>6. Range(sendBuffers) \subseteq Message /\ \A w \in Workers : Range(working[w]) \subseteq Message
  BY <1>3 DEF Range
<1>7. \A c \in Clients : OnTheWay(c) \subseteq Nat
  BY <1>2, <1>6 DEF OnTheWay, NumbersTo
<1>8. QED
  BY <1>1, <1>2, <1>3, <1>4, <1>5, <1>7

\* A buffer queued for a client, with a number above those it has, is posted.
LEMMA QueuedOK ==
  ASSUME IInv, ChannelInv, NEW c \in Known, QueueFor(c),
         number' \in 1 .. MaxBuffers, number <= number',
         \A n \in OnTheWay(c) \cup Range(sent[c]) : n < number',
         clientsLock' => \A d \in toSend' : d # c /\ number' \notin OnTheWay(d) \cup Range(sent[d]),
         toSend' \subseteq Known,
         UNCHANGED << clients, working, sent, pool, peer, inbox, posted, heard >>
  PROVE  ChannelInv' /\ OutStep /\ InStep
<1> DEFINE e == [to |-> c, number |-> number']
<1>1. /\ c \in Clients /\ e \in Message /\ e.to = c /\ e.number = number'
      /\ sendBuffers \in Seq(Message) /\ sendBuffers' = Append(sendBuffers, e)
  BY Numbered DEF Known, Message, QueueFor
<1> HIDE DEF e
<1>2. sendBuffers' \in Seq(Message) /\ Range(sendBuffers') = Range(sendBuffers) \cup {e}
  BY <1>1, RangeOfAppend
<1>3. /\ NumbersTo(sendBuffers', c) = NumbersTo(sendBuffers, c) \cup {number'}
      /\ \A d : d # c => NumbersTo(sendBuffers', d) = NumbersTo(sendBuffers, d)
  BY <1>1, <1>2 DEF NumbersTo
<1>4. /\ OnTheWay(c)' = OnTheWay(c) \cup {number'}
      /\ \A d \in Clients : d # c => OnTheWay(d)' = OnTheWay(d)
  BY <1>3 DEF OnTheWay
<1>5. OutStep
  <2>1. OutPending' = [OutPending EXCEPT ![c] = OutPending[c] \cup {number'}]
    BY <1>1, <1>4 DEF OutPending
  <2>2. ToClients!Post(c, number')
    BY <1>1, <2>1 DEF ToClients!Post, ToClients!Range, OutPending, Range
  <2>3. QED
    BY <1>1, <2>2 DEF OutStep, ToClients!Next
<1>6. InStep
  BY DEF InStep, InPending, Passed
<1>7. \A w \in Workers : \A m \in Range(working[w]) : m.number \in Nat
  BY Numbered DEF Range
<1>8. \A m \in Range(sendBuffers) : m.number \in Nat
  BY Numbered DEF Range
<1>9. OutInv'
  <2>1. \A m \in Range(sendBuffers') : m.number <= number'
    BY <1>1, <1>2, <1>8, Numbered DEF ChannelInv, OutInv
  <2>2. \A w \in Workers : \A m \in Range(working'[w]) : m.number <= number'
    BY <1>7, Numbered DEF ChannelInv, OutInv
  <2>3. \A d \in Clients : \A n \in Range(sent'[d]) : n <= number'
    <3>1. \A d \in Clients : \A n \in Range(sent[d]) : n \in Nat /\ n <= number
      BY Numbered DEF ChannelInv, OutInv
    <3>2. number \in Nat /\ number' \in Nat /\ sent' = sent
      BY Numbered
    <3>3. \A n \in Nat : n <= number => n <= number'
      BY <3>2
    <3>4. QED
      BY <3>1, <3>2, <3>3, Zenon
  <2>4. InOrder(sendBuffers', "to")
    <3>1. \A m \in Range(sendBuffers) : m["to"] = e["to"] => m.number < e.number
      <4>1. \A m \in Range(sendBuffers) : m.to = c => m.number \in OnTheWay(c)
        BY DEF OnTheWay, NumbersTo
      <4>2. QED
        BY <1>1, <4>1
    <3>2. InOrder(sendBuffers, "to")
      BY DEF ChannelInv, OutInv
    <3>3. QED
      BY <1>1, <3>1, <3>2, OrderOfAppend
  <2>5. \A w \in Workers : \A m \in Range(working'[w]), x \in Range(sendBuffers') :
          m.to = x.to => m.number < x.number
    <3>1. ASSUME NEW w \in Workers, NEW m \in Range(working[w]), m.to = c PROVE m.number < number'
      <4>1. m.number \in OnTheWay(c)
        BY <3>1 DEF OnTheWay, NumbersTo
      <4>2. QED
        BY <4>1
    <3>2. QED
      BY <1>1, <1>2, <3>1 DEF ChannelInv, OutInv
  <2>6. clientsLock' => \A d \in toSend' : number' \notin OnTheWay(d)' \cup Range(sent'[d])
    BY <1>4 DEF Known
  <2>7. QED
    BY <2>1, <2>2, <2>3, <2>4, <2>5, <2>6 DEF ChannelInv, OutInv
<1>10. InInv'
  BY DEF ChannelInv, InInv
<1>11. Known' = Known
  <2>1. \A d \in Clients : d \in Known' <=> d \in Known
    BY <1>1, <1>4 DEF Known
  <2>2. QED
    BY <2>1 DEF Known
<1>12. KnownInv'
  <2>1. Several' <=> Several
    BY <1>11, SeveralKnown DEF Several, Known
  <2>2. QED
    BY <1>11, <2>1 DEF ChannelInv, KnownInv
<1>13. QED
  BY <1>5, <1>6, <1>9, <1>10, <1>12 DEF ChannelInv

LEMMA UpToNumber ==
  ASSUME IInv, ChannelInv, NEW c \in Clients
  PROVE  \A n \in OnTheWay(c) \cup Range(sent[c]) : n \in Nat /\ n <= number
<1>1. \A n \in OnTheWay(c) \cup Range(sent[c]) : n \in Nat
  BY Numbered
<1>2. \A n \in Range(sent[c]) : n <= number
  BY DEF ChannelInv, OutInv
<1>3. \A n \in OnTheWay(c) : n <= number
  BY DEF ChannelInv, OutInv, OnTheWay, NumbersTo
<1>4. QED
  BY <1>1, <1>2, <1>3

LEMMA SendBufferChannel ==
  ASSUME IInv, ChannelInv, NEW c \in Clients, SendBuffer(c)
  PROVE  ChannelInv' /\ OutStep /\ InStep
<1>1. /\ heard[c] # << >> /\ ~clientsLock' /\ number' = number + 1 /\ QueueFor(c)
      /\ number' \in 1 .. MaxBuffers /\ number \in Nat
      /\ UNCHANGED << clients, working, sent, pool, peer, inbox, posted, heard, toSend >>
  BY DEF SendBuffer, clientVars, logs, MaySend, IInv, TypeOK
<1>2. c \in Known
  <2>1. heard[c] \in Seq(Nat \ {0}) /\ posted[c] \in Nat
    BY DEF IInv, TypeOK
  <2>2. heard[c][1] \in Range(heard[c]) /\ heard[c][1] \in Nat \ {0}
    BY <1>1, <2>1 DEF Range
  <2>3. heard[c][1] <= posted[c]
    BY <2>2 DEF ChannelInv, InInv
  <2>4. posted[c] > 0
    BY <2>1, <2>2, <2>3
  <2>5. QED
    BY <2>4 DEF Known
<1>3. number <= number' /\ \A n \in OnTheWay(c) \cup Range(sent[c]) : n < number'
  BY <1>1, UpToNumber
<1>4. toSend' \subseteq Known
  BY <1>1 DEF ChannelInv, KnownInv
<1>5. QED
  BY <1>1, <1>2, <1>3, <1>4, QueuedOK

LEMMA SendToAllNextChannel ==
  ASSUME IInv, ChannelInv, NEW c \in Clients, SendToAllNext(c)
  PROVE  ChannelInv' /\ OutStep /\ InStep
<1>1. /\ clientsLock /\ c \in toSend /\ toSend' = toSend \ {c} /\ number' = number /\ QueueFor(c)
      /\ UNCHANGED << clients, clientsLock, working, sent, pool, peer, inbox, posted, heard >>
  BY DEF SendToAllNext, clientVars, logs
<1>2. number' \in 1 .. MaxBuffers /\ number \in Nat
  BY <1>1 DEF IInv, TypeOK, CallOK
<1>3. \A d \in toSend : number \notin OnTheWay(d) \cup Range(sent[d])
  BY <1>1 DEF ChannelInv, OutInv
<1>4. number <= number' /\ \A n \in OnTheWay(c) \cup Range(sent[c]) : n < number'
  BY <1>1, <1>2, <1>3, UpToNumber
<1>5. c \in Known /\ toSend' \subseteq Known
  BY <1>1 DEF ChannelInv, KnownInv
<1>6. QED
  BY <1>1, <1>2, <1>3, <1>4, <1>5, QueuedOK

LEMMA SendToAllBeginChannel ==
  ASSUME IInv, ChannelInv, SendToAllBegin
  PROVE  ChannelInv' /\ OutStep /\ InStep
<1>1. /\ number' = number + 1 /\ toSend' = DOMAIN clients /\ number \in Nat
      /\ UNCHANGED << clients, sendBuffers, working, sent, pool, peer, inbox, posted, heard >>
  BY DEF SendToAllBegin, sendVars, logs, IInv, TypeOK
<1>2. \A c : OnTheWay(c)' = OnTheWay(c) /\ Passed(c)' = Passed(c)
  BY <1>1 DEF OnTheWay, NumbersTo, Passed
<1>3. Known' = Known /\ (Several' <=> Several)
  BY <1>1, <1>2 DEF Known, Several
<1>4. OutStep /\ InStep
  BY <1>1, <1>2 DEF OutStep, InStep, OutPending, InPending
<1>5. OutInv'
  <2>1. /\ \A m \in Range(sendBuffers) : m.number \in Nat
        /\ \A w \in Workers : \A m \in Range(working[w]) : m.number \in Nat
    BY Numbered DEF Range
  <2>2. \A c \in Clients : \A n \in OnTheWay(c) \cup Range(sent[c]) : n \in Nat /\ n <= number
    BY UpToNumber
  <2>3. \A n \in Nat : n <= number => n <= number' /\ n # number'
    BY <1>1
  <2>4. \A m \in Range(sendBuffers') : m.number <= number'
    BY <1>1, <2>1, <2>3 DEF ChannelInv, OutInv
  <2>5. \A w \in Workers : \A m \in Range(working'[w]) : m.number <= number'
    BY <1>1, <2>1, <2>3 DEF ChannelInv, OutInv
  <2>6. \A c \in Clients : \A n \in Range(sent'[c]) : n <= number'
    BY <1>1, <2>2, <2>3
  <2>7. \A c \in toSend' : number' \notin OnTheWay(c)' \cup Range(sent'[c])
    <3>1. toSend' \subseteq Clients
      BY <1>1 DEF IInv, TypeOK
    <3>2. QED
      BY <1>1, <1>2, <2>2, <2>3, <3>1
  <2>8. QED
    BY <1>1, <2>4, <2>5, <2>6, <2>7 DEF ChannelInv, OutInv
<1>6. InInv'
  BY <1>1 DEF ChannelInv, InInv
<1>7. KnownInv'
  BY <1>1, <1>3 DEF ChannelInv, KnownInv
<1>8. QED
  BY <1>4, <1>5, <1>6, <1>7 DEF ChannelInv

LEMMA SwapChannel ==
  ASSUME IInv, ChannelInv, NEW w \in pool, SwapSendBuffers(w)
  PROVE  ChannelInv' /\ OutStep /\ InStep
<1>1. /\ w \in Workers /\ pc[w] = "swap"
      /\ working' = [working EXCEPT ![w] = sendBuffers] /\ sendBuffers' = << >>
      /\ UNCHANGED << clients, clientsLock, pool, peer, inbox, number, toSend, posted, sent, heard >>
  BY DEF SwapSendBuffers, clientVars, callVars, logs, IInv, TypeOK
<1>2. working[w] = << >> /\ working \in [Workers -> Seq(Message)]
  BY <1>1 DEF IInv, WorkerOK, TypeOK
<1>3. /\ working'[w] = sendBuffers
      /\ \A v \in Workers : v # w => working'[v] = working[v]
  BY <1>1, <1>2
<1>4. Range(<< >>) = {} /\ InOrder(<< >>, "to")
  BY DEF Range, InOrder
<1>5. \A c : OnTheWay(c)' = OnTheWay(c) /\ Passed(c)' = Passed(c)
  <2>1. \A c : NumbersTo(<< >>, c) = {}
    BY <1>4 DEF NumbersTo
  <2>2. \A c : UNION {NumbersTo(working'[v], c) : v \in Workers} =
               NumbersTo(sendBuffers, c) \cup UNION {NumbersTo(working[v], c) : v \in Workers}
    <3>1. ASSUME NEW c, NEW v \in Workers
          PROVE  NumbersTo(working'[v], c) \subseteq
                   NumbersTo(sendBuffers, c) \cup UNION {NumbersTo(working[u], c) : u \in Workers}
      BY <1>3
    <3>2. ASSUME NEW c, NEW v \in Workers
          PROVE  NumbersTo(working[v], c) \subseteq UNION {NumbersTo(working'[u], c) : u \in Workers}
      BY <1>2, <1>3, <2>1
    <3>3. ASSUME NEW c
          PROVE  NumbersTo(sendBuffers, c) \subseteq UNION {NumbersTo(working'[u], c) : u \in Workers}
      BY <1>1, <1>3
    <3>4. ASSUME NEW c
          PROVE  UNION {NumbersTo(working'[v], c) : v \in Workers} \subseteq
                   NumbersTo(sendBuffers, c) \cup UNION {NumbersTo(working[u], c) : u \in Workers}
      BY <3>1
    <3>5. ASSUME NEW c
          PROVE  UNION {NumbersTo(working[v], c) : v \in Workers} \subseteq
                   UNION {NumbersTo(working'[u], c) : u \in Workers}
      BY <3>2
    <3>6. QED
      BY <3>3, <3>4, <3>5
  <2>3. \A c : OnTheWay(c)' = UNION {NumbersTo(working'[v], c) : v \in Workers}
    BY <1>1, <2>1 DEF OnTheWay
  <2>4. QED
    BY <1>1, <2>2, <2>3 DEF OnTheWay, Passed
<1>6. Known' = Known /\ (Several' <=> Several)
  BY <1>1, <1>5 DEF Known, Several
<1>7. OutStep /\ InStep
  BY <1>1, <1>5 DEF OutStep, InStep, OutPending, InPending
<1>8. OutInv'
  <2>1. \A v \in Workers : \A m \in Range(working'[v]) : m.number <= number'
    BY <1>1, <1>3 DEF ChannelInv, OutInv
  <2>2. \A v \in Workers : InOrder(working'[v], "to")
    BY <1>3 DEF ChannelInv, OutInv
  <2>3. \A m \in Range(sendBuffers) : m.to \in Clients /\ m.number \in Nat
    BY Numbered DEF Range
  <2>4. \A u \in Workers : u # w => Range(working[u]) \cap Range(sendBuffers) = {}
    <3>1. ASSUME NEW u \in Workers, NEW m \in Range(working[u]), m \in Range(sendBuffers) PROVE FALSE
      <4>1. m.number < m.number
        BY <3>1 DEF ChannelInv, OutInv
      <4>2. QED
        BY <2>3, <3>1, <4>1
    <3>2. QED
      BY <3>1
  <2>5. \A u, v \in Workers : u # v => Range(working'[u]) \cap Range(working'[v]) = {}
    BY <1>3, <2>4 DEF ChannelInv, OutInv
  <2>6. clientsLock' => \A c \in toSend' : number' \notin OnTheWay(c)' \cup Range(sent'[c])
    BY <1>1, <1>5 DEF ChannelInv, OutInv
  <2>7. QED
    BY <1>1, <1>4, <2>1, <2>2, <2>5, <2>6 DEF ChannelInv, OutInv
<1>9. InInv'
  BY <1>1 DEF ChannelInv, InInv
<1>10. KnownInv'
  BY <1>1, <1>3, <1>6 DEF ChannelInv, KnownInv
<1>11. QED
  BY <1>7, <1>8, <1>9, <1>10 DEF ChannelInv

\* The head of a worker's buffers is the one message with that number for its client.
LEMMA HeadIsOne ==
  ASSUME IInv, ChannelInv, NEW w \in Workers, working[w] # << >>,
         NEW m \in Message, m.to = Head(working[w]).to, m.number = Head(working[w]).number
  PROVE  /\ m \notin Range(sendBuffers) /\ m \notin Range(Tail(working[w]))
         /\ \A v \in Workers : v # w => m \notin Range(working[v])
<1> DEFINE h == Head(working[w])
<1>1. /\ working[w] \in Seq(Message) /\ \A x \in Message : x.number \in Nat
      /\ InOrder(working[w], "to")
  BY Numbered DEF ChannelInv, OutInv
<1>2. h \notin Range(Tail(working[w])) /\ h \in Range(working[w])
  BY <1>1, OrderOfTail
<1>3. h \in Message
  BY <1>1, HeadTailProperties
<1> HIDE DEF h
<1>4. m = h
  BY <1>3 DEF Message, h
<1>5. m \notin Range(sendBuffers)
  <2>1. m \in Range(sendBuffers) => m.number < m.number
    BY <1>2, <1>4 DEF ChannelInv, OutInv
  <2>2. QED
    BY <1>1, <2>1
<1>6. QED
  BY <1>2, <1>4, <1>5 DEF ChannelInv, OutInv

LEMMA SendNextChannel ==
  ASSUME IInv, ChannelInv, NEW w \in pool, SendNext(w)
  PROVE  ChannelInv' /\ OutStep /\ InStep
<1> DEFINE h == Head(working[w])
<1>0. PICK c, n : c = h.to /\ n = h.number
  OBVIOUS
<1>1. /\ w \in Workers /\ working[w] # << >> /\ peer' = [peer EXCEPT ![w] = c]
      /\ sent' = [sent EXCEPT ![c] = Append(sent[c], n)]
      /\ working' = [working EXCEPT ![w] = Tail(working[w])]
      /\ UNCHANGED << clients, clientsLock, pool, sendBuffers, inbox, number, toSend, posted, heard >>
  BY <1>0 DEF SendNext, clientVars, sendVars, callVars, IInv, TypeOK
<1>2. /\ working[w] \in Seq(Message) /\ \A x \in Message : x.number \in Nat
      /\ InOrder(working[w], "to") /\ working \in [Workers -> Seq(Message)]
  BY <1>1, Numbered DEF ChannelInv, OutInv, IInv, TypeOK
<1>3. h \in Message
  BY <1>1, <1>2, HeadTailProperties
<1>4. c \in Clients /\ n \in 1 .. MaxBuffers /\ n \in Nat
  BY <1>0, <1>2, <1>3 DEF Message
<1>5. /\ InOrder(Tail(working[w]), "to")
      /\ \A m \in Range(Tail(working[w])) : m.to = c => n < m.number
      /\ Range(working[w]) = {h} \cup Range(Tail(working[w]))
  <2>1. /\ InOrder(Tail(working[w]), "to")
        /\ \A m \in Range(Tail(working[w])) : m["to"] = h["to"] => h.number < m.number
        /\ Range(working[w]) = {h} \cup Range(Tail(working[w]))
    BY <1>1, <1>2, OrderOfTail
  <2>2. QED
    BY <1>0, <2>1
<1>6. /\ working'[w] = Tail(working[w])
      /\ \A v \in Workers : v # w => working'[v] = working[v]
      /\ \A v \in Workers : Range(working'[v]) \subseteq Range(working[v])
  BY <1>1, <1>2, <1>5
<1>7. \A m \in Message : m.to = c /\ m.number = n =>
        /\ m \notin Range(sendBuffers) /\ m \notin Range(Tail(working[w]))
        /\ \A v \in Workers : v # w => m \notin Range(working[v])
  BY <1>0, <1>1, HeadIsOne
<1>8. Range(sendBuffers) \subseteq Message /\ \A v \in Workers : Range(working[v]) \subseteq Message
  BY Numbered DEF Range
<1> HIDE DEF h
<1>9. /\ \A d \in Clients : d # c => OnTheWay(d)' = OnTheWay(d)
      /\ OnTheWay(c)' = OnTheWay(c) \ {n}
      /\ n \in OnTheWay(c)
  <2>1. ASSUME NEW d \in Clients, NEW v \in Workers
        PROVE  NumbersTo(working'[v], d) \subseteq NumbersTo(working[v], d)
    BY <1>6 DEF NumbersTo
  <2>2. ASSUME NEW d \in Clients, NEW v \in Workers, NEW k \in NumbersTo(working[v], d), ~(d = c /\ k = n)
        PROVE  k \in NumbersTo(working'[v], d)
    BY <1>0, <1>5, <1>6, <2>2 DEF NumbersTo
  <2>3. \A v \in Workers : n \notin NumbersTo(working'[v], c)
    BY <1>6, <1>7, <1>8 DEF NumbersTo
  <2>4. n \notin NumbersTo(sendBuffers, c)
    BY <1>7, <1>8 DEF NumbersTo
  <2>5. n \in NumbersTo(working[w], c)
    BY <1>0, <1>5 DEF NumbersTo
  <2>6. \A d : OnTheWay(d)' = NumbersTo(sendBuffers, d) \cup UNION {NumbersTo(working'[v], d) : v \in Workers}
    BY <1>1 DEF OnTheWay
  <2>7. \A d : OnTheWay(d) = NumbersTo(sendBuffers, d) \cup UNION {NumbersTo(working[v], d) : v \in Workers}
    BY DEF OnTheWay
  <2>8. \A d \in Clients : OnTheWay(d)' \subseteq OnTheWay(d)
    BY <2>1, <2>6, <2>7
  <2>9. n \notin OnTheWay(c)'
    BY <2>3, <2>4, <2>6
  <2>10. n \in OnTheWay(c)
    BY <1>1, <2>5, <2>7
  <2>11. ASSUME NEW d \in Clients, NEW k \in OnTheWay(d), ~(d = c /\ k = n) PROVE k \in OnTheWay(d)'
    <3>1. CASE k \in NumbersTo(sendBuffers, d)
      BY <2>6, <3>1
    <3>2. CASE \E v \in Workers : k \in NumbersTo(working[v], d)
      BY <2>2, <2>6, <2>11, <3>2
    <3>3. QED
      BY <2>7, <3>1, <3>2
  <2>12. QED
    BY <1>4, <2>8, <2>9, <2>10, <2>11
<1>10. /\ \A d \in Clients : d # c => sent'[d] = sent[d]
       /\ sent'[c] # << >> /\ Range(sent'[c]) = Range(sent[c]) \cup {n}
  <2>1. sent[c] \in Seq(1 .. MaxBuffers) /\ sent \in [Clients -> Seq(1 .. MaxBuffers)]
    BY <1>4 DEF IInv, TypeOK
  <2>2. sent'[c] = Append(sent[c], n) /\ \A d \in Clients : d # c => sent'[d] = sent[d]
    BY <1>1, <1>4, <2>1
  <2>3. Range(Append(sent[c], n)) = Range(sent[c]) \cup {n}
    BY <1>4, <2>1, RangeOfAppend
  <2>4. Append(sent[c], n) # << >>
    BY <1>4, <2>1
  <2>5. QED
    BY <2>2, <2>3, <2>4
<1>11. ~Several => \A m \in OnTheWay(c) : n <= m
  <2>1. SUFFICES ASSUME ~Several, NEW m \in OnTheWay(c) PROVE n <= m
    OBVIOUS
  <2>2. pool = {FirstWorker} /\ \A v \in Workers : v # w => Range(working[v]) = {}
    BY <2>1, <1>1 DEF ChannelInv, KnownInv, Range
  <2>3. CASE m \in NumbersTo(sendBuffers, c)
    <3>1. n < m
      BY <1>0, <1>1, <1>5, <2>3 DEF ChannelInv, OutInv, NumbersTo
    <3>2. QED
      BY <1>4, <3>1, Numbered, <2>1
  <2>4. CASE m \in NumbersTo(working[w], c)
    <3>1. m = n \/ n < m
      BY <1>0, <1>5, <2>4 DEF NumbersTo
    <3>2. QED
      BY <1>4, <3>1, Numbered, <2>1
  <2>5. QED
    BY <2>1, <2>2, <2>3, <2>4 DEF OnTheWay, NumbersTo
<1>12. OutStep
  <2>1. OutPending' = [OutPending EXCEPT ![c] = OutPending[c] \ {n}]
    BY <1>4, <1>9 DEF OutPending
  <2>2. ToClients!Arrive(c, n)
    BY <1>1, <1>4, <1>9, <1>11, <2>1 DEF ToClients!Arrive, OutPending
  <2>3. QED
    BY <1>4, <2>2 DEF OutStep, ToClients!Next
<1>13. InStep
  BY <1>1 DEF InStep, InPending, Passed
<1>14. OutInv'
  <2>1. n <= number
    BY <1>4, <1>9, UpToNumber
  <2>2. \A d \in Clients : \A k \in Range(sent'[d]) : k <= number'
    BY <1>1, <1>10, <2>1 DEF ChannelInv, OutInv
  <2>3. \A v \in Workers : \A m \in Range(working'[v]) : m.number <= number'
    BY <1>1, <1>6 DEF ChannelInv, OutInv
  <2>4. \A v \in Workers : InOrder(working'[v], "to")
    BY <1>5, <1>6 DEF ChannelInv, OutInv
  <2>5. \A v \in Workers : \A m \in Range(working'[v]), x \in Range(sendBuffers') :
          m.to = x.to => m.number < x.number
    BY <1>1, <1>6 DEF ChannelInv, OutInv
  <2>6. \A u, v \in Workers : u # v => Range(working'[u]) \cap Range(working'[v]) = {}
    BY <1>6 DEF ChannelInv, OutInv
  <2>7. \A d \in Clients : OnTheWay(d)' \cup Range(sent'[d]) \subseteq OnTheWay(d) \cup Range(sent[d])
    BY <1>9, <1>10
  <2>8. clientsLock' => \A d \in toSend' : number' \notin OnTheWay(d)' \cup Range(sent'[d])
    BY <1>1, <2>7 DEF ChannelInv, OutInv, IInv, TypeOK
  <2>9. \A m \in Range(sendBuffers') : m.number <= number'
    BY <1>1 DEF ChannelInv, OutInv
  <2>10. InOrder(sendBuffers', "to")
    BY <1>1 DEF ChannelInv, OutInv
  <2>11. QED
    BY <2>2, <2>3, <2>4, <2>5, <2>6, <2>8, <2>9, <2>10 DEF OutInv
<1>15. InInv'
  BY <1>1 DEF ChannelInv, InInv
<1>16. Known \subseteq Known' /\ c \in Known'
  <2>1. \A d \in Clients : d # c => OnTheWay(d)' = OnTheWay(d) /\ sent'[d] = sent[d]
    BY <1>9, <1>10
  <2>2. c \in Known'
    BY <1>4, <1>10 DEF Known
  <2>3. \A d \in Known : d # c => d \in Known'
    BY <1>1, <2>1 DEF Known
  <2>4. QED
    BY <2>2, <2>3
<1>17. KnownInv'
  <2>1. ~Several' => pool' = {FirstWorker}
    BY <1>1, <1>16, OneClient DEF ChannelInv, KnownInv
  <2>2. \A v \in Workers : peer'[v] # None => peer'[v] \in Known'
    BY <1>1, <1>16 DEF ChannelInv, KnownInv, IInv, TypeOK
  <2>3. \A v \in Workers \ pool' : working'[v] = << >> /\ inbox'[v] = << >>
    BY <1>1, <1>6 DEF ChannelInv, KnownInv
  <2>4. DOMAIN clients' \subseteq Known' /\ toSend' \subseteq Known'
    BY <1>1, <1>16 DEF ChannelInv, KnownInv
  <2>5. QED
    BY <2>1, <2>2, <2>3, <2>4 DEF KnownInv
<1>18. QED
  BY <1>12, <1>13, <1>14, <1>15, <1>17 DEF ChannelInv

\* The same for the messages of the clients.
LEMMA NumberedIn ==
  ASSUME IInv
  PROVE  /\ \A m \in Arrival : m.from \in Clients /\ m.number \in Nat \ {0}
         /\ inbox \in [Workers -> Seq(Arrival)] /\ posted \in [Clients -> Nat]
         /\ \A w \in Workers : Range(inbox[w]) \subseteq Arrival
         /\ heard \in [Clients -> Seq(Nat \ {0})]
         /\ \A c \in Clients : Range(heard[c]) \subseteq Nat
<1>1. /\ inbox \in [Workers -> Seq(Arrival)] /\ posted \in [Clients -> Nat]
      /\ heard \in [Clients -> Seq(Nat \ {0})]
  BY DEF IInv, TypeOK
<1>2. \A m \in Arrival : m.from \in Clients /\ m.number \in Nat \ {0}
  BY DEF Arrival
<1>3. \A w \in Workers : Range(inbox[w]) \subseteq Arrival
  BY <1>1 DEF Range
<1>4. \A c \in Clients : Range(heard[c]) \subseteq Nat
  BY <1>1 DEF Range
<1>5. QED
  BY <1>1, <1>2, <1>3, <1>4

LEMMA UpToPosted ==
  ASSUME IInv, ChannelInv, NEW c \in Clients
  PROVE  \A n \in Passed(c) \cup Range(heard[c]) : n \in Nat /\ n <= posted[c]
<1>1. \A n \in Range(heard[c]) : n \in Nat /\ n <= posted[c]
  BY NumberedIn DEF ChannelInv, InInv
<1>2. ASSUME NEW n \in Passed(c) PROVE n \in Nat /\ n <= posted[c]
  <2>1. PICK v \in Workers : \E m \in Range(inbox[v]) : m.from = c /\ m.number = n
    BY DEF Passed
  <2>2. n \in Nat
    BY <2>1, NumberedIn DEF Arrival
  <2>3. QED
    BY <2>1, <2>2 DEF ChannelInv, InInv
<1>3. QED
  BY <1>1, <1>2

LEMMA ClientSendsChannel ==
  ASSUME IInv, ChannelInv, NEW c \in Clients, NEW w \in Workers, ClientSends(c, w)
  PROVE  ChannelInv' /\ OutStep /\ InStep
<1>0. PICK n : n = posted[c] + 1
  OBVIOUS
<1> DEFINE e == [from |-> c, number |-> n]
<1>1. /\ w \in pool /\ posted[c] < MaxMessages[c] /\ posted' = [posted EXCEPT ![c] = n]
      /\ inbox' = [inbox EXCEPT ![w] = Append(inbox[w], e)]
      /\ UNCHANGED << clients, clientsLock, pool, peer, sendBuffers, working, number, toSend,
                      sent, heard >>
  <2>1. posted'[c] = n
    BY <1>0 DEF ClientSends, IInv, TypeOK
  <2>2. QED
    BY <1>0, <2>1 DEF ClientSends, clientVars, sendVars, callVars
<1>2. /\ posted[c] \in Nat /\ n \in Nat \ {0} /\ n \in 1 .. MaxMessages[c] /\ posted[c] < n
      /\ posted \in [Clients -> Nat] /\ inbox \in [Workers -> Seq(Arrival)]
  <2>1. posted \in [Clients -> Nat] /\ inbox \in [Workers -> Seq(Arrival)]
    BY NumberedIn
  <2>2. MaxMessages[c] \in Nat /\ posted[c] \in Nat
    BY <2>1, ServerAssumption
  <2>3. QED
    BY <1>0, <1>1, <2>1, <2>2
<1>3. /\ posted'[c] = n /\ \A d \in Clients : d # c => posted'[d] = posted[d]
      /\ \A d \in Clients : posted[d] <= posted'[d]
  BY <1>1, <1>2
<1>4. e \in Arrival /\ e.from = c /\ e.number = n
  BY <1>2 DEF Arrival
<1> HIDE DEF e
<1>5. /\ inbox'[w] = Append(inbox[w], e) /\ Range(inbox'[w]) = Range(inbox[w]) \cup {e}
      /\ \A v \in Workers : v # w => inbox'[v] = inbox[v]
  <2>1. /\ inbox'[w] = Append(inbox[w], e) /\ inbox[w] \in Seq(Arrival)
        /\ \A v \in Workers : v # w => inbox'[v] = inbox[v]
    BY <1>1, <1>2
  <2>2. Range(Append(inbox[w], e)) = Range(inbox[w]) \cup {e}
    BY <1>4, <2>1, RangeOfAppend
  <2>3. QED
    BY <2>1, <2>2
<1>6. UNION {Range(inbox'[v]) : v \in Workers} = {e} \cup UNION {Range(inbox[v]) : v \in Workers}
  <2>1. \A v \in Workers : Range(inbox'[v]) \subseteq {e} \cup UNION {Range(inbox[u]) : u \in Workers}
    BY <1>5
  <2>2. \A v \in Workers : Range(inbox[v]) \subseteq Range(inbox'[v])
    BY <1>5
  <2>3. e \in Range(inbox'[w])
    BY <1>5
  <2>4. UNION {Range(inbox'[v]) : v \in Workers} \subseteq {e} \cup UNION {Range(inbox[v]) : v \in Workers}
    BY <2>1
  <2>5. {e} \cup UNION {Range(inbox[v]) : v \in Workers} \subseteq UNION {Range(inbox'[v]) : v \in Workers}
    BY <2>2, <2>3
  <2>6. QED
    BY <2>4, <2>5
<1>7. Passed(c)' = Passed(c) \cup {n} /\ \A d : d # c => Passed(d)' = Passed(d)
  BY <1>4, <1>6 DEF Passed
<1>8. InStep
  <2>1. InPending' = [InPending EXCEPT ![c] = InPending[c] \cup {n}]
    BY <1>7 DEF InPending
  <2>2. \A m \in Passed(c) \cup Range(heard[c]) : m < n
    <3>1. \A m \in Nat : m <= posted[c] => m < n
      BY <1>2
    <3>2. QED
      BY <3>1, UpToPosted
  <2>3. FromClients!Post(c, n)
    BY <1>1, <2>1, <2>2 DEF FromClients!Post, FromClients!Range, InPending, Range
  <2>4. n \in UNION {1 .. MaxMessages[d] : d \in Clients}
    BY <1>2
  <2>5. QED
    BY <2>3, <2>4 DEF InStep, FromClients!Next
<1>9. \A d : OnTheWay(d)' = OnTheWay(d)
  BY <1>1 DEF OnTheWay, NumbersTo
<1>10. OutStep
  BY <1>1, <1>9 DEF OutStep, OutPending
<1>11. OutInv'
  BY <1>1, <1>9 DEF ChannelInv, OutInv
<1>12. InInv'
  <2>1. \A v \in Workers : \A m \in Range(inbox[v]) : m.from \in Clients /\ m.number \in Nat
    BY NumberedIn
  <2>2. \A d \in Clients : \A k \in Nat : k <= posted[d] => k <= posted'[d]
    <3>1. \A k \in Nat : k <= posted[c] => k <= n
      BY <1>2
    <3>2. QED
      BY <1>3, <3>1
  <2>3. \A v \in Workers : \A m \in Range(inbox[v]) : m.number <= posted'[m.from]
    BY <2>1, <2>2 DEF ChannelInv, InInv
  <2>4. \A v \in Workers : \A m \in Range(inbox'[v]) : m.number <= posted'[m.from]
    <3>1. n <= n
      BY <1>2
    <3>2. QED
      BY <1>3, <1>4, <1>5, <2>3, <3>1
  <2>5. \A d \in Clients : \A k \in Range(heard'[d]) : k <= posted'[d]
    BY <1>1, <2>2, UpToPosted
  <2>6. \A v \in Workers : InOrder(inbox'[v], "from")
    <3>1. \A m \in Range(inbox[w]) : m["from"] = e["from"] => m.number < e.number
      <4>1. \A m \in Range(inbox[w]) : m.from = c => m.number \in Nat /\ m.number <= posted[c]
        BY <2>1 DEF ChannelInv, InInv
      <4>2. \A k \in Nat : k <= posted[c] => k < n
        BY <1>2
      <4>3. QED
        BY <1>4, <4>1, <4>2
    <3>2. inbox[w] \in Seq(Arrival) /\ InOrder(inbox[w], "from")
      BY <1>2 DEF ChannelInv, InInv
    <3>3. InOrder(Append(inbox[w], e), "from")
      BY <1>4, <3>1, <3>2, OrderOfAppend
    <3>4. QED
      BY <1>5, <3>3 DEF ChannelInv, InInv
  <2>7. \A v \in Workers : e \notin Range(inbox[v])
    <3>1. ~ n <= posted[c]
      BY <1>2
    <3>2. QED
      BY <1>4, <3>1 DEF ChannelInv, InInv
  <2>8. \A u, v \in Workers : u # v => Range(inbox'[u]) \cap Range(inbox'[v]) = {}
    <3>1. \A v \in Workers : v # w => Range(inbox'[v]) = Range(inbox[v])
      BY <1>5
    <3>2. \A v \in Workers : v # w => Range(inbox'[w]) \cap Range(inbox'[v]) = {}
      BY <1>5, <2>7, <3>1 DEF ChannelInv, InInv
    <3>3. QED
      BY <3>1, <3>2 DEF ChannelInv, InInv
  <2>9. \A d \in Clients : posted'[d] <= MaxMessages[d]
    <3>1. n <= MaxMessages[c]
      BY <1>2, ServerAssumption
    <3>2. QED
      BY <1>3, <3>1 DEF ChannelInv, InInv
  <2>10. QED
    BY <2>4, <2>5, <2>6, <2>8, <2>9 DEF InInv
<1>13. Known \subseteq Known'
  <2>1. \A d \in Clients : posted[d] > 0 => posted'[d] > 0
    <3>1. n > 0
      BY <1>2
    <3>2. QED
      BY <1>3, <3>1
  <2>2. QED
    BY <1>1, <1>9, <2>1 DEF Known
<1>14. KnownInv'
  <2>1. ~Several' => pool' = {FirstWorker}
    BY <1>1, <1>13, OneClient DEF ChannelInv, KnownInv
  <2>2. \A v \in Workers : peer'[v] # None => peer'[v] \in Known'
    BY <1>1, <1>13 DEF ChannelInv, KnownInv
  <2>3. \A v \in Workers \ pool' : working'[v] = << >> /\ inbox'[v] = << >>
    BY <1>1, <1>5 DEF ChannelInv, KnownInv
  <2>4. DOMAIN clients' \subseteq Known' /\ toSend' \subseteq Known'
    BY <1>1, <1>13 DEF ChannelInv, KnownInv
  <2>5. QED
    BY <2>1, <2>2, <2>3, <2>4 DEF KnownInv
<1>15. QED
  BY <1>8, <1>10, <1>11, <1>12, <1>14 DEF ChannelInv

LEMMA ReceiveNextBufferChannel ==
  ASSUME IInv, ChannelInv, NEW w \in Workers, ReceiveNextBuffer(w)
  PROVE  ChannelInv' /\ OutStep /\ InStep
<1> DEFINE h == Head(inbox[w])
<1>0. PICK c, n : c = h.from /\ n = h.number
  OBVIOUS
<1>1. /\ inbox[w] # << >> /\ peer' = [peer EXCEPT ![w] = c]
      /\ heard' = [heard EXCEPT ![c] = Append(heard[c], n)]
      /\ inbox' = [inbox EXCEPT ![w] = Tail(inbox[w])]
      /\ UNCHANGED << clients, clientsLock, pool, sendBuffers, working, number, toSend, posted, sent >>
  BY <1>0 DEF ReceiveNextBuffer, clientVars, sendVars, callVars, IInv, WorkerOK
<1>2. /\ inbox[w] \in Seq(Arrival) /\ \A x \in Arrival : x.number \in Nat
      /\ InOrder(inbox[w], "from") /\ inbox \in [Workers -> Seq(Arrival)]
  BY <1>1, NumberedIn DEF ChannelInv, InInv
<1>3. h \in Arrival
  BY <1>1, <1>2, HeadTailProperties
<1>4. c \in Clients /\ n \in Nat
  BY <1>0, <1>3, NumberedIn
<1>5. /\ InOrder(Tail(inbox[w]), "from") /\ h \notin Range(Tail(inbox[w]))
      /\ \A m \in Range(Tail(inbox[w])) : m.from = c => n < m.number
      /\ Range(inbox[w]) = {h} \cup Range(Tail(inbox[w]))
  <2>1. /\ InOrder(Tail(inbox[w]), "from") /\ h \notin Range(Tail(inbox[w]))
        /\ \A m \in Range(Tail(inbox[w])) : m["from"] = h["from"] => h.number < m.number
        /\ Range(inbox[w]) = {h} \cup Range(Tail(inbox[w]))
    BY <1>1, <1>2, OrderOfTail
  <2>2. QED
    BY <1>0, <2>1
<1>6. /\ inbox'[w] = Tail(inbox[w])
      /\ \A v \in Workers : v # w => inbox'[v] = inbox[v]
      /\ \A v \in Workers : Range(inbox'[v]) \subseteq Range(inbox[v])
  BY <1>1, <1>2, <1>5
<1>7. \A m \in Arrival : m.from = c /\ m.number = n => m = h
  <2>1. h \in Arrival /\ h.from = c /\ h.number = n
    BY <1>0, <1>3
  <2> HIDE DEF h
  <2>2. QED
    BY <2>1 DEF Arrival
<1>8. \A v \in Workers : h \notin Range(inbox'[v]) /\ Range(inbox[v]) \subseteq Arrival
  BY <1>5, <1>6, NumberedIn DEF ChannelInv, InInv
<1> HIDE DEF h
<1>9. /\ \A d \in Clients : d # c => Passed(d)' = Passed(d)
      /\ Passed(c)' = Passed(c) \ {n}
      /\ n \in Passed(c)
  <2>1. \A d \in Clients : Passed(d)' \subseteq Passed(d)
    BY <1>6 DEF Passed
  <2>2. ASSUME NEW d \in Clients, NEW k \in Passed(d), ~(d = c /\ k = n) PROVE k \in Passed(d)'
    <3>1. PICK v \in Workers : \E m \in Range(inbox[v]) : m.from = d /\ m.number = k
      BY DEF Passed
    <3>2. PICK m \in Range(inbox[v]) : m.from = d /\ m.number = k
      BY <3>1
    <3>3. m # h
      BY <1>0, <2>2, <3>2
    <3>4. m \in Range(inbox'[v])
      BY <1>5, <1>6, <3>3
    <3>5. QED
      BY <3>2, <3>4 DEF Passed
  <2>3. n \notin Passed(c)'
    BY <1>6, <1>7, <1>8 DEF Passed
  <2>4. n \in Passed(c)
    <3>1. h \in Range(inbox[w]) /\ h.from = c /\ h.number = n
      BY <1>0, <1>5
    <3>2. QED
      BY <3>1 DEF Passed
  <2>5. QED
    BY <1>4, <2>1, <2>2, <2>3, <2>4
<1>10. /\ \A d \in Clients : d # c => heard'[d] = heard[d]
       /\ Range(heard'[c]) = Range(heard[c]) \cup {n}
  <2>1. heard \in [Clients -> Seq(Nat \ {0})] /\ n \in Nat \ {0}
    BY <1>0, <1>3, NumberedIn
  <2>2. heard'[c] = Append(heard[c], n) /\ \A d \in Clients : d # c => heard'[d] = heard[d]
    BY <1>1, <1>4, <2>1
  <2>3. Range(Append(heard[c], n)) = Range(heard[c]) \cup {n}
    BY <1>4, <2>1, RangeOfAppend
  <2>4. QED
    BY <2>2, <2>3
<1>11. n <= posted[c] /\ n > 0
  <2>1. n <= posted[c]
    BY <1>4, <1>9, UpToPosted
  <2>2. n \in Nat \ {0}
    BY <1>0, <1>3, NumberedIn
  <2>3. QED
    BY <2>1, <2>2
<1>12. InStep
  <2>1. InPending' = [InPending EXCEPT ![c] = InPending[c] \ {n}]
    BY <1>4, <1>9 DEF InPending
  <2>2. ~Several => \A m \in Passed(c) : n <= m
    <3>1. SUFFICES ASSUME ~Several, NEW k \in Passed(c) PROVE n <= k
      OBVIOUS
    <3>2. \A v \in Workers : Range(inbox[v]) # {} => v = FirstWorker
      BY <3>1 DEF ChannelInv, KnownInv, Range
    <3>3. h \in Range(inbox[w])
      BY <1>5
    <3>4. PICK v \in Workers : \E m \in Range(inbox[v]) : m.from = c /\ m.number = k
      BY DEF Passed
    <3>5. v = w
      BY <3>2, <3>3, <3>4
    <3>6. k = n \/ n < k
      BY <1>0, <1>5, <3>4, <3>5
    <3>7. k \in Nat
      BY <1>4, UpToPosted
    <3>8. QED
      BY <1>4, <3>6, <3>7
  <2>3. FromClients!Arrive(c, n)
    BY <1>1, <1>4, <1>9, <2>1, <2>2 DEF FromClients!Arrive, InPending
  <2>4. n \in UNION {1 .. MaxMessages[d] : d \in Clients}
    <3>1. posted[c] <= MaxMessages[c]
      BY <1>4 DEF ChannelInv, InInv
    <3>2. n \in 1 .. MaxMessages[c]
      BY <1>4, <1>11, <3>1, NumberedIn, ServerAssumption
    <3>3. QED
      BY <1>4, <3>2
  <2>5. QED
    BY <1>4, <2>3, <2>4 DEF InStep, FromClients!Next
<1>13. \A d : OnTheWay(d)' = OnTheWay(d)
  BY <1>1 DEF OnTheWay, NumbersTo
<1>14. OutStep
  BY <1>1, <1>13 DEF OutStep, OutPending
<1>15. OutInv'
  BY <1>1, <1>13 DEF ChannelInv, OutInv
<1>16. InInv'
  <2>1. \A v \in Workers : \A m \in Range(inbox'[v]) : m.number <= posted'[m.from]
    BY <1>1, <1>6 DEF ChannelInv, InInv
  <2>2. \A d \in Clients : \A k \in Range(heard'[d]) : k <= posted'[d]
    BY <1>1, <1>10, <1>11 DEF ChannelInv, InInv
  <2>3. \A v \in Workers : InOrder(inbox'[v], "from")
    BY <1>5, <1>6 DEF ChannelInv, InInv
  <2>4. \A u, v \in Workers : u # v => Range(inbox'[u]) \cap Range(inbox'[v]) = {}
    BY <1>6 DEF ChannelInv, InInv
  <2>5. \A d \in Clients : posted'[d] <= MaxMessages[d]
    BY <1>1 DEF ChannelInv, InInv
  <2>6. QED
    BY <2>1, <2>2, <2>3, <2>4, <2>5 DEF InInv
<1>17. Known' = Known /\ c \in Known /\ (Several' <=> Several)
  <2>1. posted[c] > 0
    BY <1>4, <1>11, NumberedIn
  <2>2. c \in Known
    BY <1>4, <2>1 DEF Known
  <2>3. Known' = Known
    BY <1>1, <1>13 DEF Known
  <2>4. Several' <=> Several
    BY <1>1, <1>13 DEF Several
  <2>5. QED
    BY <2>2, <2>3, <2>4
<1>18. KnownInv'
  <2>1. ~Several' => pool' = {FirstWorker}
    BY <1>1, <1>17 DEF ChannelInv, KnownInv
  <2>2. \A v \in Workers : peer'[v] # None => peer'[v] \in Known'
    BY <1>1, <1>17 DEF ChannelInv, KnownInv, IInv, TypeOK
  <2>3. \A v \in Workers \ pool' : working'[v] = << >> /\ inbox'[v] = << >>
    <3>1. inbox[w] # << >> => w \in pool
      BY DEF ChannelInv, KnownInv
    <3>2. QED
      BY <1>1, <1>6, <3>1 DEF ChannelInv, KnownInv
  <2>4. DOMAIN clients' \subseteq Known' /\ toSend' \subseteq Known'
    BY <1>1, <1>17 DEF ChannelInv, KnownInv
  <2>5. QED
    BY <2>1, <2>2, <2>3, <2>4 DEF KnownInv
<1>19. QED
  BY <1>12, <1>14, <1>15, <1>16, <1>18 DEF ChannelInv

LEMMA StepChannels == IInv /\ ChannelInv /\ [Next]_vars => ChannelInv' /\ OutStep /\ InStep
<1> SUFFICES ASSUME IInv, ChannelInv, [Next]_vars PROVE ChannelInv' /\ OutStep /\ InStep
  OBVIOUS
<1>1. CASE \E c \in Clients, w \in Workers : ClientSends(c, w)
  BY <1>1, ClientSendsChannel
<1>2. CASE ActiveClientTimerElapsed \/ Tick
  BY <1>2, QuietStepsOK
<1>3. CASE MainThread
  BY <1>3, SendBufferChannel, SendToAllNextChannel, SendToAllBeginChannel, QuietStepsOK
     DEF MainThread
<1>4. ASSUME NEW w \in Workers, Worker(w) PROVE ChannelInv' /\ OutStep /\ InStep
  <2>1. CASE Received(w) \/ Sent(w)
    BY <2>1, ActivityOK
  <2>2. CASE ReceiveNextBuffer(w)
    BY <2>2, ReceiveNextBufferChannel
  <2>3. CASE SwapSendBuffers(w) \/ SendNext(w)
    BY <1>4, <2>3, SwapChannel, SendNextChannel DEF Worker
  <2>4. CASE Poll(w) \/ CheckFlag(w) \/ CheckActiveClients(w) \/ SwapFails(w)
             \/ ReadDescriptor(w) \/ SendDone(w)
    BY <2>4, QuietStepsOK
  <2>5. QED
    BY <1>4, <2>1, <2>2, <2>3, <2>4 DEF Worker
<1>5. CASE UNCHANGED vars
  <2>1. UNCHANGED << sendBuffers, working, inbox, posted, number, toSend, sent, heard,
                     clients, clientsLock, peer, pool >>
    BY <1>5 DEF vars, clientVars, sendVars, callVars, logs
  <2>2. DOMAIN clients' \subseteq Known /\ \A w \in Workers : peer'[w] # None => peer'[w] \in Known
    BY <2>1 DEF ChannelInv, KnownInv
  <2>3. QED
    BY <2>1, <2>2, StillOK
<1>6. QED
  BY <1>1, <1>2, <1>3, <1>4, <1>5 DEF Next

LEMMA ChannelInvariant == Spec => [](IInv /\ ChannelInv)
<1>1. Init => IInv /\ ChannelInv
  BY InitOK, InitChannels
<1>2. IInv /\ ChannelInv /\ [Next]_vars => (IInv /\ ChannelInv)'
  BY StepOK, StepChannels
<1>3. QED
  BY <1>1, <1>2, PTL DEF Spec

\* Every buffer queued for a client is given to the socket once, in the order of the
\* calls as long as there is one client, and none that was not queued: the proxy
\* implements a channel to its clients (SendBuffer, SendQueuedBuffers).
THEOREM OutgoingCorrect == Spec => OutgoingChannel
<1>1. Spec => ToClients!Init
  BY InitChannels DEF Spec
<1>2. IInv /\ ChannelInv /\ [Next]_vars => [ToClients!Next]_<< [c \in Clients |-> OnTheWay(c)], sent >>
  BY StepChannels DEF OutStep, OutPending
<1>3. QED
  BY <1>1, <1>2, ChannelInvariant, PTL DEF Spec, OutgoingChannel, ToClients!Spec

\* Every message of a client reaches the packet processor once, in the order it was
\* sent as long as there is one client: the proxy implements a channel from its
\* clients (ReceiveNextBuffer).
THEOREM IncomingCorrect == Spec => IncomingChannel
<1>1. Spec => FromClients!Init
  BY InitChannels DEF Spec
<1>2. IInv /\ ChannelInv /\ [Next]_vars => [FromClients!Next]_<< [c \in Clients |-> Passed(c)], heard >>
  BY StepChannels DEF InStep, InPending
<1>3. QED
  BY <1>1, <1>2, ChannelInvariant, PTL DEF Spec, IncomingChannel, FromClients!Spec

=============================================================================
