------------------------- MODULE OperatingModeProofs --------------------------
(***************************************************************************)
(* Proofs about OperatingMode for any settings and any number of changes   *)
(* and failures.  A request writes its files in a fixed order, so what it  *)
(* has still to do tells which files already hold its configuration; what  *)
(* a failure leaves behind is covered by the synchronization that follows. *)
(***************************************************************************)
EXTENDS OperatingMode, TLAPS

USE ModeAssumption

\* What is left of a synchronization, and of a change of mode.
Sync3(m) == << m, "armore", "backend" >>
Sync2 == << "armore", "backend" >>
Sync1 == << "backend" >>
Change6(m) == << m, "armore", "backend", "interfaces", "stop", "start" >>
Change5 == << "armore", "backend", "interfaces", "stop", "start" >>
Change4 == << "backend", "interfaces", "stop", "start" >>
Change3 == << "interfaces", "stop", "start" >>
Change2 == << "stop", "start" >>
Change1 == << "start" >>

SyncLeft(m) == {Sync3(m), Sync2, Sync1}
ChangeLeft(m) == {Change6(m), Change5, Change4, Change3, Change2, Change1}

Types ==
  /\ files \in [Files -> Content \cup {Empty}]
  /\ conf \in Content \cup {Empty}
  /\ proxy \in [state : {"off", "running", "quitting"}, value : Values \cup {NoValue}]
  /\ failures \in Nat
  /\ open \in BOOLEAN

\* A proxy that runs in proxy mode was started with the settings of c.
Current(c) == c.mode = "Proxy" /\ proxy.state = "running" => proxy.value = c.value

\* Between two requests.
IdleOK ==
  /\ Backend # Empty => files["armore"] = Backend /\ files[Backend.mode] = Backend
  /\ failures = 0 => files["interfaces"] = Backend /\ Backend # Empty /\ Current(Backend)

\* While a request is served: what its remaining tasks say has been done.
RequestOK ==
  LET next == Head(todo) IN
  /\ conf \in Content
  /\ todo \in SyncLeft(conf.mode) \cup ChangeLeft(conf.mode)
  /\ next # conf.mode => files[conf.mode] = conf
  /\ next \notin {conf.mode, "armore"} => files["armore"] = conf
  /\ next \notin {conf.mode, "armore", "backend"} => files["backend"] = conf
  /\ next \in {"stop", "start"} => files["interfaces"] = conf
  /\ failures = 0 /\ todo \in SyncLeft(conf.mode) =>
       files["interfaces"] = conf /\ Current(conf)
  /\ todo = Change1 /\ conf.mode = "Proxy" => proxy.state # "running"

\* A file is only open while it is the next to be written.
OpenOnlyNext == open => todo # << >> /\ Head(todo) \in Files

IInv ==
  /\ Types
  /\ OpenOnlyNext
  /\ todo = << >> => IdleOK
  /\ todo # << >> => RequestOK

-----------------------------------------------------------------------------
(* Facts about the tasks *)

\* What comes first, and what is left after it.
LEMMA Heads ==
  ASSUME NEW m \in Modes
  PROVE  /\ Head(Sync3(m)) = m /\ Head(Sync2) = "armore" /\ Head(Sync1) = "backend"
         /\ Head(Change6(m)) = m /\ Head(Change5) = "armore" /\ Head(Change4) = "backend"
         /\ Head(Change3) = "interfaces" /\ Head(Change2) = "stop" /\ Head(Change1) = "start"
BY DEF Sync3, Sync2, Sync1, Change6, Change5, Change4, Change3, Change2, Change1

LEMMA Tails ==
  ASSUME NEW m \in Modes
  PROVE  /\ Tail(Sync3(m)) = Sync2 /\ Tail(Sync2) = Sync1 /\ Tail(Sync1) = << >>
         /\ Tail(Change6(m)) = Change5 /\ Tail(Change5) = Change4
         /\ Tail(Change4) = Change3 /\ Tail(Change3) = Change2
         /\ Tail(Change2) = Change1 /\ Tail(Change1) = << >>
<1>1. Tail(Sync3(m)) = Sync2 /\ Tail(Sync2) = Sync1 /\ Tail(Sync1) = << >>
  BY DEF Sync3, Sync2, Sync1
<1>2. Tail(Change6(m)) = Change5
  BY DEF Change6, Change5
<1>3. Tail(Change5) = Change4
  BY DEF Change5, Change4
<1>4. Tail(Change4) = Change3
  BY DEF Change4, Change3
<1>5. Tail(Change3) = Change2 /\ Tail(Change2) = Change1 /\ Tail(Change1) = << >>
  BY DEF Change3, Change2, Change1
<1>6. QED
  BY <1>1, <1>2, <1>3, <1>4, <1>5

\* A synchronization ends with the backend file, a change with the service.
LEMMA TasksDiffer ==
  ASSUME NEW m \in Modes
  PROVE  /\ << >> \notin SyncLeft(m) \cup ChangeLeft(m)
         /\ SyncLeft(m) \cap ChangeLeft(m) = {}
<1>1. /\ Len(Sync3(m)) = 3 /\ Len(Sync2) = 2 /\ Len(Sync1) = 1
      /\ Len(Change6(m)) = 6 /\ Len(Change5) = 5 /\ Len(Change4) = 4
      /\ Len(Change3) = 3 /\ Len(Change2) = 2 /\ Len(Change1) = 1
  BY DEF Sync3, Sync2, Sync1, Change6, Change5, Change4, Change3, Change2, Change1
<1>2. Sync3(m) # Change3 /\ Sync2 # Change2 /\ Sync1 # Change1
  BY Heads DEF Modes
<1>3. Len(<< >>) = 0
  OBVIOUS
<1>4. QED
  BY <1>1, <1>2, <1>3 DEF SyncLeft, ChangeLeft

\* The first task tells what is left.
LEMMA TaskFacts ==
  ASSUME NEW m \in Modes, NEW t \in SyncLeft(m) \cup ChangeLeft(m)
  PROVE  /\ Head(t) \in {m, "armore", "backend", "interfaces", "stop", "start"}
         /\ Head(t) = m => t \in {Sync3(m), Change6(m)}
         /\ Head(t) = "armore" => t \in {Sync2, Change5}
         /\ Head(t) = "backend" => t \in {Sync1, Change4}
         /\ Head(t) = "interfaces" => t = Change3
         /\ Head(t) = "stop" => t = Change2
         /\ Head(t) = "start" => t = Change1
BY Heads DEF SyncLeft, ChangeLeft, Modes

LEMMA EmptyIsNoContent == Empty \notin Content
BY DEF Empty, Content, Modes

-----------------------------------------------------------------------------

LEMMA InitOK == Init => IInv
<1> SUFFICES ASSUME Init PROVE IInv
  OBVIOUS
<1>1. PICK v \in Values :
        LET c == [mode |-> "Proxy", value |-> v]
        IN /\ files = [f \in Files |->
                         IF f \in {"Passive", "Transparent"} THEN [mode |-> f, value |-> v] ELSE c]
           /\ proxy = [state |-> "running", value |-> v]
           /\ network = c /\ conf = c
           /\ todo = << >> /\ open = FALSE
           /\ changes = 0 /\ failures = 0
  BY DEF Init
<1> DEFINE c == [mode |-> "Proxy", value |-> v]
<1>2. c \in Content
  BY DEF Content, Modes
<1>3. Types /\ OpenOnlyNext
  BY <1>1, <1>2 DEF Types, OpenOnlyNext, Files, Modes, Content
<1>4. IdleOK
  BY <1>1, <1>2, EmptyIsNoContent DEF IdleOK, Backend, Current, Files, Modes
<1>5. QED
  BY <1>1, <1>3, <1>4 DEF IInv

\* A synchronization starts with everything as the backend file says, or there is
\* nothing to synchronize with.
LEMMA SyncStarts ==
  ASSUME Types, failures' \in Nat,
         conf' = files["backend"], todo' = SyncTasks(files["backend"]),
         files' = files, proxy' \in [state : {"off", "running", "quitting"}, value : Values \cup {NoValue}],
         open' = FALSE, failures' = 0 => IdleOK'
  PROVE  IInv'
<1>1. "backend" \in Files /\ "armore" \in Files
  BY DEF Files
<1>2. files["backend"] \in Content \cup {Empty}
  BY <1>1 DEF Types
<1>3. Types' /\ OpenOnlyNext'
  BY <1>2 DEF Types, OpenOnlyNext
<1>4. CASE files["backend"] = Empty
  <2>1. todo' = << >>
    BY <1>4 DEF SyncTasks
  <2>2. IdleOK'
    BY <1>4 DEF IdleOK, Backend
  <2>3. QED
    BY <1>3, <2>1, <2>2 DEF IInv
<1>5. CASE files["backend"] # Empty
  <2>1. conf' \in Content /\ conf'.mode \in Modes
    BY <1>2, <1>5 DEF Content
  <2>2. todo' = Sync3(conf'.mode)
    BY <1>5 DEF SyncTasks, Sync3
  <2>3. todo' # << >> /\ Head(todo') = conf'.mode /\ todo' \in SyncLeft(conf'.mode)
    BY <2>1, <2>2, Heads, TasksDiffer DEF SyncLeft
  <2>4. conf'.mode \notin {"stop", "start"} /\ todo' # Change1
    BY <2>1, <2>3, Heads DEF Modes
  <2>5. failures' = 0 =>
          /\ files'["interfaces"] = conf'
          /\ conf'.mode = "Proxy" /\ proxy'.state = "running" => proxy'.value = conf'.value
    BY DEF IdleOK, Backend, Current
  <2>6. RequestOK'
    BY <2>1, <2>3, <2>4, <2>5 DEF RequestOK, Current
  <2>7. QED
    BY <1>3, <2>3, <2>6 DEF IInv
<1>6. QED
  BY <1>4, <1>5

LEMMA ShowOK == ASSUME IInv, Show PROVE IInv'
<1>1. /\ todo = << >> /\ conf' = files["backend"] /\ todo' = SyncTasks(files["backend"])
      /\ UNCHANGED << files, open, proxy, failures >>
  BY DEF Show, Serving, counts
<1>2. Types /\ IdleOK /\ open = FALSE
  BY <1>1 DEF IInv, OpenOnlyNext, Types
<1>3. IdleOK'
  BY <1>1, <1>2 DEF IdleOK, Backend, Current
<1>4. QED
  BY <1>1, <1>2, <1>3, SyncStarts DEF Types

LEMMA RecoverOK == ASSUME IInv, Kill \/ Reboot PROVE IInv'
<1>1. /\ conf' = files["backend"] /\ todo' = SyncTasks(files["backend"])
      /\ failures' = failures + 1 /\ files' = files /\ open' = FALSE
      /\ proxy' = proxy \/ proxy' = Started(files["backend"], NoProxy)
  BY DEF Kill, Reboot, Recover
<1>2. Types /\ files["backend"] \in Content \cup {Empty}
  BY DEF IInv, Types, Files
<1>3. proxy' \in [state : {"off", "running", "quitting"}, value : Values \cup {NoValue}]
  BY <1>1, <1>2 DEF Types, Started, NoProxy, Content, Empty
<1>4. failures' \in Nat /\ failures' # 0
  BY <1>1, <1>2 DEF Types
<1>5. QED
  BY <1>1, <1>2, <1>3, <1>4, SyncStarts

LEMMA ChangeOK ==
  ASSUME IInv, NEW mode \in Modes, NEW value \in Values \cup {NoValue}, Change(mode, value)
  PROVE  IInv'
<1>1. /\ conf' = [mode |-> mode, value |-> IF value = NoValue THEN files[mode].value ELSE value]
      /\ todo' = ChangeTasks(mode) /\ todo = << >>
      /\ UNCHANGED << files, open, proxy, failures >>
  BY DEF Change, Serving
<1>2. Types /\ files[mode] \in Content \cup {Empty}
  BY DEF IInv, Types, Files
<1>3. conf' \in Content /\ conf'.mode = mode
  BY <1>1, <1>2 DEF Content, Empty
<1>4. Types' /\ OpenOnlyNext'
  BY <1>1, <1>2, <1>3 DEF Types, OpenOnlyNext, IInv
<1>5. todo' = Change6(mode)
  BY <1>1 DEF ChangeTasks, Change6
<1>6. /\ Head(todo') = mode /\ todo' \in ChangeLeft(mode)
      /\ mode \notin {"stop", "start"}
  BY <1>5, Heads DEF ChangeLeft, Modes
<1>7. todo' # << >> /\ todo' \notin SyncLeft(mode) /\ todo' # Change1
  BY <1>6, Heads, TasksDiffer
<1>8. RequestOK'
  BY <1>3, <1>6, <1>7 DEF RequestOK
<1>9. QED
  BY <1>4, <1>7, <1>8 DEF IInv

\* A file that is open is the next one: those already written stay as they are.
LEMMA OpenOK == ASSUME IInv, Open PROVE IInv'
<1>1. /\ todo # << >> /\ Head(todo) \in Files
      /\ files' = [files EXCEPT ![Head(todo)] = Empty]
      /\ open' = TRUE
      /\ UNCHANGED << todo, conf, proxy, failures >>
  BY DEF Open, Serving, counts
<1>2. Types /\ RequestOK
  BY <1>1 DEF IInv
<1>3. Types' /\ OpenOnlyNext'
  BY <1>1, <1>2 DEF Types, OpenOnlyNext
<1>4. conf \in Content /\ conf.mode \in Modes
  BY <1>2 DEF RequestOK, Content
<1>5. \A f \in Files : f # Head(todo) => files'[f] = files[f]
  BY <1>1, <1>2 DEF Types
<1>6. "armore" \in Files /\ "backend" \in Files /\ "interfaces" \in Files /\ conf.mode \in Files
  BY <1>4 DEF Files
<1>7. /\ Head(todo) \notin {"stop", "start"}
      /\ todo \in SyncLeft(conf.mode) => Head(todo) # "interfaces"
  BY <1>1, <1>4, Heads DEF SyncLeft, Files, Modes
<1>8. RequestOK'
  BY <1>1, <1>2, <1>4, <1>5, <1>6, <1>7 DEF RequestOK, Current
<1>9. QED
  BY <1>1, <1>3, <1>8 DEF IInv

\* Writing the next file: what is left then is a smaller part of the same request.
LEMMA WriteOK == ASSUME IInv, Write PROVE IInv'
<1> DEFINE m == conf.mode
<1>1. /\ files' = [files EXCEPT ![Head(todo)] = conf]
      /\ todo' = Tail(todo) /\ open' = FALSE
      /\ UNCHANGED << conf, proxy, failures >>
  BY DEF Write, counts
<1>2. Types /\ RequestOK /\ Head(todo) \in Files
  BY DEF IInv, OpenOnlyNext, Write
<1>3. conf \in Content /\ m \in Modes /\ conf # Empty
  BY <1>2, EmptyIsNoContent DEF RequestOK, Content
<1>4. Types' /\ OpenOnlyNext'
  BY <1>1, <1>2, <1>3 DEF Types, OpenOnlyNext
<1>5. /\ files'[Head(todo)] = conf
      /\ \A f \in Files : f # Head(todo) => files'[f] = files[f]
  BY <1>1, <1>2 DEF Types
<1>6. /\ "armore" \in Files /\ "backend" \in Files /\ "interfaces" \in Files /\ m \in Files
      /\ m \notin {"armore", "backend", "interfaces", "stop", "start"}
  BY <1>3 DEF Files, Modes
<1>7. todo \in SyncLeft(m) \cup ChangeLeft(m)
  BY <1>2 DEF RequestOK
<1>8. CASE Head(todo) = m
  <2>1. /\ todo' \in {Sync2, Change5}
        /\ todo' \in SyncLeft(m) => todo \in SyncLeft(m)
    <3>1. todo \in {Sync3(m), Change6(m)}
      BY <1>3, <1>7, <1>8, TaskFacts
    <3>2. QED
      BY <1>1, <1>3, <3>1, Tails, TasksDiffer DEF SyncLeft, ChangeLeft
  <2>2. /\ todo' \in SyncLeft(m) \cup ChangeLeft(m)
        /\ Head(todo') = "armore"
    BY <1>3, <2>1, Heads DEF SyncLeft, ChangeLeft
  <2>3. todo' # << >> /\ todo' # Change1
    BY <1>3, <2>2, Heads, TasksDiffer
  <2>4. RequestOK'
    BY <1>1, <1>2, <1>3, <1>5, <1>6, <1>8, <2>1, <2>2, <2>3 DEF RequestOK, Current
  <2>5. QED
    BY <1>4, <2>3, <2>4 DEF IInv
<1>9. CASE Head(todo) = "armore"
  <2>1. /\ todo' \in {Sync1, Change4}
        /\ todo' \in SyncLeft(m) => todo \in SyncLeft(m)
    <3>1. todo \in {Sync2, Change5}
      BY <1>3, <1>7, <1>9, TaskFacts
    <3>2. QED
      BY <1>1, <1>3, <3>1, Tails, TasksDiffer DEF SyncLeft, ChangeLeft
  <2>2. /\ todo' \in SyncLeft(m) \cup ChangeLeft(m)
        /\ Head(todo') = "backend"
    BY <1>3, <2>1, Heads DEF SyncLeft, ChangeLeft
  <2>3. todo' # << >> /\ todo' # Change1
    BY <1>3, <2>2, Heads, TasksDiffer
  <2>4. RequestOK'
    BY <1>1, <1>2, <1>3, <1>5, <1>6, <1>9, <2>1, <2>2, <2>3 DEF RequestOK, Current
  <2>5. QED
    BY <1>4, <2>3, <2>4 DEF IInv
<1>10. CASE Head(todo) = "backend"
  <2>1. /\ todo \in {Sync1, Change4}
        /\ files'["backend"] = conf /\ files'["armore"] = conf /\ files'[m] = conf
        /\ files'["interfaces"] = files["interfaces"]
    BY <1>2, <1>3, <1>5, <1>6, <1>7, <1>10, TaskFacts DEF RequestOK
  <2>2. CASE todo = Sync1
    <3>1. todo' = << >> /\ todo \in SyncLeft(m)
      BY <1>1, <1>3, <2>2, Tails DEF SyncLeft
    <3>2. IdleOK'
      BY <1>1, <1>2, <1>3, <2>1, <3>1 DEF IdleOK, RequestOK, Backend, Current
    <3>3. QED
      BY <1>4, <3>1, <3>2 DEF IInv
  <2>3. CASE todo = Change4
    <3>1. todo' = Change3
      BY <1>1, <1>3, <2>3, Tails
    <3>2. Head(todo') = "interfaces" /\ todo' \in ChangeLeft(m)
      BY <1>3, <3>1, Heads DEF ChangeLeft
    <3>3. todo' # << >> /\ todo' # Change1 /\ todo' \notin SyncLeft(m)
      BY <1>3, <3>2, Heads, TasksDiffer
    <3>4. RequestOK'
      BY <1>1, <1>3, <2>1, <3>2, <3>3 DEF RequestOK
    <3>5. QED
      BY <1>4, <3>3, <3>4 DEF IInv
  <2>4. QED
    BY <2>1, <2>2, <2>3
<1>11. CASE Head(todo) = "interfaces"
  <2>1. todo' = Change2
    BY <1>1, <1>3, <1>7, <1>11, TaskFacts, Tails
  <2>2. Head(todo') = "stop" /\ todo' \in ChangeLeft(m)
    BY <1>3, <2>1, Heads DEF ChangeLeft
  <2>3. todo' # << >> /\ todo' # Change1 /\ todo' \notin SyncLeft(m)
    BY <1>3, <2>2, Heads, TasksDiffer
  <2>4. RequestOK'
    BY <1>1, <1>2, <1>3, <1>5, <1>6, <1>11, <2>2, <2>3 DEF RequestOK
  <2>5. QED
    BY <1>4, <2>3, <2>4 DEF IInv
<1>12. Head(todo) \in {m, "armore", "backend", "interfaces"}
  BY <1>2, <1>3, <1>7, TaskFacts DEF Files, Modes
<1>13. QED
  BY <1>8, <1>9, <1>10, <1>11, <1>12

\* A proxy that runs in proxy mode is told to quit ...
LEMMA StopServiceOK == ASSUME IInv, StopService PROVE IInv'
<1>1. /\ todo # << >> /\ Head(todo) = "stop" /\ todo' = Tail(todo)
      /\ proxy' = IF files["backend"].mode = "Proxy" /\ proxy.state = "running"
                    THEN [proxy EXCEPT !.state = "quitting"] ELSE proxy
      /\ UNCHANGED << files, conf, open, failures >>
  BY DEF StopService, Serving, counts
<1>2. Types /\ RequestOK /\ OpenOnlyNext
  BY <1>1 DEF IInv
<1>3. conf \in Content /\ conf.mode \in Modes
  BY <1>2 DEF RequestOK, Content
<1>4. Types' /\ OpenOnlyNext'
  BY <1>1, <1>2 DEF Types, OpenOnlyNext, Files, Modes
<1>5. todo' = Change1
  BY <1>1, <1>2, <1>3, TaskFacts, Tails DEF RequestOK
<1>6. /\ todo' # << >> /\ Head(todo') = "start"
      /\ todo' \in ChangeLeft(conf.mode) /\ todo' \notin SyncLeft(conf.mode)
  BY <1>3, <1>5, Heads, TasksDiffer DEF ChangeLeft
<1>7. /\ files[conf.mode] = conf /\ files["armore"] = conf /\ files["backend"] = conf
      /\ files["interfaces"] = conf
  BY <1>1, <1>2, <1>3 DEF RequestOK, Modes
<1>8. conf.mode = "Proxy" => proxy'.state # "running"
  BY <1>1, <1>2, <1>7 DEF Types
<1>9. RequestOK'
  BY <1>1, <1>3, <1>6, <1>7, <1>8 DEF RequestOK
<1>10. QED
  BY <1>4, <1>6, <1>9 DEF IInv

\* ... so that one which is started has the settings just written.
LEMMA StartServiceOK == ASSUME IInv, StartService PROVE IInv'
<1>1. /\ todo # << >> /\ Head(todo) = "start" /\ todo' = Tail(todo)
      /\ proxy' = Started(files["backend"], proxy)
      /\ UNCHANGED << files, conf, open, failures >>
  BY DEF StartService, Serving, counts
<1>2. Types /\ RequestOK /\ OpenOnlyNext
  BY <1>1 DEF IInv
<1>3. conf \in Content /\ conf.mode \in Modes /\ conf # Empty
  BY <1>2, EmptyIsNoContent DEF RequestOK, Content
<1>4. todo = Change1 /\ todo' = << >>
  BY <1>1, <1>2, <1>3, TaskFacts, Tails DEF RequestOK
<1>5. /\ files[conf.mode] = conf /\ files["armore"] = conf /\ files["backend"] = conf
      /\ files["interfaces"] = conf
  BY <1>1, <1>2, <1>3 DEF RequestOK, Modes
<1>6. Types' /\ OpenOnlyNext'
  BY <1>1, <1>2, <1>3, <1>5 DEF Types, OpenOnlyNext, Started, Content, Files, Modes
<1>7. IdleOK'
  BY <1>1, <1>2, <1>3, <1>4, <1>5 DEF IdleOK, RequestOK, Backend, Current, Started
<1>8. QED
  BY <1>4, <1>6, <1>7 DEF IInv

LEMMA QuitOK == ASSUME IInv, Quit PROVE IInv'
<1>1. /\ proxy' = NoProxy
      /\ UNCHANGED << files, todo, conf, open, failures >>
  BY DEF Quit, request, counts
<1>2. Types' /\ OpenOnlyNext'
  BY <1>1 DEF IInv, Types, OpenOnlyNext, NoProxy
<1>3. todo = << >> => IdleOK'
  BY <1>1 DEF IInv, IdleOK, Backend, Current, NoProxy
<1>4. todo # << >> => RequestOK'
  BY <1>1 DEF IInv, RequestOK, Current, NoProxy
<1>5. QED
  BY <1>1, <1>2, <1>3, <1>4 DEF IInv

LEMMA StepOK == IInv /\ [Next]_vars => IInv'
<1> SUFFICES ASSUME IInv, [Next]_vars PROVE IInv'
  OBVIOUS
<1>1. ASSUME NEW mode \in Modes, NEW value \in Values \cup {NoValue}, Change(mode, value)
      PROVE  IInv'
  BY <1>1, ChangeOK
<1>2. CASE Show
  BY <1>2, ShowOK
<1>3. CASE Serve
  BY <1>3, OpenOK, WriteOK, StopServiceOK, StartServiceOK DEF Serve
<1>4. CASE Quit
  BY <1>4, QuitOK
<1>5. CASE Kill \/ Reboot
  BY <1>5, RecoverOK
<1>6. CASE UNCHANGED vars
  BY <1>6 DEF vars, IInv, Types, OpenOnlyNext, IdleOK, RequestOK, Backend, Current
<1>7. QED
  BY <1>1, <1>2, <1>3, <1>4, <1>5, <1>6 DEF Next

\* What the remaining tasks of a request say of the files, and what holds between
\* two requests.
THEOREM Invariant == Spec => []IInv
<1>1. QED
  BY InitOK, StepOK, PTL DEF Spec

\* Wherever a change of mode was interrupted, once the web server serves no
\* request its copies of the configuration agree with what the service reads
\* (updateConfig, synchConfigs).
THEOREM CopiesCorrect == Spec => []CopiesAgree
<1>1. IInv => CopiesAgree
  BY DEF IInv, IdleOK, CopiesAgree, Serving, Backend
<1>2. QED
  BY Invariant, <1>1, PTL

\* Without a failure a proxy that runs in proxy mode has the settings in force,
\* for any settings and any number of changes (do_stop, do_start).
THEOREM ProxyCorrect == Spec => []NoStaleProxy
<1>1. IInv => NoStaleProxy
  BY DEF IInv, IdleOK, NoStaleProxy, Serving, Backend, Current
<1>2. QED
  BY Invariant, <1>1, PTL

=============================================================================
