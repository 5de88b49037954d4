---------------------------- MODULE OperatingMode ----------------------------
(***************************************************************************)
(* How the web server changes the mode of the node.  config.py keeps the   *)
(* configuration in several files that it writes one after the other: its  *)
(* own copy for each mode, its copy of the mode in force, the backend file *)
(* that the service script reads, and the network interfaces.  Then it     *)
(* stops and starts the service.  Whenever it starts, and whenever the     *)
(* settings page is shown, it writes its copies and the backend file from  *)
(* what the backend file says.                                             *)
(*                                                                         *)
(* A file is emptied when it is opened for writing.  What a file says of a *)
(* mode besides its name is one value.                                     *)
(***************************************************************************)
EXTENDS Naturals, Sequences

CONSTANTS
  Values,      \* settings a mode can be given
  NoValue,
  MaxChanges,  \* bound: changes of mode or settings
  MaxFailures  \* bound: kills of the web server and reboots of the node

ASSUME ModeAssumption ==
  NoValue \notin Values /\ MaxChanges \in Nat /\ MaxFailures \in Nat

Modes == {"Proxy", "Passive", "Transparent"}
Files == Modes \cup {"armore", "backend", "interfaces"}
Content == [mode : Modes, value : Values \cup {NoValue}]
Empty == [mode |-> "none", value |-> NoValue]

VARIABLES
  files,    \* the content of every file
  todo,     \* what the request being served has still to do
  conf,     \* the configuration it writes
  open,     \* whether the next file is open: emptied and not written
  proxy,    \* the ARMOREProxy process and the settings it was started with
  network,  \* the interfaces file the network was brought up with
  changes,  \* changes made
  failures  \* kills and reboots

request == << todo, conf, open >>
counts == << changes, failures >>
vars == << files, todo, conf, open, proxy, network, changes, failures >>

NoProxy == [state |-> "off", value |-> NoValue]

Init ==
  \E v \in Values :
    LET c == [mode |-> "Proxy", value |-> v]
    IN /\ files = [f \in Files |->
                     IF f \in {"Passive", "Transparent"} THEN [mode |-> f, value |-> v] ELSE c]
       /\ proxy = [state |-> "running", value |-> v]
       /\ network = c /\ conf = c
       /\ todo = << >> /\ open = FALSE
       /\ changes = 0 /\ failures = 0

-----------------------------------------------------------------------------
(* Requests: one is served at a time                                       *)

Serving == todo # << >>

\* Faulty variant: the copy of the mode's settings is not written.
SyncTasks_NoCopy(backend) ==
  IF backend = Empty THEN << >> ELSE << "armore", "backend" >>

\* synchConfigs, which leaves everything alone if the backend file names no mode
SyncTasks(backend) ==
  IF backend = Empty THEN << >> ELSE << backend.mode, "armore", "backend" >>

\* Faulty variant: the service is started again without being stopped.
ChangeTasks_NoStop(mode) == << mode, "armore", "backend", "interfaces", "start" >>

\* updateConfig of a mode, to be enforced
ChangeTasks(mode) == << mode, "armore", "backend", "interfaces", "stop", "start" >>

\* postArmoreSettings: what the form leaves blank is taken from the mode's copy.
Change(mode, value) ==
  /\ ~Serving /\ changes < MaxChanges
  /\ conf' = [mode |-> mode, value |-> IF value = NoValue THEN files[mode].value ELSE value]
  /\ todo' = ChangeTasks(mode)
  /\ changes' = changes + 1
  /\ UNCHANGED << files, open, proxy, network, failures >>

\* The settings page
Show ==
  /\ ~Serving
  /\ conf' = files["backend"]
  /\ todo' = SyncTasks(files["backend"])
  /\ UNCHANGED << files, open, proxy, network, counts >>

\* writeTemplate opens the file ...
Open ==
  /\ Serving /\ Head(todo) \in Files /\ ~open
  /\ files' = [files EXCEPT ![Head(todo)] = Empty]
  /\ open' = TRUE
  /\ UNCHANGED << todo, conf, proxy, network, counts >>

\* ... and writes it.
Write ==
  /\ open
  /\ files' = [files EXCEPT ![Head(todo)] = conf]
  /\ open' = FALSE
  /\ todo' = Tail(todo)
  /\ UNCHANGED << conf, proxy, network, counts >>

-----------------------------------------------------------------------------
(* The service script, which reads the backend file each time it runs      *)

\* do_stop: a process told to quit may still be there when the script goes on.
StopService ==
  /\ Serving /\ Head(todo) = "stop"
  /\ todo' = Tail(todo)
  /\ proxy' = IF files["backend"].mode = "Proxy" /\ proxy.state = "running"
                THEN [proxy EXCEPT !.state = "quitting"] ELSE proxy
  /\ UNCHANGED << files, conf, open, network, counts >>

\* do_start, which leaves a process that is there alone
Started(backend, p) ==
  IF backend.mode = "Proxy" /\ p.state = "off"
    THEN [state |-> "running", value |-> backend.value] ELSE p

StartService ==
  /\ Serving /\ Head(todo) = "start"
  /\ todo' = Tail(todo)
  /\ proxy' = Started(files["backend"], proxy)
  /\ UNCHANGED << files, conf, open, network, counts >>

Quit ==
  /\ proxy.state = "quitting"
  /\ proxy' = NoProxy
  /\ UNCHANGED << files, request, network, counts >>

-----------------------------------------------------------------------------
(* Failures                                                                *)

\* The web server starts again, and synchronizes the files.
Recover ==
  /\ conf' = files["backend"]
  /\ todo' = SyncTasks(files["backend"])
  /\ open' = FALSE
  /\ failures' = failures + 1

Kill ==
  /\ failures < MaxFailures
  /\ Recover
  /\ UNCHANGED << files, proxy, network, changes >>

\* The node starts again, with the network its interfaces file describes.
Reboot ==
  /\ failures < MaxFailures
  /\ Recover
  /\ proxy' = Started(files["backend"], NoProxy)
  /\ network' = files["interfaces"]
  /\ UNCHANGED << files, changes >>

Serve == Open \/ Write \/ StopService \/ StartService

Next ==
  \/ \E mode \in Modes, value \in Values \cup {NoValue} : Change(mode, value)
  \/ Show
  \/ Serve
  \/ Quit
  \/ Kill
  \/ Reboot

Spec == Init /\ [][Next]_vars
-----------------------------------------------------------------------------
(* Properties *)

Tasks == Files \cup {"stop", "start"}

\* The types, and an open file is the next one to be written (writeTemplate).
TypeOK ==
  /\ files \in [Files -> Content \cup {Empty}]
  /\ todo \in Seq(Tasks)
  /\ conf \in Content \cup {Empty}
  /\ open \in BOOLEAN
  /\ open => Serving /\ Head(todo) \in Files /\ files[Head(todo)] = Empty
  /\ proxy \in [state : {"off", "running", "quitting"}, value : Values \cup {NoValue}]
  /\ network \in Content \cup {Empty}
  /\ changes \in 0 .. MaxChanges /\ failures \in 0 .. MaxFailures

Backend == files["backend"]

\* Whenever no request is being served, whatever was interrupted before, the
\* copies the pages show are those of the configuration the service reads, or
\* the backend file was lost; and if nothing failed, the interfaces file is that
\* of the backend, too (updateConfig, synchConfigs, writeInterfacesFile).
CopiesAgree ==
  ~Serving =>
    /\ Backend # Empty =>
         files["armore"].mode = Backend.mode /\ files[Backend.mode] = Backend
    /\ failures = 0 => files["interfaces"] = Backend

\* If nothing failed, a node in proxy mode does not go on with old settings:
\* the proxy that is running was started with those of the backend file, even
\* after the node was in another mode (updateConfig, do_stop, do_start).
NoStaleProxy ==
  ~Serving /\ failures = 0 /\ Backend.mode = "Proxy" /\ proxy.state = "running" =>
    proxy.value = Backend.value

-----------------------------------------------------------------------------
(* What the documentation says and the code does not do                    *)

\* "Span port configuration that allows the system to inspect traffic, but not
\* modify" (README.md:39): a node whose mode is passive runs no proxy.
PassiveRunsNoProxy ==
  ~Serving /\ failures = 0 /\ Backend.mode = "Passive" => proxy.state # "running"

=============================================================================
