------------------------ MODULE SynchronizedOperation ------------------------
(***************************************************************************)
(* SynchronizedOperation.cpp: an action that at most one thread executes   *)
(* at a time, and that is executed once more after the current execution   *)
(* if it was requested meanwhile.  Each step is one atomic operation on    *)
(* m_state (a __sync builtin), the beginning or the end of the action, or  *)
(* the start of a thread.                                                  *)
(***************************************************************************)
EXTENDS Naturals, FiniteSets

CONSTANTS Callers, \* threads that call the methods
          Helpers  \* threads ExecuteActionAsync may start

ASSUME ThreadsAssumption == Callers \cap Helpers = {} /\ Helpers # {}

Threads == Callers \cup Helpers

\* Methods that ask for an execution, and those that give up when one is running.
Requests == {"Run", "RunOnce", "RunOnceAsync"}
Attempts == {"TryRun", "TryRunOnce", "TryRunOnceAsync"}
Methods  == Requests \cup Attempts

Async == {"RunOnceAsync", "TryRunOnceAsync"}
Once  == {"RunOnce", "TryRunOnce"}

VARIABLES
  state,   \* m_state
  pc,      \* where each thread is
  method,  \* the method a thread is in; "Run" stands for AsyncThreadProc, whose
           \* loop is that of Run
  owed     \* callers whose request has not been followed by an execution yet

vars == << state, pc, method, owed >>

Init ==
  /\ state = "NotRunning"
  /\ pc = [t \in Threads |-> "idle"]
  /\ method = [t \in Threads |-> "Run"]
  /\ owed = {}

Goto(t, label) == pc' = [pc EXCEPT ![t] = label]

Call(t, m) ==
  /\ pc[t] = "idle"
  /\ method' = [method EXCEPT ![t] = m]
  /\ Goto(t, IF m \in Requests THEN "mark" ELSE "try")
  /\ owed' = IF m \in Requests THEN owed \cup {t} ELSE owed
  /\ UNCHANGED state

\* Compare-and-swap of Running by Pending; nothing is running: try to.
Mark(t) ==
  /\ pc[t] = "mark"
  /\ state' = IF state = "Running" THEN "Pending" ELSE state
  /\ Goto(t, IF state = "NotRunning" THEN "try" ELSE "idle")
  /\ UNCHANGED << method, owed >>

\* Faulty variant: no compare-and-swap, the state is overwritten.
Try_Overwrites(t) ==
  /\ pc[t] = "try"
  /\ state' = "Running"
  /\ Goto(t, IF method[t] \in Async THEN "spawn" ELSE "start")
  /\ UNCHANGED << method, owed >>

\* Compare-and-swap of NotRunning by Running.
Try(t) ==
  /\ pc[t] = "try"
  /\ state' = IF state = "NotRunning" THEN "Running" ELSE state
  /\ Goto(t, IF state # "NotRunning" THEN "idle"
             ELSE IF method[t] \in Async THEN "spawn" ELSE "start")
  /\ UNCHANGED << method, owed >>

\* ExecuteActionAsync starts a thread and the method returns.
Spawn(t) ==
  /\ pc[t] = "spawn"
  /\ \E h \in Helpers :
       /\ pc[h] = "idle"
       /\ pc' = [pc EXCEPT ![t] = "idle", ![h] = "start"]
  /\ UNCHANGED << state, method, owed >>

\* The action begins; it sees what any caller did before it asked.
Start(t) ==
  /\ pc[t] = "start"
  /\ Goto(t, "action")
  /\ owed' = {}
  /\ UNCHANGED << state, method >>

\* Faulty variant: the state is reset whatever it is.
Finish_Resets(t) ==
  /\ pc[t] = "action"
  /\ state' = "NotRunning"
  /\ Goto(t, "idle")
  /\ UNCHANGED << method, owed >>

\* The action ends: compare-and-swap of Running by NotRunning.
Finish(t) ==
  /\ pc[t] = "action"
  /\ state' = IF state = "Running" THEN "NotRunning" ELSE state
  /\ Goto(t, IF state = "Pending" THEN "again" ELSE "idle")
  /\ UNCHANGED << method, owed >>

\* It was pending: Running again, here or, for the ...Once methods, elsewhere.
Again(t) ==
  /\ pc[t] = "again"
  /\ state' = "Running"
  /\ Goto(t, IF method[t] \in Once THEN "spawn" ELSE "start")
  /\ UNCHANGED << method, owed >>

Step(t) ==
  \/ Mark(t) \/ Try(t) \/ Spawn(t)
  \/ Start(t) \/ Finish(t) \/ Again(t)

Next ==
  \/ \E t \in Callers, m \in Methods : Call(t, m)
  \/ \E t \in Threads : Step(t)

Spec == Init /\ [][Next]_vars

\* A thread inside a method goes on, and the action ends.
FairSpec == Spec /\ \A t \in Threads : WF_vars(Step(t))

-----------------------------------------------------------------------------
(* Properties *)

TypeOK ==
  /\ state \in {"NotRunning", "Running", "Pending"}
  /\ pc \in [Threads -> {"idle", "mark", "try", "spawn", "start", "action", "again"}]
  /\ method \in [Threads -> Methods]
  /\ owed \subseteq Callers

\* Threads that have taken the operation and not given it back.
Runners == {t \in Threads : pc[t] \in {"spawn", "start", "action", "again"}}

\* The action is never executed by two threads at a time, although an execution
\* is handed from thread to thread (ExecuteActionAsync).
MutualExclusion ==
  \A t, u \in Threads : pc[t] = "action" /\ pc[u] = "action" => t = u

\* "if m_state is Pending, then it cannot be changed by any other line of code
\* except this one" (SynchronizedOperation.cpp:104).
PendingTakenByRunner ==
  [][state = "Pending" /\ state' # "Pending" =>
       \E t \in Threads : pc[t] = "again" /\ pc'[t] # "again"]_vars

\* A request is never forgotten: unless an execution has begun since, one is
\* pending or about to begin, or the caller is still at it.  That includes the
\* caller that finds nothing running, then loses the race to start it.
NoRequestLost ==
  owed # {} =>
    \/ state = "Pending"
    \/ \E t \in Threads : pc[t] \in {"spawn", "start"}
    \/ \E t \in owed : pc[t] \in {"mark", "try"}

\* Every request is followed by an execution (Run, RunOnce, RunOnceAsync).
RequestsAreExecuted == \A t \in Callers : t \in owed ~> t \notin owed

=============================================================================
