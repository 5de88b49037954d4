--------------------------- MODULE ThreadingProofs ---------------------------
(***************************************************************************)
(* Proofs about SynchronizedOperation for any number of threads, and about *)
(* Timer for any number of polling threads, whatever the uninitialized     *)
(* flag holds at first.  Stop takes effect because of the descriptor, not  *)
(* of the flag: once it has been cleared nothing expires until the timer   *)
(* is armed again.                                                         *)
(***************************************************************************)
EXTENDS SynchronizedOperation, Timer, TLAPS

USE ThreadsAssumption, TimerAssumption

\* Whoever takes the operation is alone with it: a thread becomes a runner by
\* the compare-and-swap of NotRunning, or is handed the operation by a runner.
OneRunner ==
  /\ state = "NotRunning" <=> Runners = {}
  /\ \A t, u \in Runners : t = u
  /\ \A t \in Threads : pc[t] = "again" => state = "Pending"

AboutToRun == \E t \in Threads : pc[t] \in {"spawn", "start"}

\* NoRequestLost caller by caller: one that saw nothing running and is about to
\* try can lose the race only to an execution that is yet to begin.
OwedIsKept ==
  \A t \in owed :
    \/ pc[t] = "mark"
    \/ pc[t] = "try" /\ state = "NotRunning"
    \/ state = "Pending"
    \/ AboutToRun

IInv == TypeOK /\ OneRunner /\ OwedIsKept

LEMMA InitIInv == Init => IInv
BY DEF Init, IInv, TypeOK, OneRunner, OwedIsKept, Runners, Threads,
       Methods, Requests, Attempts

LEMMA CallIInv ==
  ASSUME IInv, NEW t \in Callers, NEW m \in Methods, Call(t, m)
  PROVE  IInv'
<1>1. TypeOK'
  BY DEF IInv, TypeOK, Call, Goto, Threads
<1>2. OneRunner'
  BY DEF IInv, TypeOK, OneRunner, Call, Goto, Runners, Threads
<1>3. OwedIsKept'
  BY DEF IInv, TypeOK, OwedIsKept, AboutToRun, Call, Goto, Threads
<1>4. QED
  BY <1>1, <1>2, <1>3 DEF IInv

LEMMA MarkIInv ==
  ASSUME IInv, NEW t \in Threads, Mark(t)
  PROVE  IInv'
<1>1. TypeOK'
  BY DEF IInv, TypeOK, Mark, Goto
<1>2. OneRunner'
  BY DEF IInv, TypeOK, OneRunner, Mark, Goto, Runners
<1>3. OwedIsKept'
  BY DEF IInv, TypeOK, OwedIsKept, AboutToRun, Mark, Goto
<1>4. QED
  BY <1>1, <1>2, <1>3 DEF IInv

LEMMA TryIInv ==
  ASSUME IInv, NEW t \in Threads, Try(t)
  PROVE  IInv'
<1>1. TypeOK'
  BY DEF IInv, TypeOK, Try, Goto
<1>2. OneRunner'
  BY DEF IInv, TypeOK, OneRunner, Try, Goto, Runners
<1>3. OwedIsKept'
  BY DEF IInv, TypeOK, OwedIsKept, AboutToRun, Try, Goto
<1>4. QED
  BY <1>1, <1>2, <1>3 DEF IInv

LEMMA SpawnIInv ==
  ASSUME IInv, NEW t \in Threads, Spawn(t)
  PROVE  IInv'
<1> PICK h \in Helpers : pc[h] = "idle" /\ pc' = [pc EXCEPT ![t] = "idle", ![h] = "start"]
  BY DEF Spawn
<1>1. h \in Threads /\ h # t /\ pc[t] = "spawn" /\ UNCHANGED << state, method, owed >>
  BY DEF Spawn, Threads
<1>2. TypeOK'
  BY <1>1 DEF IInv, TypeOK
<1>3. pc'[h] = "start" /\ pc'[t] = "idle" /\ \A u \in Threads \ {h, t} : pc'[u] = pc[u]
  BY <1>1 DEF IInv, TypeOK
<1>4. Runners = {t}
  BY <1>1 DEF IInv, OneRunner, Runners
<1>5. Runners' = {h}
  BY <1>1, <1>3, <1>4 DEF Runners
<1>6. OneRunner'
  BY <1>1, <1>3, <1>4, <1>5 DEF IInv, OneRunner
<1>7. OwedIsKept'
  BY <1>1, <1>3 DEF IInv, OwedIsKept, AboutToRun
<1>8. QED
  BY <1>2, <1>6, <1>7 DEF IInv

LEMMA StartIInv ==
  ASSUME IInv, NEW t \in Threads, Start(t)
  PROVE  IInv'
<1>1. TypeOK'
  BY DEF IInv, TypeOK, Start, Goto
<1>2. OneRunner'
  BY DEF IInv, TypeOK, OneRunner, Start, Goto, Runners
<1>3. OwedIsKept'
  BY DEF OwedIsKept, Start
<1>4. QED
  BY <1>1, <1>2, <1>3 DEF IInv

LEMMA FinishIInv ==
  ASSUME IInv, NEW t \in Threads, Finish(t)
  PROVE  IInv'
<1>1. TypeOK'
  BY DEF IInv, TypeOK, Finish, Goto
<1>2. Runners = {t}
  BY DEF IInv, OneRunner, Runners, Finish
<1>3. OneRunner'
  BY <1>2 DEF IInv, TypeOK, OneRunner, Finish, Goto, Runners
<1>4. ~AboutToRun
  BY <1>2 DEF AboutToRun, Runners, Finish
<1>5. OwedIsKept'
  BY <1>4 DEF IInv, TypeOK, OwedIsKept, AboutToRun, Finish, Goto
<1>6. QED
  BY <1>1, <1>3, <1>5 DEF IInv

LEMMA AgainIInv ==
  ASSUME IInv, NEW t \in Threads, Again(t)
  PROVE  IInv'
<1>1. TypeOK'
  BY DEF IInv, TypeOK, Again, Goto
<1>2. Runners = {t}
  BY DEF IInv, OneRunner, Runners, Again
<1>3. OneRunner'
  BY <1>2 DEF IInv, TypeOK, OneRunner, Again, Goto, Runners
<1>4. pc'[t] \in {"spawn", "start"}
  BY DEF IInv, TypeOK, Again, Goto
<1>5. OwedIsKept'
  BY <1>4 DEF OwedIsKept, AboutToRun
<1>6. QED
  BY <1>1, <1>3, <1>5 DEF IInv

LEMMA NextIInv == IInv /\ [Next]_vars => IInv'
<1> SUFFICES ASSUME IInv, [Next]_vars PROVE IInv'
  OBVIOUS
<1>1. ASSUME NEW t \in Callers, NEW m \in Methods, Call(t, m) PROVE IInv'
  BY <1>1, CallIInv
<1>2. ASSUME NEW t \in Threads, Step(t) PROVE IInv'
  BY <1>2, MarkIInv, TryIInv, SpawnIInv, StartIInv, FinishIInv, AgainIInv DEF Step
<1>3. CASE UNCHANGED vars
  BY <1>3 DEF IInv, TypeOK, OneRunner, OwedIsKept, AboutToRun,
     Runners, vars
<1>4. QED
  BY <1>1, <1>2, <1>3 DEF Next

THEOREM Invariant == Spec => []IInv
BY InitIInv, NextIInv, PTL DEF Spec

\* The fields keep their types, for any number of threads.
THEOREM TypeCorrect == Spec => []TypeOK
<1>1. IInv => TypeOK
  BY DEF IInv
<1>2. QED
  BY <1>1, Invariant, PTL

\* No two threads ever execute the action together (ExecuteAction).
THEOREM Exclusion == Spec => []MutualExclusion
<1>1. IInv => MutualExclusion
  BY DEF IInv, OneRunner, Runners, MutualExclusion
<1>2. QED
  BY <1>1, Invariant, PTL

\* A request is never forgotten, whatever race its caller loses (Run, RunOnce,
\* RunOnceAsync).
THEOREM RequestsKept == Spec => []NoRequestLost
<1>1. IInv => NoRequestLost
  BY DEF IInv, TypeOK, OwedIsKept, AboutToRun, NoRequestLost
<1>2. QED
  BY <1>1, Invariant, PTL

\* Only the thread that ends an execution takes up the pending one
\* (SynchronizedOperation.cpp:104).
THEOREM PendingIsTakenByRunner == Spec => PendingTakenByRunner
<1> DEFINE A == state = "Pending" /\ state' # "Pending" =>
                  \E t \in Threads : pc[t] = "again" /\ pc'[t] # "again"
<1>1. IInv /\ [Next]_vars => [A]_vars
  BY DEF IInv, TypeOK, Next, Step, Call, Mark, Try, Spawn, Start, Finish, Again, Goto, vars
<1>2. QED
  BY <1>1, Invariant, PTL DEF Spec, PendingTakenByRunner

-----------------------------------------------------------------------------
(* Timer *)

Owners == {"new", "create", "enable", "armed", "disable", "stopped"}
Places == {"none", "test", "read", "woken", "callback", "exited"}

TimerTypeOK ==
  /\ owner \in Owners
  /\ armed \in {"no"} \cup Periods
  /\ expired \in BOOLEAN
  /\ enabled \in BOOLEAN
  /\ created \in Nat
  /\ poll \in [PollThreads -> Places]

\* From the moment Stop clears the descriptor until the timer is armed again.
ClearedOK == owner \in {"disable", "stopped"} => armed = "no" /\ ~expired

TimerInv == TimerTypeOK /\ ClearedOK

LEMMA TimerInitOK == TimerInit => TimerInv
<1> SUFFICES ASSUME TimerInit PROVE TimerInv
  OBVIOUS
<1>1. enabled \in BOOLEAN /\ poll \in [PollThreads -> Places]
  BY DEF TimerInit, Places
<1>2. owner = "new" /\ armed = "no" /\ expired = FALSE /\ created = 0
  BY DEF TimerInit
<1>3. QED
  BY <1>1, <1>2 DEF TimerInv, TimerTypeOK, ClearedOK, Owners

\* A polling thread only changes its own place and takes expirations.
LEMMA PollThreadOK ==
  ASSUME TimerInv, NEW i \in PollThreads, PollThread(i) PROVE TimerInv'
<1>1. /\ UNCHANGED << owner, armed, enabled, created >>
      /\ expired' = expired \/ expired' = FALSE
  BY DEF PollThread, TestEnabled, Read, BeginCallback, Callback
<1>2. poll' \in [PollThreads -> Places]
  BY DEF TimerInv, TimerTypeOK, PollThread, TestEnabled, Read, BeginCallback, Callback, Places
<1>3. TimerTypeOK'
  BY <1>1, <1>2 DEF TimerInv, TimerTypeOK
<1>4. ClearedOK'
  BY <1>1 DEF TimerInv, TimerTypeOK, ClearedOK
<1>5. QED
  BY <1>3, <1>4 DEF TimerInv

LEMMA TimerStepOK == TimerInv /\ [TimerNext]_timerVars => TimerInv'
<1> SUFFICES ASSUME TimerInv, [TimerNext]_timerVars PROVE TimerInv'
  OBVIOUS
<1> USE DEF TimerInv, TimerTypeOK, ClearedOK, Owners
<1>1. ASSUME NEW period \in Periods, Change(period) PROVE TimerInv'
  BY <1>1 DEF Change
<1>2. CASE Stop
  BY <1>2 DEF Stop
<1>3. CASE CreateThread
  <2>1. created' \in Nat
    BY <1>3 DEF CreateThread
  <2>2. poll' \in [PollThreads -> Places]
    BY <1>3 DEF CreateThread, Places
  <2>3. owner' = "enable" /\ UNCHANGED << armed, expired, enabled >>
    BY <1>3 DEF CreateThread
  <2>4. QED
    BY <2>1, <2>2, <2>3
<1>4. CASE Enable
  BY <1>4 DEF Enable
<1>5. CASE Disable
  BY <1>5 DEF Disable
<1>6. CASE Expire
  BY <1>6 DEF Expire
<1>7. ASSUME NEW i \in PollThreads, PollThread(i) PROVE TimerInv'
  BY <1>7, PollThreadOK
<1>8. CASE UNCHANGED timerVars
  BY <1>8 DEF timerVars
<1>9. QED
  BY <1>1, <1>2, <1>3, <1>4, <1>5, <1>6, <1>7, <1>8 DEF TimerNext, OwnerGoesOn

\* Types, and a cleared descriptor stays clear while the timer is stopped.
THEOREM TimerInvariant == TimerSpec => []TimerInv
<1>1. QED
  BY TimerInitOK, TimerStepOK, PTL DEF TimerSpec

\* However often the timer was armed and however many polling threads that has
\* left behind, none returns from its read once Stop has returned, and so each
\* begins one more callback at most (Timer.cpp, Stop).
THEOREM StopCorrect == TimerSpec => StopTakesEffect
<1> DEFINE Quiet == owner = "stopped" => CallingBack' \subseteq CallingBack
<1>1. TimerInv /\ [TimerNext]_timerVars => [Quiet]_timerVars
  <2> SUFFICES ASSUME TimerInv, TimerNext, owner = "stopped", NEW i \in PollThreads,
                      poll'[i] \in {"woken", "callback"}
               PROVE  poll[i] \in {"woken", "callback"}
    BY DEF CallingBack
  <2>1. poll \in [PollThreads -> Places] /\ ~expired
    BY DEF TimerInv, TimerTypeOK, ClearedOK
  <2>2. CASE (\E period \in Periods : Change(period)) \/ Stop \/ OwnerGoesOn \/ Expire
    BY <2>2 DEF Change, Stop, OwnerGoesOn, CreateThread, Enable, Disable, Expire
  <2>3. ASSUME NEW j \in PollThreads, PollThread(j) PROVE poll[i] \in {"woken", "callback"}
    BY <2>1, <2>3 DEF PollThread, TestEnabled, Read, BeginCallback, Callback
  <2>4. QED
    BY <2>2, <2>3 DEF TimerNext
<1>2. QED
  BY TimerInvariant, <1>1, PTL DEF TimerSpec, StopTakesEffect

=============================================================================
