-------------------------------- MODULE Timer --------------------------------
(***************************************************************************)
(* Timer.cpp: a timer descriptor and a thread that reads it and calls      *)
(* back.  The owner arms the timer with Change and disarms it with Stop    *)
(* (Change with zero times); each Change that arms it creates one more     *)
(* polling thread.  Deleting a Thread object does not cancel its thread    *)
(* (cancelOnDestruct is false by default), so the deletion in Change is    *)
(* not a step of the model.                                                *)
(***************************************************************************)
EXTENDS Naturals

CONSTANTS
  InitialEnabled, \* what the uninitialized m_enabled may hold at first
  MaxChanges      \* bound: calls of Change that arm the timer

ASSUME TimerAssumption == InitialEnabled \subseteq BOOLEAN /\ MaxChanges \in Nat

Periods == {"once", "periodic"}
PollThreads == 1 .. MaxChanges

VARIABLES
  owner,     \* where the owner is: "new", "create", "enable", "armed", "disable", "stopped"
  armed,     \* how the descriptor is armed: "no" or one of Periods
  expired,   \* whether the descriptor has expirations to read
  enabled,   \* m_enabled
  created,   \* number of polling threads created
  poll       \* where each polling thread is

timerVars == << owner, armed, expired, enabled, created, poll >>

TimerInit ==
  /\ owner = "new"
  /\ armed = "no"
  /\ expired = FALSE
  /\ enabled \in InitialEnabled
  /\ created = 0
  /\ poll = [i \in PollThreads |-> "none"]

\* Change with nonzero times sets the descriptor ...
Change(period) ==
  /\ owner \in {"new", "armed", "stopped"}
  /\ created < MaxChanges
  /\ armed' = period
  /\ expired' = FALSE
  /\ owner' = "create"
  /\ UNCHANGED << enabled, created, poll >>

\* ... creates the polling thread ...
CreateThread ==
  /\ owner = "create"
  /\ created' = created + 1
  /\ poll' = [poll EXCEPT ![created + 1] = "test"]
  /\ owner' = "enable"
  /\ UNCHANGED << armed, expired, enabled >>

\* ... and only then enables it.
Enable ==
  /\ owner = "enable"
  /\ enabled' = TRUE
  /\ owner' = "armed"
  /\ UNCHANGED << armed, expired, created, poll >>

\* Faulty variant: Stop leaves the descriptor armed.
Stop_LeavesArmed ==
  /\ owner \in {"new", "armed", "stopped"}
  /\ owner' = "disable"
  /\ UNCHANGED << armed, expired, enabled, created, poll >>

\* Stop clears the descriptor ...
Stop ==
  /\ owner \in {"new", "armed", "stopped"}
  /\ armed' = "no"
  /\ expired' = FALSE
  /\ owner' = "disable"
  /\ UNCHANGED << enabled, created, poll >>

\* ... and then the flag the polling threads look at.
Disable ==
  /\ owner = "disable"
  /\ enabled' = FALSE
  /\ owner' = "stopped"
  /\ UNCHANGED << armed, expired, created, poll >>

Expire ==
  /\ armed # "no"
  /\ expired' = TRUE
  /\ armed' = IF armed = "once" THEN "no" ELSE armed
  /\ UNCHANGED << owner, enabled, created, poll >>

\* Loop condition of TimerPoll
TestEnabled(i) ==
  /\ poll[i] = "test"
  /\ poll' = [poll EXCEPT ![i] = IF enabled THEN "read" ELSE "exited"]
  /\ UNCHANGED << owner, armed, expired, enabled, created >>

\* The read blocks until there are expirations and takes all of them.
Read(i) ==
  /\ poll[i] = "read"
  /\ expired
  /\ expired' = FALSE
  /\ poll' = [poll EXCEPT ![i] = "woken"]
  /\ UNCHANGED << owner, armed, enabled, created >>

\* The thread calls back, whatever has become of the timer since its read.
BeginCallback(i) ==
  /\ poll[i] = "woken"
  /\ poll' = [poll EXCEPT ![i] = "callback"]
  /\ UNCHANGED << owner, armed, expired, enabled, created >>

\* The callback returns.
Callback(i) ==
  /\ poll[i] = "callback"
  /\ poll' = [poll EXCEPT ![i] = "test"]
  /\ UNCHANGED << owner, armed, expired, enabled, created >>

OwnerGoesOn == CreateThread \/ Enable \/ Disable

PollThread(i) == TestEnabled(i) \/ Read(i) \/ BeginCallback(i) \/ Callback(i)

TimerNext ==
  \/ \E period \in Periods : Change(period)
  \/ Stop
  \/ OwnerGoesOn
  \/ Expire
  \/ \E i \in PollThreads : PollThread(i)

TimerSpec == TimerInit /\ [][TimerNext]_timerVars

-----------------------------------------------------------------------------
(* Properties *)

\* Threads with a callback before them or under way.
CallingBack == {i \in PollThreads : poll[i] \in {"woken", "callback"}}

\* Once Stop has returned no polling thread, not even one left over from an
\* earlier Change, comes to call back: what may still run, or even begin, is one
\* callback of each thread whose read had returned before (Stop, TimerPoll).
StopTakesEffect == [][owner = "stopped" => CallingBack' \subseteq CallingBack]_timerVars

=============================================================================
