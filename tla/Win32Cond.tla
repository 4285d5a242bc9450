----------------------------- MODULE Win32Cond ------------------------------
(***************************************************************************)
(* The condition variables x264 builds itself on Windows before version 6  *)
(* (common/win32thread.c): a semaphore, a count of the waiters and an      *)
(* event by which the last one of them tells the broadcaster.  Used by     *)
(* threads that hold the mutex of the condition or, as                     *)
(* x264_sync_frame_list_push does, wake others without it.                 *)
(*                                                                         *)
(* What is done under mtx_waiter_count is one step.  Semaphore, event and  *)
(* critical section are external.                                          *)
(* Bug_X is a wrong variant of the definition below it, not used by Spec.  *)
(***************************************************************************)
EXTENDS Naturals

CONSTANTS Threads, NoThread

ASSUME Win32CondAssumption == NoThread \notin Threads

VARIABLES
  pc,           \* where each thread is; "idle" outside of the calls
  mutex,        \* the mutex that goes with the condition: who has it
  mtxBroadcast, \* mtx_broadcast: who has it
  waiterCount, isBroadcast,
  semaphore,    \* its value
  waitersDone   \* the event is set

cond == <<waiterCount, isBroadcast, semaphore, waitersDone>>
vars == <<pc, mutex, mtxBroadcast, cond>>

Init ==                                            \* x264_pthread_cond_init
  /\ pc = [t \in Threads |-> "idle"]
  /\ mutex = NoThread /\ mtxBroadcast = NoThread
  /\ waiterCount = 0 /\ isBroadcast = FALSE
  /\ semaphore = 0 /\ waitersDone = FALSE

Goto(t, from, to) == pc[t] = from /\ pc' = [pc EXCEPT ![t] = to]

-----------------------------------------------------------------------------
(* The user of the condition                                               *)
Lock(t) ==
  /\ pc[t] = "idle" /\ mutex = NoThread /\ mutex' = t
  /\ UNCHANGED <<pc, mtxBroadcast, cond>>

Unlock(t) ==
  /\ pc[t] = "idle" /\ mutex = t /\ mutex' = NoThread
  /\ UNCHANGED <<pc, mtxBroadcast, cond>>

Call(t) ==
  /\ \/ mutex = t /\ Goto(t, "idle", "wait")
     \/ Goto(t, "idle", "broadcast")
     \/ Goto(t, "idle", "signal")
  /\ UNCHANGED <<mutex, mtxBroadcast, cond>>

-----------------------------------------------------------------------------
(* x264_pthread_cond_wait *)
Wait(t) ==
  /\ Goto(t, "wait", "counted")
  /\ mtxBroadcast = NoThread
  /\ waiterCount' = waiterCount + 1
  /\ UNCHANGED <<mutex, mtxBroadcast, isBroadcast, semaphore, waitersDone>>

WaitUnlock(t) ==
  /\ Goto(t, "counted", "asleep")
  /\ mutex' = NoThread
  /\ UNCHANGED <<mtxBroadcast, cond>>

WaitSemaphore(t) ==
  /\ Goto(t, "asleep", "awake")
  /\ semaphore > 0 /\ semaphore' = semaphore - 1
  /\ UNCHANGED <<mutex, mtxBroadcast, waiterCount, isBroadcast, waitersDone>>

(* last_waiter, where n waiters are left                                   *)
Bug_Everyone(n) == TRUE
Bug_OnlyLast(n) == n = 0
LastWaiter(n)   == n = 0 \/ ~isBroadcast

WaitCount(t) ==
  /\ Goto(t, "awake", IF LastWaiter(waiterCount - 1) THEN "tell" ELSE "relock")
  /\ waiterCount' = waiterCount - 1
  /\ UNCHANGED <<mutex, mtxBroadcast, isBroadcast, semaphore, waitersDone>>

WaitTell(t) ==
  /\ Goto(t, "tell", "relock")
  /\ waitersDone' = TRUE
  /\ UNCHANGED <<mutex, mtxBroadcast, waiterCount, isBroadcast, semaphore>>

WaitRelock(t) ==
  /\ Goto(t, "relock", "idle")
  /\ mutex = NoThread /\ mutex' = t
  /\ UNCHANGED <<mtxBroadcast, cond>>

-----------------------------------------------------------------------------
(* x264_pthread_cond_broadcast and _signal *)
LockBroadcast(t) ==
  /\ Goto(t, "broadcast", "release") \/ Goto(t, "signal", "look")
  /\ mtxBroadcast = NoThread /\ mtxBroadcast' = t
  /\ UNCHANGED <<mutex, cond>>

NobodyThere(t) ==
  /\ Goto(t, "release", "leave") \/ Goto(t, "look", "leave")
  /\ waiterCount = 0
  /\ UNCHANGED <<mutex, mtxBroadcast, cond>>

ReleaseAll(t) ==
  /\ Goto(t, "release", "released")
  /\ waiterCount > 0
  /\ isBroadcast' = TRUE
  /\ semaphore' = semaphore + waiterCount
  /\ UNCHANGED <<mutex, mtxBroadcast, waiterCount, waitersDone>>

SomebodyThere(t) ==
  /\ Goto(t, "look", "releaseOne")
  /\ waiterCount > 0
  /\ UNCHANGED <<mutex, mtxBroadcast, cond>>

ReleaseOne(t) ==
  /\ Goto(t, "releaseOne", "releasedOne")
  /\ semaphore' = semaphore + 1
  /\ UNCHANGED <<mutex, mtxBroadcast, waiterCount, isBroadcast, waitersDone>>

(* The event resets itself.                                                *)
Told(t) ==
  /\ Goto(t, "released", "clear") \/ Goto(t, "releasedOne", "leave")
  /\ waitersDone /\ waitersDone' = FALSE
  /\ UNCHANGED <<mutex, mtxBroadcast, waiterCount, isBroadcast, semaphore>>

Clear(t) ==
  /\ Goto(t, "clear", "leave")
  /\ isBroadcast' = FALSE
  /\ UNCHANGED <<mutex, mtxBroadcast, waiterCount, semaphore, waitersDone>>

Leave(t) ==
  /\ Goto(t, "leave", "idle")
  /\ mtxBroadcast' = NoThread
  /\ UNCHANGED <<mutex, cond>>

-----------------------------------------------------------------------------
InCall(t) ==
  \/ Wait(t) \/ WaitUnlock(t) \/ WaitSemaphore(t) \/ WaitCount(t) \/ WaitTell(t)
  \/ WaitRelock(t) \/ LockBroadcast(t) \/ NobodyThere(t) \/ ReleaseAll(t)
  \/ SomebodyThere(t) \/ ReleaseOne(t) \/ Told(t) \/ Clear(t) \/ Leave(t)

Next == \E t \in Threads : Lock(t) \/ Unlock(t) \/ Call(t) \/ InCall(t)

Spec == Init /\ [][Next]_vars

(* A thread in a call goes on when it can.                                 *)
FairSpec == Spec /\ \A t \in Threads : WF_vars(InCall(t))

-----------------------------------------------------------------------------
(* A thread is woken by a broadcast when the semaphore is released for it, *)
(* and by a signal when it gets through the semaphore.                     *)
stateBar ==
  [t \in Threads |->
     CASE pc[t] \in {"counted", "asleep"} -> IF isBroadcast THEN "woken" ELSE "waiting"
       [] pc[t] \in {"awake", "tell", "relock"} -> "woken"
       [] OTHER -> IF mutex = t THEN "in" ELSE "out"]

callBar ==
  [t \in Threads |->
     CASE pc[t] \in {"broadcast", "release"} -> "broadcast"
       [] pc[t] \in {"signal", "look", "releaseOne"} -> "signal"
       [] pc[t] = "releasedOne" -> IF semaphore > 0 THEN "signal" ELSE "done"
       [] pc[t] \in {"released", "clear", "leave"} -> "done"
       [] OTHER -> "none"]

(* No wake-up is lost, and none goes to a thread that came too late: a     *)
(* broadcast wakes those who wait, a signal one of them, and nobody wakes  *)
(* without.                                                                *)
Abstract == INSTANCE CondVar WITH state <- stateBar, call <- callBar
ImplementsCondVar == Abstract!Spec

(* Who wakes others comes back, also with the mutex in hand: the waiters   *)
(* tell it without the mutex.                                              *)
BroadcastEnds == \A t \in Threads : (mtxBroadcast = t) ~> (mtxBroadcast # t)
=============================================================================
