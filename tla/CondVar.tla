------------------------------ MODULE CondVar -------------------------------
(***************************************************************************)
(* What a condition variable and its mutex promise.  A call to wait gives  *)
(* the mutex up and sleeps in one step; a broadcast takes effect once, at  *)
(* some moment of the call, and wakes every thread that sleeps then; a     *)
(* signal wakes one of them, if there is one.  Nothing else wakes anybody. *)
(***************************************************************************)
CONSTANT Threads

VARIABLES
  state,   \* state[t]: "out", "in" (has the mutex), "waiting", "woken"
  call     \* call[t]: "none", "broadcast", "signal", or "done": to return

vars == <<state, call>>

Init ==
  /\ state = [t \in Threads |-> "out"]
  /\ call = [t \in Threads |-> "none"]

Free     == \A t \in Threads : state[t] # "in"
Sleeping == {t \in Threads : state[t] = "waiting"}

Moves(t, from, to) == state[t] = from /\ state' = [state EXCEPT ![t] = to]
Idle(t)            == call[t] = "none" /\ UNCHANGED call

Lock(t)   == Idle(t) /\ Free /\ Moves(t, "out", "in")
Unlock(t) == Idle(t) /\ Moves(t, "in", "out")
Wait(t)   == Idle(t) /\ Moves(t, "in", "waiting")
Relock(t) == Idle(t) /\ Free /\ Moves(t, "woken", "in")

Begin(t) ==
  /\ call[t] = "none" /\ state[t] \in {"in", "out"}
  /\ \E kind \in {"broadcast", "signal"} : call' = [call EXCEPT ![t] = kind]
  /\ UNCHANGED state

Wake(S) == state' = [t \in Threads |-> IF t \in S THEN "woken" ELSE state[t]]

Broadcast(t) ==
  /\ call[t] = "broadcast"
  /\ Wake(Sleeping)
  /\ call' = [call EXCEPT ![t] = "done"]

Signal(t) ==
  /\ call[t] = "signal"
  /\ IF Sleeping = {} THEN UNCHANGED state ELSE \E u \in Sleeping : Wake({u})
  /\ call' = [call EXCEPT ![t] = "done"]

Return(t) ==
  /\ call[t] = "done"
  /\ call' = [call EXCEPT ![t] = "none"]
  /\ UNCHANGED state

Next == \E t \in Threads :
  \/ Lock(t) \/ Unlock(t) \/ Wait(t) \/ Relock(t)
  \/ Begin(t) \/ Broadcast(t) \/ Signal(t) \/ Return(t)

Spec == Init /\ [][Next]_vars
=============================================================================
