------------------------------ MODULE TaskPool ------------------------------
(***************************************************************************)
(* What common/threadpool.c promises its caller, without threads, locks,   *)
(* lists or job objects: tasks named by their argument are started in the  *)
(* order they were submitted, at most Threads of them at a time, and a     *)
(* wait on an argument returns the result its own task computed.  Nothing  *)
(* is submitted or collected once the pool is being deleted; what was      *)
(* still queued then may or may not be started.                            *)
(*                                                                         *)
(* ThreadPool.tla implements this specification (property                  *)
(* ImplementsTaskPool there).                                              *)
(***************************************************************************)
EXTENDS Integers, Sequences, FiniteSets

CONSTANTS Threads,   \* number of threads of the pool
          Args,      \* the arguments tasks are submitted with
          Results,   \* what a task can return
          NoResult   \* "nothing computed yet"

VARIABLES phase,     \* phase[a]: how far the task of argument a has come
          queue,     \* arguments of the submitted tasks not yet started
          result,    \* result[a]: what the task of a computed
          returned,  \* the value of the last wait that returned
          open       \* FALSE once the pool is being deleted

vars == <<phase, queue, result, returned, open>>

Init ==
  /\ phase = [a \in Args |-> "free"]
  /\ queue = <<>>
  /\ result = [a \in Args |-> NoResult]
  /\ returned = NoResult
  /\ open = TRUE

Submit(a) ==
  /\ open
  /\ phase[a] = "free"
  /\ phase' = [phase EXCEPT ![a] = "queued"]
  /\ queue' = Append(queue, a)
  /\ UNCHANGED <<result, returned, open>>

Start ==
  /\ queue # <<>>
  /\ Cardinality({a \in Args : phase[a] \in {"started", "computed"}}) < Threads
  /\ phase' = [phase EXCEPT ![Head(queue)] = "started"]
  /\ queue' = Tail(queue)
  /\ UNCHANGED <<result, returned, open>>

Compute(a) ==
  /\ phase[a] = "started"
  /\ phase' = [phase EXCEPT ![a] = "computed"]
  /\ \E r \in Results : result' = [result EXCEPT ![a] = r]
  /\ UNCHANGED <<queue, returned, open>>

Finish(a) ==
  /\ phase[a] = "computed"
  /\ phase' = [phase EXCEPT ![a] = "finished"]
  /\ UNCHANGED <<queue, result, returned, open>>

Collect(a) ==
  /\ open
  /\ phase[a] = "finished"
  /\ phase' = [phase EXCEPT ![a] = "free"]
  /\ returned' = result[a]
  /\ result' = [result EXCEPT ![a] = NoResult]
  /\ UNCHANGED <<queue, open>>

Shutdown ==
  /\ open
  /\ open' = FALSE
  /\ UNCHANGED <<phase, queue, result, returned>>

Next ==
  \/ \E a \in Args : Submit(a) \/ Compute(a) \/ Finish(a) \/ Collect(a)
  \/ Start
  \/ Shutdown

Spec == Init /\ [][Next]_vars
=============================================================================
