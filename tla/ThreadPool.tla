----------------------------- MODULE ThreadPool -----------------------------
(***************************************************************************)
(* The thread pool of x264 (common/threadpool.c) over the synchronised     *)
(* lists of common/frame.c.  A pool owns as many job objects as threads.   *)
(* A job is always in one of the lists uninit (free), run (queued) and     *)
(* done (finished), or in the hands of one thread.                         *)
(*                                                                         *)
(* A step is one critical section, or one access outside of the critical   *)
(* sections; a thread between two steps is at a program counter.  The      *)
(* condition variables are explicit: waits[p] is the one p sleeps on.      *)
(* An operator named Bug_X is a wrong variant of the definition below it,  *)
(* which the specification does not use; it serves to show that the        *)
(* properties can fail.                                                    *)
(*                                                                         *)
(* Every pool has a single client: the encoding thread (h->threadpool),    *)
(* the lookahead (h->lookaheadpool), the input reader (input/thread.c).    *)
(* The client never runs an argument again before it waited for it         *)
(* (b_thread_active), and it has at most as many arguments as the pool     *)
(* has threads: one context or slice range per thread.                     *)
(***************************************************************************)
EXTENDS Integers, Sequences, SequencesExt, FiniteSets

CONSTANTS Threads,   \* pool->threads, and the number of job objects
          Args,      \* the arguments the client runs jobs with
          NoArg,     \* job->arg before its first use
          NoJob      \* "holds no job"

Results  == {"ok", "error"}
NoResult == "none"

ASSUME PoolAssumption ==
  /\ Threads \in Nat \ {0}
  /\ IsFiniteSet(Args)
  /\ Cardinality(Args) <= Threads
  /\ NoArg \notin Args
  /\ NoJob \notin 1..Threads

Jobs    == 1..Threads
Workers == 1..Threads
Client  == 0
Procs   == Workers \cup {Client}

Lists  == {"uninit", "run", "done"}
Fill(l)  == <<l, "cv_fill">>
Empty(l) == <<l, "cv_empty">>
Awake    == <<"none", "none">>
Conds    == {Fill(l) : l \in Lists} \cup {Empty(l) : l \in Lists}

WorkerPCs == {"top", "take", "exec", "push", "signal", "exited"}
ClientPCs == {"idle", "pop", "enqueue", "enqSignal",
              "scan", "recycle", "recSignal", "join", "closed"}

VARIABLES
  exit,      \* pool->exit
  list,      \* list[l]: the jobs of list l; slist->i_size is its length
  jarg,      \* jarg[j]: job->arg
  jret,      \* jret[j]: job->ret
  pc,        \* pc[p]: where thread p is
  job,       \* job[p]: the local variable job of p
  waits,     \* waits[p]: the condition variable p sleeps on, or Awake
  callArg,   \* argument of the client's current call
  active,    \* arguments the client ran and has not waited for
  retval,    \* what the client's last wait returned
  outcome    \* history: outcome[a], what the last run of a computed

vars == <<exit, list, jarg, jret, pc, job, waits,
          callArg, active, retval, outcome>>

clientVars == <<callArg, active, retval>>

-----------------------------------------------------------------------------
Ready(p, at) == pc[p] = at /\ waits[p] = Awake

Sleep(p, c)  == waits' = [waits EXCEPT ![p] = c]

Broadcast(c) == waits' = [p \in Procs |-> IF waits[p] = c THEN Awake ELSE waits[p]]

(* Thread p takes the job at position i out of list l.                     *)
Bug_TakeKeeps(p, l, i) ==
  /\ job' = [job EXCEPT ![p] = list[l][i]]
  /\ UNCHANGED list

TakeAt(p, l, i) ==
  /\ job' = [job EXCEPT ![p] = list[l][i]]
  /\ list' = [list EXCEPT ![l] = RemoveAt(@, i)]

Bug_FullOneEarly(l) == Len(list[l]) = Threads - 1

IsFull(l) == Len(list[l]) = Threads

(* The critical section of x264_sync_frame_list_push: p appends the job it *)
(* holds to list l, or goes to sleep until some pop makes room.  The       *)
(* caller broadcasts cv_fill in a step of its own, after the unlock.       *)
Push(p, l, next) ==
  IF IsFull(l)
  THEN /\ Sleep(p, Empty(l))
       /\ UNCHANGED <<list, pc, job>>
  ELSE /\ list' = [list EXCEPT ![l] = Append(@, job[p])]
       /\ job' = [job EXCEPT ![p] = NoJob]
       /\ pc' = [pc EXCEPT ![p] = next]
       /\ UNCHANGED waits

(* The broadcast that follows the unlock of a push.                        *)
Bug_NoSignal(p, at, l, next) ==
  /\ Ready(p, at)
  /\ pc' = [pc EXCEPT ![p] = next]
  /\ UNCHANGED <<exit, list, jarg, jret, job, waits, clientVars, outcome>>

PushSignal(p, at, l, next) ==
  /\ Ready(p, at)
  /\ Broadcast(Fill(l))
  /\ pc' = [pc EXCEPT ![p] = next]
  /\ UNCHANGED <<exit, list, jarg, jret, job, clientVars, outcome>>

-----------------------------------------------------------------------------
(* x264_threadpool_init: all jobs are free, all threads at their loop.     *)
Init ==
  /\ exit = FALSE
  /\ list = [l \in Lists |-> IF l = "uninit" THEN [i \in 1..Threads |-> i] ELSE <<>>]
  /\ jarg = [j \in Jobs |-> NoArg]
  /\ jret = [j \in Jobs |-> NoResult]
  /\ pc = [p \in Procs |-> IF p = Client THEN "idle" ELSE "top"]
  /\ job = [p \in Procs |-> NoJob]
  /\ waits = [p \in Procs |-> Awake]
  /\ callArg = NoArg
  /\ active = {}
  /\ retval = NoResult
  /\ outcome = [a \in Args |-> NoResult]

-----------------------------------------------------------------------------
(* x264_threadpool_thread *)

(* while( !pool->exit ), read without the lock.                            *)
WorkerLoop(w) ==
  /\ Ready(w, "top")
  /\ pc' = [pc EXCEPT ![w] = IF exit THEN "exited" ELSE "take"]
  /\ UNCHANGED <<exit, list, jarg, jret, job, waits, clientVars, outcome>>

(* x264_frame_shift takes the oldest job.                                  *)
Bug_Newest(l) == Len(list[l])
Oldest(l)     == 1

(* The critical section: sleep while there is nothing to do, else shift    *)
(* the oldest job.  The size goes down without a signal on cv_empty.       *)
WorkerTake(w) ==
  /\ Ready(w, "take")
  /\ \/ /\ list["run"] # <<>>
        /\ TakeAt(w, "run", Oldest("run"))
        /\ pc' = [pc EXCEPT ![w] = "exec"]
        /\ UNCHANGED waits
     \/ /\ list["run"] = <<>>
        /\ exit
        /\ pc' = [pc EXCEPT ![w] = "top"]
        /\ UNCHANGED <<list, job, waits>>
     \/ /\ list["run"] = <<>>
        /\ ~exit
        /\ Sleep(w, Fill("run"))
        /\ UNCHANGED <<list, job, pc>>
  /\ UNCHANGED <<exit, jarg, jret, clientVars, outcome>>

(* job->ret = job->func( job->arg )                                        *)
Bug_ExecDropsRet(w) ==
  /\ Ready(w, "exec")
  /\ \E r \in Results : outcome' = [outcome EXCEPT ![jarg[job[w]]] = r]
  /\ pc' = [pc EXCEPT ![w] = "push"]
  /\ UNCHANGED <<exit, list, jarg, jret, job, waits, clientVars>>

WorkerExec(w) ==
  /\ Ready(w, "exec")
  /\ \E r \in Results :
        /\ jret' = [jret EXCEPT ![job[w]] = r]
        /\ outcome' = [outcome EXCEPT ![jarg[job[w]]] = r]
  /\ pc' = [pc EXCEPT ![w] = "push"]
  /\ UNCHANGED <<exit, list, jarg, job, waits, clientVars>>

WorkerPush(w) ==
  /\ Ready(w, "push")
  /\ Push(w, "done", "signal")
  /\ UNCHANGED <<exit, jarg, jret, clientVars, outcome>>

WorkerSignal(w) == PushSignal(w, "signal", "done", "top")

-----------------------------------------------------------------------------
(* x264_threadpool_run( pool, func, a ) *)

Bug_MayAlwaysRun(a) == TRUE
MayRun(a)           == a \notin active

RunCall(a) ==
  /\ Ready(Client, "idle")
  /\ MayRun(a)
  /\ active' = active \cup {a}
  /\ callArg' = a
  /\ outcome' = [outcome EXCEPT ![a] = NoResult]
  /\ pc' = [pc EXCEPT ![Client] = "pop"]
  /\ UNCHANGED <<exit, list, jarg, jret, job, waits, retval>>

(* x264_sync_frame_list_pop( &pool->uninit ): last in, first out, with a   *)
(* broadcast of cv_empty inside the critical section; then the job, which  *)
(* no other thread can reach now, is filled in.                            *)
RunPop ==
  /\ Ready(Client, "pop")
  /\ \/ /\ list["uninit"] = <<>>
        /\ Sleep(Client, Fill("uninit"))
        /\ UNCHANGED <<list, job, jarg, pc>>
     \/ /\ list["uninit"] # <<>>
        /\ TakeAt(Client, "uninit", Len(list["uninit"]))
        /\ jarg' = [jarg EXCEPT ![Last(list["uninit"])] = callArg]
        /\ Broadcast(Empty("uninit"))
        /\ pc' = [pc EXCEPT ![Client] = "enqueue"]
  /\ UNCHANGED <<exit, jret, clientVars, outcome>>

RunPush ==
  /\ Ready(Client, "enqueue")
  /\ Push(Client, "run", "enqSignal")
  /\ UNCHANGED <<exit, jarg, jret, clientVars, outcome>>

RunSignal == PushSignal(Client, "enqSignal", "run", "idle")

-----------------------------------------------------------------------------
(* x264_threadpool_wait( pool, a ) *)

(* Callers clear b_thread_active before they wait.                         *)
WaitCall(a) ==
  /\ Ready(Client, "idle")
  /\ a \in active
  /\ active' = active \ {a}
  /\ callArg' = a
  /\ pc' = [pc EXCEPT ![Client] = "scan"]
  /\ UNCHANGED <<exit, list, jarg, jret, job, waits, retval, outcome>>

Matches(a) == {i \in 1..Len(list["done"]) : jarg[list["done"][i]] = a}

(* The scan of the done list.  The loop does not stop at a match, so of    *)
(* several it would lose all but the last; DoneArgsDistinct says there     *)
(* are never several.                                                      *)
WaitScan ==
  /\ Ready(Client, "scan")
  /\ \/ /\ Matches(callArg) = {}
        /\ Sleep(Client, Fill("done"))
        /\ UNCHANGED <<list, job, pc>>
     \/ \E i \in Matches(callArg) :
          /\ TakeAt(Client, "done", i)
          /\ pc' = [pc EXCEPT ![Client] = "recycle"]
          /\ UNCHANGED waits
  /\ UNCHANGED <<exit, jarg, jret, clientVars, outcome>>

(* ret = job->ret, then the job goes back to the free list.                *)
Bug_ArgForRet(j) == jarg[j]
Ret(j)           == jret[j]

WaitPush ==
  /\ Ready(Client, "recycle")
  /\ retval' = IF IsFull("uninit") THEN retval ELSE Ret(job[Client])
  /\ Push(Client, "uninit", "recSignal")
  /\ UNCHANGED <<exit, jarg, jret, callArg, active, outcome>>

WaitSignal == PushSignal(Client, "recSignal", "uninit", "idle")

-----------------------------------------------------------------------------
(* x264_threadpool_delete: the client may call it with jobs outstanding    *)
(* (x264_encoder_close without a flush, close_file of input/thread.c).     *)

Bug_DeleteNoSignal ==
  /\ Ready(Client, "idle")
  /\ exit' = TRUE
  /\ pc' = [pc EXCEPT ![Client] = "join"]
  /\ UNCHANGED <<list, jarg, jret, job, waits, clientVars, outcome>>

DeleteCall ==
  /\ Ready(Client, "idle")
  /\ exit' = TRUE
  /\ Broadcast(Fill("run"))
  /\ pc' = [pc EXCEPT ![Client] = "join"]
  /\ UNCHANGED <<list, jarg, jret, job, clientVars, outcome>>

Bug_OneJoined == \E w \in Workers : pc[w] = "exited"
AllJoined     == \A w \in Workers : pc[w] = "exited"

DeleteJoin ==
  /\ Ready(Client, "join")
  /\ AllJoined
  /\ pc' = [pc EXCEPT ![Client] = "closed"]
  /\ UNCHANGED <<exit, list, jarg, jret, job, waits, clientVars, outcome>>

-----------------------------------------------------------------------------
WorkerStep(w) == \/ WorkerLoop(w) \/ WorkerTake(w) \/ WorkerExec(w)
                 \/ WorkerPush(w) \/ WorkerSignal(w)

(* What the client does inside of a call, as opposed to making one.        *)
ClientStep == \/ RunPop \/ RunPush \/ RunSignal
              \/ WaitScan \/ WaitPush \/ WaitSignal
              \/ DeleteJoin

ClientCall == \/ \E a \in Args : RunCall(a) \/ WaitCall(a)
              \/ DeleteCall

(* pthread_cond_wait may return without a signal.                          *)
SpuriousWakeup(p) ==
  /\ waits[p] # Awake
  /\ waits' = [waits EXCEPT ![p] = Awake]
  /\ UNCHANGED <<exit, list, jarg, jret, pc, job, clientVars, outcome>>

Terminated == pc[Client] = "closed" /\ UNCHANGED vars

Next == \/ \E w \in Workers : WorkerStep(w)
        \/ ClientStep
        \/ ClientCall
        \/ \E p \in Procs : SpuriousWakeup(p)
        \/ Terminated

(* A thread that can run, or can take a lock, eventually does; a job's     *)
(* function returns.  Nothing is assumed about spurious wakeups, nor that  *)
(* the client makes another call.                                          *)
Fairness == /\ \A w \in Workers : WF_vars(WorkerStep(w))
            /\ WF_vars(ClientStep)

Spec     == Init /\ [][Next]_vars
FairSpec == Spec /\ Fairness

-----------------------------------------------------------------------------
(* Properties *)

(* Type invariant.                                                         *)
TypeOK ==
  /\ exit \in BOOLEAN
  /\ list \in [Lists -> Seq(Jobs)]
  /\ jarg \in [Jobs -> Args \cup {NoArg}]
  /\ jret \in [Jobs -> Results \cup {NoResult}]
  /\ pc \in [Procs -> WorkerPCs \cup ClientPCs]
  /\ \A w \in Workers : pc[w] \in WorkerPCs
  /\ pc[Client] \in ClientPCs
  /\ job \in [Procs -> Jobs \cup {NoJob}]
  /\ waits \in [Procs -> Conds \cup {Awake}]
  /\ callArg \in Args \cup {NoArg}
  /\ active \subseteq Args
  /\ retval \in Results \cup {NoResult}
  /\ outcome \in [Args -> Results \cup {NoResult}]

(* The places a job can be: a position of a list, or a thread's variable.  *)
InList(j, l) == \E i \in 1..Len(list[l]) : list[l][i] = j
Holds(p, j)  == job[p] = j

(* Every job object is in exactly one place: in one list at one position,  *)
(* or in the hands of one thread.  A job in two places would be run or     *)
(* freed twice, a job in none is leaked and the pool one short for good.   *)
JobsConserved ==
  /\ \A j \in Jobs : (\E l \in Lists : InList(j, l)) \/ (\E p \in Procs : Holds(p, j))
  /\ \A l \in Lists : \A i, k \in 1..Len(list[l]) :
        list[l][i] = list[l][k] => i = k
  /\ \A l, m \in Lists : \A j \in Jobs : InList(j, l) /\ InList(j, m) => l = m
  /\ \A l \in Lists : \A p \in Procs : \A j \in Jobs : ~(InList(j, l) /\ Holds(p, j))
  /\ \A p, q \in Procs : \A j \in Jobs : Holds(p, j) /\ Holds(q, j) => p = q

(* The shift of the run and of the done list never signals cv_empty (lines *)
(* 63-64 and 131-132), so a push that found its list full would sleep for  *)
(* ever; and the client, who alone refills uninit, must not sleep on it.   *)
NoSleepForRoom ==
  \A p \in Procs : \A l \in Lists :
     /\ waits[p] # Empty(l)
     /\ waits[p] # Fill("uninit")

(* No wakeup is lost although push broadcasts after its unlock: whoever    *)
(* sleeps while what it waits for is there is about to be woken.           *)
NoLostWakeup ==
  /\ \A w \in Workers : waits[w] = Fill("run") =>
        /\ ~exit
        /\ list["run"] # <<>> => pc[Client] = "enqSignal"
  /\ waits[Client] = Fill("done") /\ Matches(callArg) # {} =>
        \E w \in Workers : pc[w] = "signal"

(* At most one finished job carries a given argument; the loop of the scan *)
(* in x264_threadpool_wait would drop the others.                          *)
DoneArgsDistinct ==
  \A i, k \in 1..Len(list["done"]) :
     jarg[list["done"][i]] = jarg[list["done"][k]] => i = k

(* A wait that found its job returns what the function computed in the     *)
(* last run of this argument, never the ret of an earlier use of the job.  *)
WaitReturnsOwnResult ==
  pc[Client] = "recSignal" => retval = outcome[callArg] /\ retval \in Results

(* When delete frees the lists every job is in one of them, even those     *)
(* that were still queued or running when delete was called.               *)
DeleteFreesEveryJob ==
  pc[Client] = "closed" => \A j \in Jobs : \E l \in Lists : InList(j, l)

(* A wait returns, once its job was submitted.                             *)
WaitReturns == pc[Client] = "scan" ~> pc[Client] = "idle"

(* Delete joins all threads, whatever they were doing.                     *)
DeleteReturns == pc[Client] = "join" ~> pc[Client] = "closed"

(* A queued job is started unless the pool is deleted first.               *)
QueuedJobStarts ==
  \A j \in Jobs : InList(j, "run") ~> (exit \/ \E w \in Workers : Holds(w, j))

-----------------------------------------------------------------------------
(* Refinement of TaskPool: the phase of an argument is told by the place   *)
(* its job is in.  A job the client popped but did not queue yet is not    *)
(* submitted; one it took out of done is collected when ret is read.       *)

JobsAt(S, a)   == {j \in S : jarg[j] = a}
ListSet(l)     == {list[l][i] : i \in 1..Len(list[l])}
HeldAt(p, at)  == IF pc[p] = at THEN {job[p]} ELSE {}
StartedJobs    == UNION {HeldAt(w, "exec") : w \in Workers}
ComputedJobs   == UNION {HeldAt(w, "push") : w \in Workers}
FinishedJobs   == ListSet("done") \cup HeldAt(Client, "recycle")

phaseBar ==
  [a \in Args |->
     IF JobsAt(ListSet("run"), a) # {} THEN "queued"
     ELSE IF JobsAt(StartedJobs, a) # {} THEN "started"
     ELSE IF JobsAt(ComputedJobs, a) # {} THEN "computed"
     ELSE IF JobsAt(FinishedJobs, a) # {} THEN "finished"
     ELSE "free"]

queueBar == [i \in 1..Len(list["run"]) |-> jarg[list["run"][i]]]

resultBar ==
  [a \in Args |->
     IF JobsAt(ComputedJobs \cup FinishedJobs, a) # {}
     THEN jret[CHOOSE j \in JobsAt(ComputedJobs \cup FinishedJobs, a) : TRUE]
     ELSE NoResult]

Abstract == INSTANCE TaskPool WITH
  phase <- phaseBar, queue <- queueBar, result <- resultBar,
  returned <- retval, open <- ~exit

(* The pool implements TaskPool: jobs start in submission order, at most   *)
(* one per thread, and each is finished, and collected with its own        *)
(* result, once.                                                           *)
ImplementsTaskPool == Abstract!Spec
=============================================================================
