---------------------------- MODULE SliceThreads ----------------------------
(***************************************************************************)
(* Sliced threads of x264: the slices of one picture are encoded at the    *)
(* same time by the threads of the pool (TaskPool, which ThreadPool        *)
(* implements).  x264_threaded_slices_write gives the picture back when    *)
(* every slice is written (pass 1); the threads then go on to filter it    *)
(* (pass 2), and a slice filters the rows at its upper border only after   *)
(* the slice above is through.  The next call waits for all of that, as do *)
(* x264_frame_dump and x264_encoder_close.                                 *)
(*                                                                         *)
(* A slice may fail (no memory for the bitstream); the client is the one   *)
(* of x264.c and closes after a call that reported an error.               *)
(* Bug_X is a wrong variant of the definition below it, not used by Spec.  *)
(***************************************************************************)
EXTENDS Integers, FiniteSets, Sequences

CONSTANT NSlices     \* i_threads

ASSUME SliceThreadsAssumption == NSlices \in Nat \ {0}

Slices == 0..NSlices - 1

VARIABLES
  dump,      \* psz_dump_yuv is set: a parameter
  api,       \* where the API thread is
  pass,      \* i_threadslice_pass of each context
  at,        \* where the thread of a slice is
  outcome,   \* history: the slice of this picture is "none", "coded", "failed"
  filtered,  \* history: the rows of the slice but the border are filtered
  phase, queue, result, returned, open      \* TaskPool

Pool == INSTANCE TaskPool
          WITH Threads <- NSlices, Args <- Slices, Results <- {0, -1}, NoResult <- 1

poolVars  == <<phase, queue, result, returned, open>>
sliceVars == <<pass, at, outcome, filtered>>
vars      == <<dump, api, sliceVars, poolVars>>

Active == {i \in Slices : phase[i] # "free"}        \* b_thread_active
First(S) == CHOOSE i \in S : \A j \in S : i <= j

Init ==
  /\ dump \in BOOLEAN
  /\ api = "idle"
  /\ pass = [i \in Slices |-> 0]
  /\ at = [i \in Slices |-> "code"]
  /\ outcome = [i \in Slices |-> "none"]
  /\ filtered = [i \in Slices |-> FALSE]
  /\ Pool!Init

-----------------------------------------------------------------------------
(* The API thread                                                          *)
Goto(from, to) == api = from /\ api' = to /\ UNCHANGED dump

EncodeCall == Goto("idle", "encode") /\ UNCHANGED <<sliceVars, poolVars>>

CloseCall ==
  /\ \E from \in {"idle", "failed"} : Goto(from, "close")
  /\ UNCHANGED <<sliceVars, poolVars>>

(* x264_threadpool_wait_all, and what its callers do after it.  It ends at *)
(* the first slice that failed; only the encoder looks at that.            *)
AllCollected(from) ==
  CASE from = "encode" -> "setup" [] from = "dump" -> "idle" [] from = "close" -> "delete"

Bug_Ignored(from) == AllCollected(from)
OneFailed(from) == IF from = "encode" THEN "failed" ELSE AllCollected(from)

Waiting == api \in {"encode", "dump", "close"}

WaitSlice ==
  /\ Waiting /\ Active # {}
  /\ Pool!Collect(First(Active))
  /\ api' = IF returned' = 0 THEN api ELSE OneFailed(api)
  /\ UNCHANGED <<dump, sliceVars>>

WaitedAll ==
  /\ Waiting /\ Active = {}
  /\ api' = AllCollected(api)
  /\ UNCHANGED <<dump, sliceVars, poolVars>>

(* x264_threaded_slices_write: the contexts become copies of the first     *)
(* one, no pass is done; a broadcast of 0 wakes nobody up.                 *)
Bug_NoReset == pass
NoPass      == [i \in Slices |-> 0]

Setup ==
  /\ Goto("setup", "dispatch")
  /\ pass' = NoPass
  /\ at' = [i \in Slices |-> "code"]
  /\ outcome' = [i \in Slices |-> "none"]
  /\ filtered' = [i \in Slices |-> FALSE]
  /\ UNCHANGED poolVars

Dispatch ==
  LET i == First(Slices \ Active)
  IN
  /\ Goto("dispatch", IF i = NSlices - 1 THEN "wait" ELSE "dispatch")
  /\ Pool!Submit(i)
  /\ UNCHANGED sliceVars

(* x264_threadslice_cond_wait, for each slice in turn                      *)
WaitPasses ==
  /\ Goto("wait", "merge")
  /\ \A i \in Slices : pass[i] >= 1
  /\ UNCHANGED <<sliceVars, poolVars>>

(* The NAL units are collected, the call returns the picture.              *)
Merge ==
  /\ Goto("merge", IF dump THEN "dump" ELSE "idle")
  /\ UNCHANGED <<sliceVars, poolVars>>

(* x264_threadpool_delete                                                  *)
Delete ==
  /\ Goto("delete", "join")
  /\ Pool!Shutdown
  /\ UNCHANGED sliceVars

Join ==
  /\ Goto("join", "closed")
  /\ \A i \in Slices : phase[i] \notin {"started", "computed"}
  /\ UNCHANGED <<sliceVars, poolVars>>

-----------------------------------------------------------------------------
(* A slice: x264_slices_write and the end of x264_slice_write              *)
Moves(i, from, to) ==
  /\ phase[i] = "started" /\ at[i] = from
  /\ at' = [at EXCEPT ![i] = to]
  /\ UNCHANGED <<dump, api, poolVars>>

(* x264_threadslice_cond_broadcast                                         *)
Broadcast(i, n) == pass' = [pass EXCEPT ![i] = n]

Start(i) ==
  /\ queue # <<>> /\ i = Head(queue) /\ api # "closed"
  /\ Pool!Start
  /\ UNCHANGED <<dump, api, sliceVars>>

(* "Tell the main thread we're done."                                      *)
Code(i) ==
  /\ Moves(i, "code", "filter")
  /\ outcome' = [outcome EXCEPT ![i] = "coded"]
  /\ Broadcast(i, 1)
  /\ UNCHANGED filtered

Filter(i) ==
  /\ Moves(i, "filter", IF i = 0 THEN "end" ELSE "neighbour")
  /\ filtered' = [filtered EXCEPT ![i] = TRUE]
  /\ Broadcast(i, 2)
  /\ UNCHANGED outcome

(* "Do the first row of hpel, now that the previous slice is done"         *)
Bug_WaitsForCode(i) == pass[i - 1] >= 1
NeighbourDone(i)    == pass[i - 1] >= 2

WaitNeighbour(i) ==
  /\ Moves(i, "neighbour", "border")
  /\ NeighbourDone(i)
  /\ UNCHANGED <<pass, outcome, filtered>>

FilterBorder(i) ==
  /\ Moves(i, "border", "end")
  /\ UNCHANGED <<pass, outcome, filtered>>

Returns(i, r) == Pool!Compute(i) /\ result'[i] = r

End(i) ==
  /\ at[i] = "end"
  /\ Returns(i, 0)
  /\ UNCHANGED <<dump, api, sliceVars>>

(* "Tell other threads we're done, so they wouldn't wait for it"           *)
Bug_NoTell(i) == UNCHANGED pass
TellDone(i)   == Broadcast(i, 2)

Fail(i) ==
  /\ at[i] = "code"
  /\ Returns(i, -1)
  /\ TellDone(i)
  /\ outcome' = [outcome EXCEPT ![i] = "failed"]
  /\ UNCHANGED <<dump, api, at, filtered>>

Finish(i) ==
  /\ Pool!Finish(i)
  /\ UNCHANGED <<dump, api, sliceVars>>

Thread(i) ==
  \/ Start(i) \/ Code(i) \/ Filter(i) \/ WaitNeighbour(i) \/ FilterBorder(i)
  \/ End(i) \/ Fail(i) \/ Finish(i)

ApiStep == WaitSlice \/ WaitedAll \/ Setup \/ Dispatch \/ WaitPasses \/ Merge
           \/ Delete \/ Join

Terminated == api = "closed" /\ UNCHANGED vars

Next ==
  \/ EncodeCall \/ CloseCall \/ ApiStep \/ Terminated
  \/ \E i \in Slices : Thread(i)

Spec == Init /\ [][Next]_vars

(* The threads run, a call goes on; nobody has to make a call.             *)
FairSpec == /\ Spec /\ WF_vars(ApiStep)
            /\ \A i \in Slices : WF_vars(Thread(i))

-----------------------------------------------------------------------------
(* A pass that is waited for is one of the present picture, not one left   *)
(* from the picture before: the border of a slice is filtered after both   *)
(* slices at it, and the NAL units are taken from slices that are through. *)
PassesOfThisPicture ==
  /\ \A i \in Slices : phase[i] = "started" /\ at[i] = "border" =>
       filtered[i] /\ (filtered[i - 1] \/ outcome[i - 1] = "failed")
  /\ api = "merge" => \A i \in Slices : outcome[i] # "none"

(* A picture with a slice missing is returned like any other; but the next *)
(* call reports the error, and no picture is built on that one.  This does *)
(* not hold while pictures are dumped: x264_frame_dump waits for the       *)
(* slices too, and drops what x264_threadpool_wait_all returns.            *)
FailureStops ==
  [][~dump /\ Setup => \A i \in Slices : outcome[i] # "failed"]_vars

(* Every call and the close return, whatever slices fail: the threads that *)
(* wait for a pass are told of a slice that will not come to it.           *)
CallsReturn ==
  (api \notin {"idle", "failed", "closed"}) ~> (api \in {"idle", "failed", "closed"})
=============================================================================
