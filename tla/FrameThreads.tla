---------------------------- MODULE FrameThreads ----------------------------
(***************************************************************************)
(* Frame threads of x264: x264_encoder_encode turns a ring of contexts,    *)
(* gives each its reference frames and a frame to reconstruct into, and    *)
(* hands it to the thread pool (TaskPool, which ThreadPool implements);    *)
(* the contexts then encode their pictures at the same time, each row as   *)
(* soon as the rows it may refer to are there.                             *)
(*                                                                         *)
(* The API thread alone keeps the references, the counts and the list of   *)
(* unused frames, so the setup of a picture is one step.  A frame thread   *)
(* only reads the frames of its lists and writes its own.  Rows stand for  *)
(* 16 lines.  The lists hold all of the references (i_frame_reference may  *)
(* cut them: less to wait for); which unused frame is taken first makes no *)
(* difference to the properties, so the unused ones are a set.  There is   *)
(* no B-pyramid and no open GOP: x264_reference_hierarchy_reset does       *)
(* nothing, and no mmco is sent.                                           *)
(* Bug_X is a wrong variant of the definition below it, not used by Spec.  *)
(***************************************************************************)
EXTENDS Integers, FiniteSets, SequencesExt

CONSTANTS
  N,         \* i_thread_frames, more than 1
  NumRef,    \* sps->i_num_ref_frames
  Rows,      \* i_mb_height
  Reach,     \* i_mv_range_thread, in rows
  CanFail    \* bound: allocations may fail

ASSUME FrameThreadsAssumption ==
  /\ N \in Nat /\ N > 1 /\ NumRef \in Nat \ {0} /\ Rows \in Nat \ {0}
  /\ Reach \in Nat /\ CanFail \in BOOLEAN

Contexts == 0..N - 1
Types    == {"IDR", "I", "P", "B"}
NoFrame  == 0
Room     == N + NumRef + 3       \* what frames.unused[1] has room for
Frames   == 1..Room
Margin   == 2                    \* X264_THREAD_HEIGHT, in rows

VARIABLES
  turn,       \* i_thread_phase: the context of the last call
  reference,  \* frames.reference of each context
  fdec,       \* the frame it reconstructs into
  fref,       \* the frames of its lists, while it works
  row, at,    \* the row it works at, and how far it has come there
  store,      \* reference counts, unused[1], number of frames allocated
  kept,       \* b_kept_as_ref of each frame
  lines,      \* i_lines_completed, in rows
  done,       \* history: rows of the frame's present picture that are filtered
  api,        \* where the API thread is
  drained,    \* the lookahead is empty: only flush calls follow
  phase, queue, result, returned, open     \* TaskPool

Results  == {0, -1}
NoResult == 1
Pool     == INSTANCE TaskPool WITH Threads <- N, Args <- Contexts

frameVars == <<turn, reference, fdec, store, kept>>
rowVars   == <<fref, row, at, lines, done>>
poolVars  == <<phase, queue, result, returned, open>>
vars      == <<frameVars, rowVars, poolVars, api, drained>>

-----------------------------------------------------------------------------
(* Reference counts.  The frames of a list are held, or let go, in one     *)
(* loop: the last time that takes a count to 0 gives the frame back.       *)
Times(f, list) == Cardinality({i \in DOMAIN list : list[i] = f})

Hold(s, list) ==
  [count  |-> [f \in Frames |-> s.count[f] + Times(f, list)],
   unused |-> s.unused,
   made   |-> s.made]

Release(s, list) ==                             \* x264_frame_push_unused
  LET left == [f \in Frames |-> s.count[f] - Times(f, list)]
  IN  [count  |-> left,
       unused |-> s.unused \cup {f \in Frames : f \in ToSet(list) /\ left[f] = 0},
       made   |-> s.made]

Taken(s) == IF s.unused = {} THEN s.made + 1 ELSE CHOOSE f \in s.unused : TRUE

Pop(s) ==                                       \* x264_frame_pop_unused
  [count  |-> [s.count EXCEPT ![Taken(s)] = 1],
   unused |-> s.unused \ {Taken(s)},
   made   |-> IF s.unused = {} THEN s.made + 1 ELSE s.made]

After(c) == (c + 1) % N
Oldest   == After(turn)

(* x264_thread_sync_context: the next context becomes a copy of the last   *)
(* one and holds what that one holds.                                      *)
Bug_NoHold(p, c) == Release(Hold(store, reference[p]), Append(reference[c], fdec[c]))
Synced(p, c) ==
  Release(Hold(store, Append(reference[p], fdec[p])), Append(reference[c], fdec[c]))

(* x264_reference_update: the last picture, if it is a reference, enters   *)
(* the list, and the oldest one may have to leave it.                      *)
Entered(p) == IF kept[fdec[p]] THEN Append(reference[p], fdec[p]) ELSE reference[p]
Bug_OneMore(p) == Len(Entered(p)) > NumRef + 1
TooMany(p) == Len(Entered(p)) > NumRef
Updated(p) == IF TooMany(p) THEN Tail(Entered(p)) ELSE Entered(p)
Leaving(p) == IF ~kept[fdec[p]] THEN <<fdec[p]>>
              ELSE IF TooMany(p) THEN <<Head(Entered(p))>> ELSE <<>>

(* x264_reference_build_list, after that                                   *)
Bug_ListsFirst(t, p) == IF t \in {"P", "B"} THEN ToSet(Entered(p)) ELSE {}
Lists(t, p)          == IF t \in {"P", "B"} THEN ToSet(Updated(p)) ELSE {}

-----------------------------------------------------------------------------
Init ==                                         \* x264_encoder_open
  /\ turn = 0
  /\ reference = [c \in Contexts |-> <<>>]
  /\ fdec = [c \in Contexts |-> c + 1]
  /\ fref = [c \in Contexts |-> {}]
  /\ row = [c \in Contexts |-> 0]
  /\ at = [c \in Contexts |-> "wait"]
  /\ store = [count  |-> [f \in Frames |-> IF f <= N THEN 1 ELSE 0],
              unused |-> {}, made |-> N]
  /\ kept = [f \in Frames |-> FALSE]
  /\ lines = [f \in Frames |-> -1]
  /\ done = [f \in Frames |-> 0]
  /\ api = "filling" /\ drained = FALSE
  /\ Pool!Init

(* The ring turns.                                                         *)
Turn(c) ==
  /\ api \in {"filling", "idle"} /\ c = After(turn)
  /\ turn' = c

(* A call with nothing to encode yet, or any more.                         *)
SyncOnly(c) ==
  /\ Turn(c)
  /\ store' = Synced(turn, c)
  /\ reference' = [reference EXCEPT ![c] = reference[turn]]
  /\ fdec' = [fdec EXCEPT ![c] = fdec[turn]]
  /\ UNCHANGED <<kept, rowVars, poolVars>>

BufferCall(c) ==
  /\ api = "filling"
  /\ SyncOnly(c)
  /\ UNCHANGED <<api, drained>>

FlushCall(c) ==
  /\ SyncOnly(c)
  /\ api' = "wait" /\ drained' = TRUE

(* The picture cannot be taken over: the call ends where it is.            *)
EncodeFails(c) ==
  /\ CanFail /\ ~drained
  /\ SyncOnly(c)
  /\ api' = "failed" /\ UNCHANGED drained

(* The picture is set up and given to the pool.                            *)
Bug_KeepsLines(f) == lines
ResetLines(f)     == [lines EXCEPT ![f] = -1]

EncodeCall(c, t) ==
  LET list == Updated(turn)
      s    == Release(Synced(turn, c), Leaving(turn))
      f    == Taken(s)
      gone == IF t = "IDR" THEN list ELSE <<>>     \* x264_reference_reset
  IN
  /\ Turn(c) /\ ~drained
  /\ list = <<>> => t = "IDR"
  /\ t = "B" => Len(list) > 1        \* it stands between two
  /\ store' = Release(Pop(s), gone)
  /\ reference' = [reference EXCEPT ![c] = IF t = "IDR" THEN <<>> ELSE list]
  /\ fdec' = [fdec EXCEPT ![c] = f]
  /\ kept' = [kept EXCEPT ![f] = t # "B"]
  /\ lines' = ResetLines(f)
  /\ done' = [done EXCEPT ![f] = 0]
  /\ fref' = [fref EXCEPT ![c] = Lists(t, turn)]
  /\ row' = [row EXCEPT ![c] = 0]
  /\ at' = [at EXCEPT ![c] = "wait"]
  /\ Pool!Submit(c)
  /\ api' = "wait"
  /\ UNCHANGED drained

(* x264_frame_new finds no memory for the frame to reconstruct into.       *)
NoMemory(c) ==
  LET s == Release(Synced(turn, c), Leaving(turn))
  IN
  /\ CanFail /\ Turn(c) /\ ~drained
  /\ s.unused = {}
  /\ store' = s
  /\ reference' = [reference EXCEPT ![c] = Updated(turn)]
  /\ fdec' = [fdec EXCEPT ![c] = NoFrame]
  /\ api' = "failed"
  /\ UNCHANGED <<kept, rowVars, poolVars, drained>>

(* x264_encoder_frame_end of the oldest context                            *)
NothingToEnd ==
  /\ api = "wait" /\ phase[Oldest] = "free"
  /\ api' = "idle"
  /\ UNCHANGED <<frameVars, rowVars, poolVars, drained>>

EndFrame ==
  /\ api = "wait"
  /\ Pool!Collect(Oldest)
  /\ api' = IF returned' = 0 THEN "idle" ELSE "failed"
  /\ UNCHANGED <<frameVars, rowVars, drained>>

(* x264_encoder_close: the threads are joined, then everything is let go.  *)
CloseCall ==
  /\ api \in {"filling", "idle", "failed"}
  /\ Pool!Shutdown
  /\ api' = "closing"
  /\ UNCHANGED <<frameVars, rowVars, drained>>

Held(c) == reference[c] \o (IF fdec[c] = NoFrame THEN <<>> ELSE <<fdec[c]>>)

(* How often f is in the lists of all contexts.                            *)
InAll(lists, f) ==
  Cardinality({p \in Contexts \X (1..(NumRef + 1)) :
                 p[2] <= Len(lists[p[1]]) /\ lists[p[1]][p[2]] = f})

Joined == \A c \in Contexts : phase[c] \notin {"started", "computed"}

CloseJoin ==
  /\ api = "closing" /\ Joined
  /\ LET lists == [c \in Contexts |-> Held(c)]
     IN  store' = [store EXCEPT !.count =
                     [f \in Frames |-> store.count[f] - InAll(lists, f)]]
  /\ reference' = [c \in Contexts |-> <<>>]
  /\ fdec' = [c \in Contexts |-> NoFrame]
  /\ api' = "closed"
  /\ UNCHANGED <<turn, kept, rowVars, poolVars, drained>>

-----------------------------------------------------------------------------
(* A frame thread: x264_slices_write.                                      *)
Start(c) ==
  /\ queue # <<>> /\ c = Head(queue) /\ api # "closed"
  /\ Pool!Start
  /\ UNCHANGED <<frameVars, rowVars, api, drained>>

(* x264_frame_cond_wait, for every frame of the lists                      *)
Threshold(c) == row[c] + Reach

WaitRows(c) ==
  /\ phase[c] = "started" /\ at[c] = "wait"
  /\ \A f \in fref[c] : lines[f] >= Threshold(c)
  /\ at' = [at EXCEPT ![c] = "code"]
  /\ UNCHANGED <<frameVars, fref, row, lines, done, poolVars, api, drained>>

(* The row is encoded, and the rows before it are filtered, when the next  *)
(* one or the end comes: x264_fdec_filter_row and x264_frame_cond_broadcast. *)
Bug_NoFinish(m) == m - Margin
Completed(m) == IF m = Rows THEN Rows + Reach + Margin ELSE m - Margin

CodeRow(c) ==
  LET m == row[c] + 1  f == fdec[c]
  IN
  /\ phase[c] = "started" /\ at[c] = "code"
  /\ row' = [row EXCEPT ![c] = m]
  /\ done' = [done EXCEPT ![f] = m]
  /\ lines' = IF kept[f] THEN [lines EXCEPT ![f] = Completed(m)] ELSE lines
  /\ at' = [at EXCEPT ![c] = IF m = Rows THEN "end" ELSE "wait"]
  /\ UNCHANGED <<frameVars, fref, poolVars, api, drained>>

Ends(c, r) ==
  /\ Pool!Compute(c) /\ result'[c] = r
  /\ fref' = [fref EXCEPT ![c] = {}]
  /\ UNCHANGED <<frameVars, row, at, lines, done, api, drained>>

SliceEnd(c) == at[c] = "end" /\ Ends(c, 0)

(* No room for the bitstream, which is seen at the start of a row and at   *)
(* the end of the slice.  Only sliced threads broadcast here.              *)
SliceFails(c) ==
  /\ CanFail
  /\ at[c] = "code" \/ (at[c] = "wait" /\ row[c] = 0)
  /\ Ends(c, -1)

Finish(c) ==
  /\ Pool!Finish(c)
  /\ UNCHANGED <<frameVars, rowVars, api, drained>>

(* Closed; or hung, because a frame has rows nobody will write.            *)
Abandoned(f) == \A c \in Contexts : fdec[c] = f =>
                  phase[c] \notin {"queued", "started"}
Hung(c)      == /\ phase[c] = "started" /\ at[c] = "wait"
                /\ \E f \in fref[c] : lines[f] < Threshold(c) /\ Abandoned(f)
Terminated ==
  /\ api = "closed" \/ \E c \in Contexts : Hung(c)
  /\ UNCHANGED vars

Thread(c) == \/ Start(c) \/ WaitRows(c) \/ CodeRow(c)
             \/ SliceEnd(c) \/ SliceFails(c) \/ Finish(c)

Next ==
  \/ \E c \in Contexts :
       \/ BufferCall(c) \/ FlushCall(c) \/ EncodeFails(c) \/ NoMemory(c)
       \/ \E t \in Types : EncodeCall(c, t)
       \/ Thread(c)
  \/ NothingToEnd \/ EndFrame \/ CloseCall \/ CloseJoin
  \/ Terminated

Spec == Init /\ [][Next]_vars

(* The threads run, the API thread gets on with a call; nobody has to make *)
(* a call.                                                                 *)
FairSpec ==
  /\ Spec
  /\ \A c \in Contexts : WF_vars(Thread(c))
  /\ WF_vars(NothingToEnd) /\ WF_vars(EndFrame) /\ WF_vars(CloseJoin)
-----------------------------------------------------------------------------
TypeOK ==
  /\ turn \in Contexts /\ drained \in BOOLEAN
  /\ api \in {"filling", "idle", "wait", "failed", "closing", "closed"}
  /\ \A c \in Contexts :
       /\ reference[c] \in Seq(Frames) /\ Len(reference[c]) <= NumRef
       /\ fref[c] \subseteq Frames
       /\ fdec[c] \in Frames \cup {NoFrame}
       /\ row[c] \in 0..Rows /\ at[c] \in {"wait", "code", "end"}
       /\ phase[c] \in {"free", "queued", "started", "computed", "finished"}
       /\ result[c] \in Results \cup {NoResult}
  /\ store.count \in [Frames -> Nat] /\ store.unused \subseteq Frames
  /\ store.made \in Frames
  /\ kept \in [Frames -> BOOLEAN]
  /\ lines \in [Frames -> Int] /\ done \in [Frames -> 0..Rows]
  /\ queue \in Seq(Contexts) /\ open \in BOOLEAN

(* The counts are what the contexts hold, before, during and after a       *)
(* failing call and the close; a frame nobody holds is unused, and the     *)
(* array of unused frames, which ends with NULL, has room for them     *)
(* ("max refs plus a few extra just in case").                             *)
Holds(f) == Cardinality({c \in Contexts : fdec[c] = f}) + InAll(reference, f)

FramesAccounted ==
  /\ \A f \in Frames : store.count[f] = Holds(f)
  /\ api # "closed" => store.unused = {f \in 1..store.made : store.count[f] = 0}
  /\ Cardinality(store.unused) < N + NumRef + 4

(* While a picture is in work, nobody is given the frame it goes to or one *)
(* it refers to: these are not unused, no other picture goes to the same   *)
(* frame, and a frame it refers to is written by an earlier picture only,  *)
(* so that contexts cannot wait for each other in a circle.                *)
Age(c)  == (turn - c + N) % N
Busy(c) == phase[c] # "free" /\ api # "closed"

NoRecycledInUse ==
  \A c \in Contexts : Busy(c) =>
    /\ ({fdec[c]} \cup fref[c]) \cap store.unused = {}
    /\ \A d \in Contexts \ {c} : Busy(d) =>
         /\ fdec[d] # fdec[c]
         /\ fdec[d] \in fref[c] => Age(d) > Age(c)

(* A row is encoded only when the rows its motion vectors may reach, and   *)
(* the lines the filter needs, are there in each reference frame, whatever *)
(* the frame was used for before.                                          *)
ReadsOnlyWritten ==
  \A c \in Contexts : phase[c] = "started" /\ at[c] = "code" =>
    \A f \in fref[c] :
      done[f] >= IF Threshold(c) + Margin < Rows THEN Threshold(c) + Margin ELSE Rows

(* As long as no slice fails, a call comes to its end and so does the      *)
(* close: no frame thread waits for ever for rows.                         *)
NobodyFails == \A c \in Contexts : result[c] # -1
CloseReturns == (api = "closing") ~> (api = "closed")
CallsReturn ==
  []NobodyFails => ((api = "wait") ~> (api # "wait")) /\ CloseReturns
=============================================================================
