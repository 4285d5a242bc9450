----------------------------- MODULE FrameRefs ------------------------------
(***************************************************************************)
(* Who holds an input frame of x264.  The API thread takes a frame from    *)
(* unused[0] for each picture and lets it go when the picture is encoded;  *)
(* the lookahead thread holds one frame more, last_nonb, and lets it go    *)
(* when it has the next one.  Both change i_reference_count and the list   *)
(* frames.unused[0] with no lock: here every access to these is a step.    *)
(*                                                                         *)
(* x264_frame_push_unused names the count twice, in the decrement and in   *)
(* the comparison that follows.  An optimising build compares what it has  *)
(* stored; one without optimisation reads the count again (ReadsAgain).    *)
(*                                                                         *)
(* What the two do under the mutexes of the lookahead (Lookahead) is one   *)
(* step; ifbuf and next are one list, and so are ofbuf and frames.current. *)
(* Bug_X is a wrong variant of the definition below it, not used by Spec.  *)
(***************************************************************************)
EXTENDS Integers, Sequences, SequencesExt

CONSTANTS
  SlicetypeLength,  \* i_slicetype_length
  SyncLookahead,    \* param.i_sync_lookahead
  ThreadFrames,     \* i_thread_frames
  BFrames,          \* param.i_bframe
  ReadsAgain,       \* the build reads the count for the comparison again
  MaxPictures       \* bound: pictures the caller has

ASSUME FrameRefsAssumption ==
  /\ SlicetypeLength \in Nat /\ SyncLookahead \in Nat \ {0}
  /\ ThreadFrames \in Nat /\ ThreadFrames > 1
  /\ BFrames \in Nat /\ BFrames <= SlicetypeLength /\ MaxPictures \in Nat
  /\ ReadsAgain \in BOOLEAN

Frames   == 1..MaxPictures     \* the frames that are ever allocated
NoFrame  == 0
Slots    == 0..MaxPictures     \* of unused[0], which NULL ends
Contexts == 0..ThreadFrames - 1

VARIABLES
  count,     \* i_reference_count of each frame
  unused,    \* unused[0]
  made,      \* number of frames allocated
  waiting,   \* frames to decide on
  ready,     \* frames the lookahead is done with, in coded order
  lastNonb,  \* lookahead->last_nonb
  exit,      \* lookahead->b_exit_thread
  slot,      \* the fenc of each context while it is active
  turn,      \* i_thread_phase
  input,     \* frames.i_input
  api, la    \* the threads: program counter pc, frame f, index i, loaded
             \* count n, where to go after x264_frame_push_unused, and
             \* the B-frames b of the mini-GOP

memory == <<count, unused, made>>
lists  == <<waiting, ready, lastNonb, exit, slot, turn, input>>
vars   == <<memory, lists, api, la>>

Init ==
  /\ count = [f \in Frames |-> 0]
  /\ unused = [i \in Slots |-> NoFrame]
  /\ made = 0
  /\ waiting = <<>> /\ ready = <<>> /\ lastNonb = NoFrame /\ exit = FALSE
  /\ slot = [c \in Contexts |-> NoFrame]
  /\ turn = 0 /\ input = 0
  /\ api = [pc |-> "idle", f |-> NoFrame, i |-> 0, n |-> 0, after |-> "idle", b |-> 0]
  /\ la = api

-----------------------------------------------------------------------------
(* x264_frame_push_unused, by a thread whose state is t                    *)
Release(t, f, then) == [t EXCEPT !.pc = "load", !.f = f, !.after = then]
Go(t, pc)           == [t EXCEPT !.pc = pc, !.f = NoFrame, !.i = 0, !.n = 0]

Bug_PushedWhileHeld(t, n) == IF n <= 1 THEN [t EXCEPT !.pc = "scan", !.i = 0] ELSE Go(t, t.after)
Tested(t, n)              == IF n = 0 THEN [t EXCEPT !.pc = "scan", !.i = 0] ELSE Go(t, t.after)

PushUnused(t, t2) ==
  \/ /\ t.pc = "load"
     /\ t2 = [t EXCEPT !.n = count[t.f], !.pc = "store"]
     /\ UNCHANGED memory
  \/ /\ t.pc = "store"
     /\ count' = [count EXCEPT ![t.f] = t.n - 1]
     /\ t2 = IF ReadsAgain THEN [t EXCEPT !.pc = "test"] ELSE Tested(t, t.n - 1)
     /\ UNCHANGED <<unused, made>>
  \/ /\ t.pc = "test"
     /\ t2 = Tested(t, count[t.f])
     /\ UNCHANGED memory
  \/ /\ t.pc = "scan"
     /\ t2 = IF unused[t.i] = NoFrame THEN [t EXCEPT !.pc = "write"]
                                      ELSE [t EXCEPT !.i = @ + 1]
     /\ UNCHANGED memory
  \/ /\ t.pc = "write"
     /\ unused' = [unused EXCEPT ![t.i] = t.f]
     /\ t2 = Go(t, t.after)
     /\ UNCHANGED <<count, made>>

ApiPush == PushUnused(api, api') /\ UNCHANGED <<lists, la>>
LaPush  == PushUnused(la, la') /\ UNCHANGED <<lists, api>>

-----------------------------------------------------------------------------
(* The API thread                                                          *)
ApiAt(pc) == api.pc = pc

EncodeCall ==
  /\ ApiAt("idle") /\ ~exit /\ input < MaxPictures
  /\ turn' = (turn + 1) % ThreadFrames
  /\ api' = Go(api, "pop")
  /\ UNCHANGED <<memory, waiting, ready, lastNonb, exit, slot, input, la>>

(* x264_frame_pop_unused *)
PopEmpty ==
  /\ ApiAt("pop") /\ unused[0] = NoFrame
  /\ made' = made + 1
  /\ api' = [api EXCEPT !.pc = "count", !.f = made + 1]
  /\ UNCHANGED <<count, unused, lists, la>>

PopFound ==
  /\ ApiAt("pop") /\ unused[0] # NoFrame
  /\ api' = [api EXCEPT !.pc = "last"]
  /\ UNCHANGED <<memory, lists, la>>

PopScan ==
  /\ ApiAt("last")
  /\ api' = IF unused[api.i + 1] # NoFrame THEN [api EXCEPT !.i = @ + 1]
                                           ELSE [api EXCEPT !.pc = "read"]
  /\ UNCHANGED <<memory, lists, la>>

PopRead ==
  /\ ApiAt("read")
  /\ api' = [api EXCEPT !.pc = "clear", !.f = unused[api.i]]
  /\ UNCHANGED <<memory, lists, la>>

PopClear ==
  /\ ApiAt("clear")
  /\ unused' = [unused EXCEPT ![api.i] = NoFrame]
  /\ api' = [api EXCEPT !.pc = "count"]
  /\ UNCHANGED <<count, made, lists, la>>

PopCount ==
  /\ ApiAt("count")
  /\ count' = [count EXCEPT ![api.f] = 1]
  /\ api' = [api EXCEPT !.pc = "put"]
  /\ UNCHANGED <<unused, made, lists, la>>

(* The picture is in the frame; x264_lookahead_put_frame, and the early    *)
(* return while the buffers fill.                                          *)
Put ==
  /\ ApiAt("put")
  /\ waiting' = Append(waiting, api.f)
  /\ input' = input + 1
  /\ api' = Go(api, IF input' <= SlicetypeLength + SyncLookahead THEN "idle" ELSE "get")
  /\ UNCHANGED <<memory, ready, lastNonb, exit, slot, turn, la>>

FlushCall ==
  /\ ApiAt("idle")
  /\ turn' = (turn + 1) % ThreadFrames
  /\ exit' = TRUE
  /\ api' = Go(api, "get")
  /\ UNCHANGED <<memory, waiting, ready, lastNonb, slot, input, la>>

(* x264_lookahead_get_frames and h->fenc                                   *)
Get ==
  /\ ApiAt("get")
  /\ ready # <<>> \/ la.pc = "done"
  /\ IF ready = <<>>
     THEN UNCHANGED <<ready, slot>>
     ELSE slot' = [slot EXCEPT ![turn] = Head(ready)] /\ ready' = Tail(ready)
  /\ api' = Go(api, "end")
  /\ UNCHANGED <<memory, waiting, lastNonb, exit, turn, input, la>>

(* x264_encoder_frame_end of the oldest context                            *)
Oldest == (turn + 1) % ThreadFrames

End ==
  /\ ApiAt("end")
  /\ api' = IF slot[Oldest] = NoFrame THEN Go(api, "idle")
            ELSE Release(api, slot[Oldest], "idle")
  /\ slot' = [slot EXCEPT ![Oldest] = NoFrame]
  /\ UNCHANGED <<memory, waiting, ready, lastNonb, exit, turn, input, la>>

(* x264_encoder_close: x264_lookahead_delete, then the frames in work      *)
CloseCall ==
  /\ ApiAt("idle")
  /\ exit' = TRUE
  /\ api' = Go(api, "join")
  /\ UNCHANGED <<memory, waiting, ready, lastNonb, slot, turn, input, la>>

CloseJoin ==
  /\ ApiAt("join") /\ la.pc = "done"
  /\ api' = IF lastNonb = NoFrame THEN Go(api, "closed")
            ELSE Release(api, lastNonb, "closed")
  /\ lastNonb' = NoFrame
  /\ UNCHANGED <<memory, waiting, ready, exit, slot, turn, input, la>>

-----------------------------------------------------------------------------
(* The lookahead thread: a mini-GOP of b B-frames, led by the frame that   *)
(* becomes last_nonb.                                                      *)
Enough == Len(waiting) > (IF exit THEN 0 ELSE SlicetypeLength)

Decide(b) ==
  /\ la.pc = "idle" /\ Enough /\ b < Len(waiting)
  /\ waiting' = <<waiting[b + 1]>> \o RemoveAt(waiting, b + 1)
  /\ la' = [la EXCEPT !.pc = "update", !.b = b]
  /\ UNCHANGED <<memory, ready, lastNonb, exit, slot, turn, input, api>>

(* x264_lookahead_update_last_nonb: the old one goes, the new one is held. *)
UpdateLastNonb ==
  /\ la.pc = "update"
  /\ la' = IF lastNonb = NoFrame THEN Go(la, "set") ELSE Release(la, lastNonb, "set")
  /\ UNCHANGED <<memory, lists, api>>

SetLastNonb ==
  /\ la.pc = "set"
  /\ lastNonb' = waiting[1]
  /\ la' = [la EXCEPT !.pc = "hold", !.n = count[waiting[1]]]
  /\ UNCHANGED <<memory, waiting, ready, exit, slot, turn, input, api>>

Bug_NotHeld(n) == n
Held(n)        == n + 1

Hold ==
  /\ la.pc = "hold"
  /\ count' = [count EXCEPT ![lastNonb] = Held(la.n)]
  /\ la' = Go(la, "shift")
  /\ UNCHANGED <<unused, made, lists, api>>

Shift ==
  /\ la.pc = "shift"
  /\ ready' = ready \o SubSeq(waiting, 1, la.b + 1)
  /\ waiting' = SubSeq(waiting, la.b + 2, Len(waiting))
  /\ la' = Go(la, "idle")
  /\ UNCHANGED <<memory, lastNonb, exit, slot, turn, input, api>>

Finish ==
  /\ la.pc = "idle" /\ exit /\ waiting = <<>>
  /\ la' = Go(la, "done")
  /\ UNCHANGED <<memory, lists, api>>

Terminated == ApiAt("closed") /\ UNCHANGED vars

Next ==
  \/ EncodeCall \/ PopEmpty \/ PopFound \/ PopScan \/ PopRead \/ PopClear \/ PopCount
  \/ Put \/ FlushCall \/ Get \/ ApiPush \/ End \/ CloseCall \/ CloseJoin
  \/ \E b \in 0..BFrames : Decide(b)
  \/ UpdateLastNonb \/ SetLastNonb \/ Hold \/ Shift \/ Finish \/ LaPush
  \/ Terminated

Spec == Init /\ [][Next]_vars

-----------------------------------------------------------------------------
(* In a build that loads the count once, however the two threads get into  *)
(* each other, a picture never goes into a frame that is still in the      *)
(* lookahead, in work or compared against as last_nonb: a lost decrement   *)
(* or a lost entry of the list only costs a frame.  In x264_encoder_close  *)
(* a frame in work has one holder (the assertion of encoder.c:4023).       *)
Working   == {slot[c] : c \in Contexts} \ {NoFrame}
LettingGo == la.pc \in {"load", "store", "test", "scan", "write", "set"}
InUse     == ToSet(waiting) \cup ToSet(ready) \cup Working
             \cup (IF LettingGo THEN {} ELSE {lastNonb})

NotReusedInUse ==
  /\ ApiAt("put") => api.f \notin InUse
  /\ ApiAt("closed") => \A f \in Working : count[f] = 1

(* The assertion of x264_frame_push_unused (frame.c:750): a frame that is  *)
(* let go has a holder, for both threads, whatever the other one did to    *)
(* the count since.  A build that reads the count again breaks it: both    *)
(* threads may find 0 after their decrements and list the frame, and two   *)
(* pictures go into it.                                                    *)
HeldWhenReleased ==
  \A t \in {api, la} : t.pc = "load" => count[t.f] > 0
=============================================================================
