----------------------------- MODULE Lookahead ------------------------------
(***************************************************************************)
(* The way of a frame through x264: x264_encoder_encode puts it into the   *)
(* lookahead (encoder/lookahead.c), slicetype_decide groups the waiting    *)
(* frames into mini-GOPs in coded order, the encoder takes them one by     *)
(* one, gives each to the next context of the ring of frame threads, and   *)
(* outputs the frame of the oldest context.                                *)
(*                                                                         *)
(* Two threads interleave: the caller of the API ("enc") and, when         *)
(* SyncLookahead > 0, the lookahead thread ("la").  A step is a critical   *)
(* section, which may hold several mutexes, or one access outside of them. *)
(* Each condition variable has one thread that ever sleeps on it, so       *)
(* asleep and the program counter tell who sleeps on which.                *)
(*                                                                         *)
(* Not here: reference counts and recycling of the frames, what the frame  *)
(* threads do (a job always ends: ThreadPool), and the error returns.      *)
(* Rate control is not CQP: the frame costs are computed (line 1787).      *)
(* Bug_X is a wrong variant of the definition below it, not used by Spec.  *)
(***************************************************************************)
EXTENDS Integers, Sequences, SequencesExt, FiniteSets

CONSTANTS
  SlicetypeLength,  \* i_slicetype_length: frames the type decision wants to see
  SyncLookahead,    \* param.i_sync_lookahead; 0: no lookahead thread
  ThreadFrames,     \* i_thread_frames
  VfrInput,         \* param.b_vfr_input, 0 or 1
  BFrames,          \* param.i_bframe
  Pyramid,          \* param.i_bframe_pyramid: 0 none, 1 strict, 2 normal
  References,       \* param.i_frame_reference
  GivenTypes,       \* TRUE: pic->i_type (--qpfile) or a stats file may give B-refs
  BRefBeforeIdr,    \* TRUE: they may give a B-ref directly before an IDR frame
  MaxFrames,        \* bound: frames the caller has
  Pts               \* Pts[f]: presentation time of input frame f

Frames == 0..(MaxFrames - 1)
NoFrame == MaxFrames

(* x264_validate_parameters drops sync_lookahead when there is one frame   *)
(* thread; i_delay starts from param.i_bframe or more, hence line 3.       *)
ASSUME LookaheadAssumption ==
  /\ SyncLookahead \in Nat /\ ThreadFrames \in Nat \ {0} /\ VfrInput \in {0, 1}
  /\ SyncLookahead > 0 => ThreadFrames > 1
  /\ BFrames \in Nat /\ SlicetypeLength \in Nat /\ SlicetypeLength >= BFrames
  /\ Pyramid \in 0..2 /\ (Pyramid > 0 => BFrames > 1)
  /\ References \in Nat \ {0}
  /\ GivenTypes \in BOOLEAN /\ BRefBeforeIdr \in BOOLEAN
  /\ BRefBeforeIdr => GivenTypes
  /\ MaxFrames \in Nat
  /\ Pts \in [Frames -> Nat]
  /\ \A f, g \in Frames : f < g => Pts[f] < Pts[g]

Threaded == SyncLookahead > 0

(* h->frames.i_delay and i_bframe_delay, set when the encoder is opened.   *)
Delay       == SlicetypeLength + (ThreadFrames - 1) + SyncLookahead + VfrInput
BFrameDelay == IF BFrames = 0 THEN 0 ELSE IF Pyramid > 0 THEN 2 ELSE 1

Bug_SmallOfbuf == BFrames + 1

IfbufMax == SyncLookahead + 3
NextMax  == Delay + 3
OfbufMax == Delay + 3

VARIABLES
  ifbuf, next, ofbuf,  \* the lists of the lookahead, in order
  ibframes,            \* ibframes[f]: frame->i_bframes
  reordered,           \* reordered[f]: frame->i_reordered_pts
  ftype,               \* ftype[f]: frame->i_type, "nonB" for I, IDR and P
  exitThread,          \* lookahead->b_exit_thread
  laActive,            \* lookahead->b_thread_active
  laPc,                \* where the lookahead thread is
  draining,            \* it has left its main loop
  encPc,               \* where the API call is
  asleep,              \* which of the two sleep on their condition variable
  current,             \* frames.current
  input,               \* frames.i_input
  iFrame,              \* h->i_frame
  phase,               \* i_thread_phase
  slot,                \* slot[c]: the frame of context c while b_thread_active
  delayTime,           \* frames.i_bframe_delay_time
  prevReordered,       \* frames.i_prev_reordered_pts
  coded,               \* history: frames in the order they were encoded
  dts,                 \* history: dts[i] is the i_dts given to coded[i]
  output               \* history: frames in the order they were output

listVars  == <<ifbuf, next, ofbuf, ibframes, reordered, ftype>>
laVars    == <<exitThread, laActive, laPc, draining>>
codeVars  == <<iFrame, slot, prevReordered, coded, dts, output>>
callVars  == <<input, phase, delayTime>>
vars == <<listVars, laVars, encPc, asleep, current, codeVars, callVars>>

EncPCs == {"idle", "put", "putSignal", "get", "take", "end", "closing", "closed"}
LaPCs  == {"top", "fill", "waitInput", "decide", "emit", "drain", "finish", "done"}

-----------------------------------------------------------------------------
(* Broadcast of the condition variable "la" sleeps on at the given pc.     *)
WakeLa(at)  == IF laPc = at THEN asleep \ {"la"} ELSE asleep
WakeEnc(at) == IF encPc = at THEN asleep \ {"enc"} ELSE asleep

LaAt(at)  == laPc = at /\ "la" \notin asleep
EncAt(at) == encPc = at /\ "enc" \notin asleep

Contexts == 0..(ThreadFrames - 1)
Oldest   == (phase + 1) % ThreadFrames

SmallerOf(a, b) == IF a < b THEN a ELSE b
FirstOf(s, n) == SubSeq(s, 1, n)
RestOf(s, n)  == SubSeq(s, n + 1, Len(s))

Init ==
  /\ ifbuf = <<>> /\ next = <<>> /\ ofbuf = <<>>
  /\ ibframes = [f \in Frames |-> 0]
  /\ reordered = Pts                       \* x264_frame_copy_picture
  /\ ftype = [f \in Frames |-> "auto"]
  /\ exitThread = FALSE
  /\ laActive = Threaded
  /\ laPc = IF Threaded THEN "top" ELSE "done"
  /\ draining = FALSE
  /\ encPc = "idle"
  /\ asleep = {}
  /\ current = <<>>
  /\ input = 0
  /\ iFrame = -1
  /\ phase = 0
  /\ slot = [c \in Contexts |-> NoFrame]
  /\ delayTime = 0
  /\ prevReordered = [i \in 0..(BFrameDelay - 1) |-> 0]
  /\ coded = <<>> /\ dts = <<>> /\ output = <<>>

-----------------------------------------------------------------------------
(* x264_slicetype_decide: the head of next becomes a mini-GOP of b B-      *)
(* frames and the frame after them.  Which b is the business of the        *)
(* analysis; here any value it may come to.  The very first frame is an    *)
(* IDR frame (i_last_keyframe starts at -i_keyint_max), the last waiting   *)
(* frame is never a B-frame.                                               *)
Bug_NoMaximum == IF next[1] = 0 THEN {0} ELSE 0..(Len(next) - 1)

MiniGopSizes ==
  IF next[1] = 0 THEN {0} ELSE 0..SmallerOf(BFrames, Len(next) - 1)

(* B-refs a mini-GOP may have, the rejections of lines 1698-1713.          *)
MaxBRefs ==
  CASE Pyramid = 0 -> 0
    [] Pyramid = 1 -> 1
    [] Pyramid = 2 -> IF References > 4 THEN References - 3 ELSE 1

(* Display positions of the B-refs that were given among the b B-frames.   *)
GivenBRefs(b) ==
  IF GivenTypes THEN {R \in SUBSET (1..b) : Cardinality(R) <= MaxBRefs} ELSE {{}}

(* A B-ref that comes directly before an IDR frame becomes the P frame of  *)
(* its mini-GOP, and stays counted as a B-ref (lines 1741-1751).           *)
Miscounts(b) ==
  IF BRefBeforeIdr /\ b < BFrames /\ b + 2 <= Len(next) /\ next[1] # 0
  THEN {0, 1} ELSE {0}

(* With b-pyramid the middle one of two or more B-frames becomes a B-ref,  *)
(* unless one was counted.                                                 *)
BRefSets(b, extra) ==
  {R \in GivenBRefs(b) : /\ Cardinality(R) + extra <= MaxBRefs
                         /\ Pyramid > 0 /\ b > 1 => R # {} \/ extra > 0}
  \cup (IF Pyramid > 0 /\ b > 1 /\ extra = 0 THEN {{(b \div 2) + 1}} ELSE {})

(* Coded order: the non-B frame, the B-refs, the other B-frames from the   *)
(* place on that the count gives.  The temporary array still has the group *)
(* in display order, from its second place on (line 1795): that shows in a *)
(* place left out.                                                         *)
Bug_OneTooEarly(k, b, R, extra) ==
  IF k = b + 1 THEN 1
  ELSE IF k \in R THEN 1 + Cardinality(R \cap (1..k))
  ELSE Cardinality(R) + extra + Cardinality((1..k) \ R)

Place(k, b, R, extra) ==
  IF k = b + 1 THEN 1
  ELSE IF k \in R THEN 1 + Cardinality(R \cap (1..k))
  ELSE 1 + Cardinality(R) + extra + Cardinality((1..k) \ R)

CodedOrder(b, R, extra) ==
  [i \in 1..(b + 1) |->
     IF \E k \in 1..(b + 1) : Place(k, b, R, extra) = i
     THEN next[CHOOSE k \in 1..(b + 1) : Place(k, b, R, extra) = i]
     ELSE next[i - 1]]

(* i_reordered_pts: the times of the group in display order, given to its  *)
(* frames in coded order.                                                  *)
Bug_KeepPts(b, R, extra) == reordered

ReorderedPts(b, R, extra) ==
  [f \in Frames |->
     IF \E k \in 1..(b + 1) : next[k] = f
     THEN Pts[next[Place(CHOOSE k \in 1..(b + 1) : next[k] = f, b, R, extra)]]
     ELSE reordered[f]]

NewTypes(b, R) ==
  [f \in Frames |->
     IF \E k \in 1..b : next[k] = f
     THEN IF \E k \in R : next[k] = f THEN "BREF" ELSE "B"
     ELSE IF f = next[b + 1] THEN "nonB" ELSE ftype[f]]

Decided(b, R, extra) ==
  /\ ibframes' = [ibframes EXCEPT ![next[b + 1]] = b]
  /\ reordered' = ReorderedPts(b, R, extra)
  /\ ftype' = NewTypes(b, R)

-----------------------------------------------------------------------------
(* x264_lookahead_thread *)

LaTop ==
  /\ LaAt("top")
  /\ laPc' = IF exitThread THEN "drain" ELSE "fill"
  /\ UNCHANGED <<listVars, exitThread, laActive, draining, encPc, asleep, current, codeVars, callVars>>

(* Enough frames to decide on: the comparison of line 99, n is the size of *)
(* next.                                                                   *)
Bug_WaitsForDelay(n) == n > Delay
EnoughFrames(n)      == n > SlicetypeLength + VfrInput

(* Fill next from ifbuf, then decide or wait for input.  The first test of *)
(* the inner while belongs to this critical section.                       *)
LaFill ==
  /\ LaAt("fill")
  /\ LET n      == SmallerOf(NextMax - Len(next), Len(ifbuf))
         woken  == IF n > 0 THEN WakeEnc("put") ELSE asleep
         enough == EnoughFrames(Len(next) + n)
         nap    == ~enough /\ n = Len(ifbuf) /\ ~exitThread
     IN  /\ next' = next \o FirstOf(ifbuf, n)
         /\ ifbuf' = RestOf(ifbuf, n)
         /\ asleep' = IF nap THEN woken \cup {"la"} ELSE woken
         /\ laPc' = IF enough THEN "decide" ELSE IF nap THEN "waitInput" ELSE "top"
  /\ UNCHANGED <<ofbuf, ibframes, reordered, ftype, exitThread, laActive, draining, encPc, current, codeVars, callVars>>

(* Awake again in the inner while.                                         *)
LaWaitInput ==
  /\ LaAt("waitInput")
  /\ IF ifbuf = <<>> /\ ~exitThread
     THEN asleep' = asleep \cup {"la"} /\ UNCHANGED laPc
     ELSE laPc' = "top" /\ UNCHANGED asleep
  /\ UNCHANGED <<listVars, exitThread, laActive, draining, encPc, current, codeVars, callVars>>

(* x264_lookahead_slicetype_decide up to its lock of ofbuf.  next is       *)
(* reordered without a lock: the other thread only reads its size.         *)
LaDecide ==
  /\ LaAt("decide")
  /\ \E b \in MiniGopSizes : \E extra \in Miscounts(b) : \E R \in BRefSets(b, extra) :
       /\ Decided(b, R, extra)
       /\ next' = CodedOrder(b, R, extra) \o RestOf(next, b + 1)
  /\ laPc' = "emit"
  /\ UNCHANGED <<ifbuf, ofbuf, exitThread, laActive, draining, encPc, asleep, current, codeVars, callVars>>

(* A mini-GOP is led by its non-B frame, whose i_bframes gives its size.   *)
GopSize(s) == ibframes[s[1]] + 1

(* Where the thread goes when next is empty, or not, after the main loop.  *)
Bug_DrainsOnce(s) == "finish"

DrainOn(s) == IF s = <<>> THEN "finish" ELSE "decide"

(* The rest of it: wait for room in ofbuf, then move the mini-GOP there.   *)
LaEmit ==
  /\ LaAt("emit")
  /\ IF Len(ofbuf) = OfbufMax
     THEN /\ asleep' = asleep \cup {"la"}
          /\ UNCHANGED <<next, ofbuf, laPc>>
     ELSE /\ ofbuf' = ofbuf \o FirstOf(next, GopSize(next))
          /\ next' = RestOf(next, GopSize(next))
          /\ asleep' = WakeEnc("get")
          /\ laPc' = IF draining THEN DrainOn(next') ELSE "top"
  /\ UNCHANGED <<ifbuf, ibframes, reordered, ftype, exitThread, laActive, draining, encPc, current, codeVars, callVars>>

(* Behind the main loop: all that is left in ifbuf, whatever room next has. *)
LaDrain ==
  /\ LaAt("drain")
  /\ next' = next \o ifbuf
  /\ ifbuf' = <<>>
  /\ asleep' = IF ifbuf # <<>> THEN WakeEnc("put") ELSE asleep
  /\ draining' = TRUE
  /\ laPc' = DrainOn(next')
  /\ UNCHANGED <<ofbuf, ibframes, reordered, ftype, exitThread, laActive, encPc, current, codeVars, callVars>>

LaFinish ==
  /\ LaAt("finish")
  /\ laActive' = FALSE
  /\ asleep' = WakeEnc("get")
  /\ laPc' = "done"
  /\ UNCHANGED <<listVars, exitThread, draining, encPc, current, codeVars, callVars>>

-----------------------------------------------------------------------------
Bug_ForgetsNext == Cardinality({c \in Contexts : slot[c] # NoFrame})
                   + Len(current) + Len(ofbuf) + Len(ifbuf)

(* x264_encoder_delayed_frames, under the three mutexes.                   *)
Delayed == Cardinality({c \in Contexts : slot[c] # NoFrame})
           + Len(current) + Len(ofbuf) + Len(ifbuf) + Len(next)

(* x264_encoder_encode with a picture.                                     *)
(* The ring turns, the picture becomes frame number input.  The delay of   *)
(* the first decoding times is known with frame BFrameDelay.               *)
EncodeCall ==
  /\ encPc = "idle" /\ ~exitThread /\ input < MaxFrames
  /\ phase' = (phase + 1) % ThreadFrames
  /\ input' = input + 1
  /\ delayTime' = IF BFrameDelay > 0 /\ input = BFrameDelay
                  THEN Pts[input] - Pts[0] ELSE delayTime
  /\ encPc' = "put"
  /\ UNCHANGED <<listVars, laVars, asleep, current, codeVars>>

(* x264_lookahead_put_frame: x264_sync_frame_list_push under the mutex.    *)
PutRoom == IF Threaded THEN Len(ifbuf) < IfbufMax ELSE Len(next) < NextMax

Put ==
  /\ EncAt("put")
  /\ IF ~PutRoom
     THEN asleep' = asleep \cup {"enc"} /\ UNCHANGED <<ifbuf, next, encPc>>
     ELSE /\ ifbuf' = IF Threaded THEN Append(ifbuf, input - 1) ELSE ifbuf
          /\ next' = IF Threaded THEN next ELSE Append(next, input - 1)
          /\ encPc' = "putSignal"
          /\ UNCHANGED asleep
  /\ UNCHANGED <<ofbuf, ibframes, reordered, ftype, laVars, current, codeVars, callVars>>

(* The early return of line 3277: the buffers still fill.                  *)
Bug_FillsOneMore == input <= Delay + 2 - ThreadFrames
Filling          == input <= Delay + 1 - ThreadFrames

PutSignal ==
  /\ EncAt("putSignal")
  /\ asleep' = WakeLa("waitInput")
  /\ IF Filling
     THEN encPc' = "idle" /\ UNCHANGED iFrame
     ELSE encPc' = "get" /\ iFrame' = iFrame + 1
  /\ UNCHANGED <<listVars, laVars, current, slot, prevReordered, coded, dts, output, callVars>>

(* The broadcast that goes with b_exit_thread.                             *)
Bug_NoExitSignal == asleep
ExitSignal       == WakeLa("waitInput")

(* x264_encoder_encode without a picture: the client does it, and nothing  *)
(* but it, while x264_encoder_delayed_frames is not 0 (x264.c:1961).       *)
FlushCall ==
  /\ encPc = "idle" /\ Delayed # 0
  /\ phase' = (phase + 1) % ThreadFrames
  /\ exitThread' = TRUE
  /\ asleep' = ExitSignal
  /\ iFrame' = iFrame + 1
  /\ encPc' = "get"
  /\ UNCHANGED <<listVars, laActive, laPc, draining, current, slot, prevReordered, coded, dts, output, input, delayTime>>

-----------------------------------------------------------------------------
(* Its common part *)

(* x264_lookahead_get_frames, when frames.current is empty and there is a  *)
(* lookahead thread.                                                       *)
Bug_StopsAtExit == ofbuf = <<>> /\ ~exitThread
MustWait        == ofbuf = <<>> /\ laActive

GetFromThread ==
  /\ EncAt("get") /\ Threaded /\ current = <<>>
  /\ IF MustWait
     THEN asleep' = asleep \cup {"enc"} /\ UNCHANGED <<ofbuf, current, encPc>>
     ELSE /\ IF ofbuf = <<>>
             THEN UNCHANGED <<ofbuf, current, asleep>>
             ELSE /\ current' = FirstOf(ofbuf, GopSize(ofbuf))
                  /\ ofbuf' = RestOf(ofbuf, GopSize(ofbuf))
                  /\ asleep' = WakeLa("emit")
          /\ encPc' = "take"
  /\ UNCHANGED <<ifbuf, next, ibframes, reordered, ftype, laVars, codeVars, callVars>>

(* The same without one: the decision is made in the call, and the         *)
(* mini-GOP goes through ofbuf.                                            *)
GetInline ==
  /\ EncAt("get") /\ ~Threaded /\ current = <<>>
  /\ IF next = <<>>
     THEN UNCHANGED <<next, ibframes, reordered, ftype, current>>
     ELSE \E b \in MiniGopSizes : \E extra \in Miscounts(b) : \E R \in BRefSets(b, extra) :
            /\ Decided(b, R, extra)
            /\ current' = CodedOrder(b, R, extra)
            /\ next' = RestOf(next, b + 1)
  /\ encPc' = "take"
  /\ UNCHANGED <<ifbuf, ofbuf, laVars, asleep, codeVars, callVars>>

GetNothing ==
  /\ EncAt("get") /\ current # <<>>
  /\ encPc' = "take"
  /\ UNCHANGED <<listVars, laVars, asleep, current, codeVars, callVars>>

(* i_dts of frame f, the one numbered iFrame in coded order.               *)
DtsOf(f) ==
  IF BFrameDelay = 0 THEN reordered[f]
  ELSE IF iFrame > BFrameDelay THEN prevReordered[(iFrame - BFrameDelay) % BFrameDelay]
  ELSE reordered[f] - delayTime

(* Lines 3297-3702: the next frame of current, if there is one, is given   *)
(* to the context of this call.                                            *)
IsEmpty == next = <<>> /\ ofbuf = <<>>

TakeFrame ==
  /\ EncAt("take") /\ current # <<>>
  /\ current' = Tail(current)
  /\ slot' = [slot EXCEPT ![phase] = current[1]]
  /\ coded' = Append(coded, current[1])
  /\ dts' = Append(dts, DtsOf(current[1]))
  /\ prevReordered' = IF BFrameDelay = 0 THEN prevReordered
                      ELSE [prevReordered EXCEPT ![iFrame % BFrameDelay] = reordered[current[1]]]
  /\ encPc' = "end"
  /\ UNCHANGED <<listVars, laVars, asleep, iFrame, output, callVars>>

TakeNothing ==
  /\ EncAt("take") /\ current = <<>> /\ IsEmpty
  /\ encPc' = "end"
  /\ UNCHANGED <<listVars, laVars, asleep, current, codeVars, callVars>>

(* x264_encoder_frame_end of the oldest context: its frame comes out.      *)
Bug_EndsFirst == 0
Ending        == Oldest

EndFrame ==
  /\ EncAt("end")
  /\ IF slot[Ending] = NoFrame
     THEN UNCHANGED <<slot, output>>
     ELSE /\ output' = Append(output, slot[Ending])
          /\ slot' = [slot EXCEPT ![Ending] = NoFrame]
  /\ encPc' = "idle"
  /\ UNCHANGED <<listVars, laVars, asleep, current, iFrame, prevReordered, coded, dts, callVars>>

-----------------------------------------------------------------------------
(* x264_encoder_close: x264_lookahead_delete asks the thread to stop and   *)
(* joins it.  The client may close with frames still delayed.              *)
CloseCall ==
  /\ encPc = "idle"
  /\ encPc' = "closing"
  /\ IF Threaded
     THEN exitThread' = TRUE /\ asleep' = ExitSignal
     ELSE UNCHANGED <<exitThread, asleep>>
  /\ UNCHANGED <<listVars, laActive, laPc, draining, current, codeVars, callVars>>

CloseJoin ==
  /\ encPc = "closing" /\ laPc = "done"
  /\ encPc' = "closed"
  /\ UNCHANGED <<listVars, laVars, asleep, current, codeVars, callVars>>

(* pthread_cond_wait may return for no reason.                             *)
SpuriousWakeup ==
  /\ \E t \in asleep : asleep' = asleep \ {t}
  /\ UNCHANGED <<listVars, laVars, encPc, current, codeVars, callVars>>

Terminated == encPc = "closed" /\ UNCHANGED vars

LaStep   == LaTop \/ LaFill \/ LaWaitInput \/ LaDecide \/ LaEmit \/ LaDrain \/ LaFinish
CallStep == \/ Put \/ PutSignal
            \/ GetFromThread \/ GetInline \/ GetNothing
            \/ TakeFrame \/ TakeNothing \/ EndFrame \/ CloseJoin

Next == \/ LaStep \/ CallStep
        \/ EncodeCall \/ FlushCall \/ CloseCall
        \/ SpuriousWakeup \/ Terminated

Spec == Init /\ [][Next]_vars

(* Both threads are scheduled; a client that has begun to flush goes on    *)
(* until nothing is delayed, or closes.                                    *)
Fairness == /\ WF_vars(LaStep) /\ WF_vars(CallStep)
            /\ WF_vars(exitThread /\ FlushCall)

FairSpec == Spec /\ Fairness

-----------------------------------------------------------------------------
(* Every variable has its type, the lists keep to their room.              *)
TypeOK ==
  /\ ifbuf \in Seq(Frames) /\ next \in Seq(Frames)
  /\ ofbuf \in Seq(Frames) /\ current \in Seq(Frames)
  /\ ibframes \in [Frames -> 0..BFrames]
  /\ ftype \in [Frames -> {"auto", "nonB", "BREF", "B"}]
  /\ exitThread \in BOOLEAN /\ laActive \in BOOLEAN /\ draining \in BOOLEAN
  /\ laPc \in LaPCs /\ encPc \in EncPCs
  /\ asleep \subseteq {"la", "enc"}
  /\ input \in 0..MaxFrames /\ phase \in Contexts
  /\ slot \in [Contexts -> Frames \cup {NoFrame}]

(* No frame is lost or doubled on its way from the caller to the output:   *)
(* each frame put in is in exactly one place, over both threads.           *)
InHand == IF encPc = "put" THEN <<input - 1>> ELSE <<>>
Held   == {c \in Contexts : slot[c] # NoFrame}

FramesConserved ==
  LET lists == InHand \o ifbuf \o next \o ofbuf \o current \o output
      held  == {slot[c] : c \in Held}
  IN  /\ ToSet(lists) \cup held = 0..(input - 1)
      /\ Len(lists) + Cardinality(Held) = input

(* The asserts of x264_lookahead_shift: the list a mini-GOP or the rest of *)
(* ifbuf is moved to has room for it, the list it comes from has it.       *)
ShiftsFit ==
  /\ LaAt("emit") /\ Len(ofbuf) # OfbufMax =>
       /\ Len(ofbuf) + GopSize(next) <= OfbufMax
       /\ Len(next) >= GopSize(next)
  /\ LaAt("drain") => Len(next) + Len(ifbuf) <= NextMax

(* x264_encoder_encode takes a frame without a check (line 3302) when      *)
(* x264_lookahead_is_empty said that there are more: current is not empty. *)
NeverStarves == encPc = "take" /\ current = <<>> => IsEmpty

(* Between two calls at most maximum_delayed_frames are delayed, which is  *)
(* what x264.h promises of it.                                             *)
DelayBounded == encPc = "idle" => Delayed <= Delay

(* Frames come out in the order they were coded, and the contexts hold     *)
(* those that are still to come, oldest first along the ring.              *)
OutputInCodedOrder ==
  /\ Len(output) + Cardinality(Held) = Len(coded)
  /\ SubSeq(coded, 1, Len(output)) = output

(* Decoding times increase from frame to frame and no frame is shown       *)
(* before it is decoded (the warning of x264_encoder_frame_end), but for   *)
(* B-frames with two or more B-refs behind them in their mini-GOP: these   *)
(* are coded earlier, and i_bframe_delay (line 1464) makes up for one.     *)
Late(f) ==
  /\ MaxBRefs > 1 /\ GivenTypes
  /\ \E g, h \in Frames :
       /\ f < g /\ g < h /\ ftype[g] = "BREF" /\ ftype[h] = "BREF"
       /\ \A k \in f..h : ftype[k] \in {"B", "BREF"}

Increasing == \A i \in 2..Len(dts) : dts[i - 1] < dts[i]

TimestampsOK ==
  Increasing /\ \A i \in 1..Len(coded) : dts[i] <= Pts[coded[i]] \/ Late(coded[i])

(* The same without the exception, for an encoder that decides the types   *)
(* itself.                                                                 *)
DecodedBeforeShown == Increasing /\ \A i \in 1..Len(coded) : dts[i] <= Pts[coded[i]]

(* Without a lookahead thread x264_lookahead_get_frames decides inside of  *)
(* the call (lookahead.c:227-243), and still every frame comes out once,   *)
(* within the promised delay and with such times.                          *)
InlineGuarantees == FramesConserved /\ DelayBounded /\ TimestampsOK

(* A call of x264_encoder_encode returns: nobody waits for the other.      *)
EncodeReturns == (encPc = "put" \/ encPc = "get") ~> encPc = "idle"

(* The flush loop of x264.c ends, with every frame out.                    *)
FlushEnds ==
  (encPc = "idle" /\ exitThread) ~> (encPc = "closing" \/ (Delayed = 0 /\ Len(output) = input))

(* x264_encoder_close returns, also when frames are still delayed.         *)
CloseReturns == encPc = "closing" ~> encPc = "closed"
=============================================================================
