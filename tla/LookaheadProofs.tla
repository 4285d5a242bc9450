-------------------------- MODULE LookaheadProofs ---------------------------
(***************************************************************************)
(* Theorems about Lookahead, for any lengths of the lists, numbers of      *)
(* threads and B-frames, with and without a lookahead thread.              *)
(*                                                                         *)
(* The argument rests on one sequence that no step reorders: Order, the    *)
(* frames whose place in coded order is decided, wherever they are.  A     *)
(* decision appends one mini-GOP to it and every other step hands frames   *)
(* on along it (OrderOK).  The frames not decided yet follow it without a  *)
(* gap (WaitingOK), it is cut into mini-GOPs at fixed places (GroupsOK),   *)
(* and the contexts hold its last coded frames along the ring (RingOK).    *)
(***************************************************************************)
EXTENDS Lookahead, SequenceTheorems, FiniteSetTheorems, TLAPS

(* While the lookahead thread waits for room in ofbuf the mini-GOP at the  *)
(* head of next is decided already.                                        *)
Deciding == IF laPc = "emit" THEN FirstOf(next, GopSize(next)) ELSE <<>>
Waiting  == IF laPc = "emit" THEN RestOf(next, GopSize(next)) ELSE next

Order == coded \o current \o ofbuf \o Deciding

Types ==
  /\ TypeOK
  /\ reordered \in [Frames -> Nat]
  /\ prevReordered \in [0..(BFrameDelay - 1) -> Nat]
  /\ coded \in Seq(Frames) /\ output \in Seq(Frames) /\ dts \in Seq(Int)
  /\ iFrame \in Int /\ delayTime \in Int

WaitingOK ==
  LET w == Len(Order) + Len(Waiting)
  IN  /\ \A i \in 1..Len(Waiting) : Waiting[i] = Len(Order) + i - 1
      /\ \A i \in 1..Len(ifbuf) : ifbuf[i] = w + i - 1
      /\ input = w + Len(ifbuf) + (IF encPc = "put" THEN 1 ELSE 0)

(* Frame f has two B-refs behind it in its mini-GOP, by the given types.   *)
Behind(types, f) ==
  /\ MaxBRefs > 1 /\ GivenTypes
  /\ \E g, h \in Frames :
       /\ f < g /\ g < h /\ types[g] = "BREF" /\ types[h] = "BREF"
       /\ \A k \in f..h : types[k] \in {"B", "BREF"}

OrderOK ==
  /\ \A i \in 1..Len(Order) :
        /\ Order[i] < Len(Order)
        /\ Order[i] >= i - 1 - BFrameDelay \/ Behind(ftype, Order[i])
        /\ reordered[Order[i]] = Pts[i - 1]
  /\ \A i, j \in 1..Len(Order) : Order[i] = Order[j] => i = j
  /\ \A f \in 0..(Len(Order) - 1) : \E i \in 1..Len(Order) : Order[i] = f
  /\ Order # <<>> => Order[1] = 0
  /\ \A f \in Frames : f >= Len(Order) => ftype[f] = "auto"

(* Cuts are the places between two mini-GOPs: nothing but whole mini-GOPs  *)
(* is in ofbuf.                                                            *)
CutsOK(cuts) ==
  /\ cuts \subseteq 0..Len(Order)
  /\ Len(coded) + Len(current) \in cuts
  /\ Len(coded) + Len(current) + Len(ofbuf) \in cuts
  /\ Len(Order) \in cuts
  /\ \A c \in cuts : c < Len(Order) =>
        /\ c + ibframes[Order[c + 1]] + 1 \in cuts
        /\ \A d \in cuts : d > c => d >= c + ibframes[Order[c + 1]] + 1

GroupsOK == \E cuts \in SUBSET Nat : CutsOK(cuts)

ThreadOK ==
  /\ Threaded => (laActive <=> laPc # "done")
  /\ ~Threaded => ~laActive /\ laPc = "done" /\ ifbuf = <<>> /\ ofbuf = <<>> /\ ~draining
  /\ Threaded /\ (draining \/ laPc \in {"drain", "finish", "done"}) => exitThread
  /\ Threaded /\ (draining \/ laPc \in {"finish", "done"}) => ifbuf = <<>>
  /\ Threaded /\ laPc \in {"finish", "done"} => next = <<>>
  /\ laPc \in {"decide", "emit"} => next # <<>>
  /\ laPc = "emit" => GopSize(next) \in 1..Len(next)

(* Nothing is left to encode: calls only output what the contexts hold.    *)
Finished == exitThread /\ Len(coded) = input

Turned == encPc \in {"put", "putSignal", "get", "take"}

CallOK ==
  /\ exitThread => encPc \notin {"put", "putSignal"}
  /\ encPc \in {"put", "putSignal"} => input > 0
  /\ ~exitThread /\ (coded # <<>> \/ encPc \in {"get", "take"}) => ~Filling
  /\ input - Len(coded) <= Delay + 1 - ThreadFrames + (IF Turned THEN 1 ELSE 0)
  /\ iFrame = Len(coded) - (IF encPc \in {"get", "take"} THEN 0 ELSE 1) \/ Finished
  /\ ~Threaded /\ ~exitThread /\ encPc \in {"putSignal", "get"} => next # <<>>
  /\ encPc = "take" /\ current = <<>> =>
        exitThread /\ laPc = "done" /\ ifbuf = <<>> /\ next = <<>> /\ ofbuf = <<>>

(* The decoding time of the n-th frame in coded order.                     *)
DtsAt(n) ==
  IF BFrameDelay = 0 THEN Pts[n]
  ELSE IF n > BFrameDelay THEN Pts[n - BFrameDelay]
  ELSE Pts[n] - delayTime

TimesOK ==
  /\ delayTime = IF BFrameDelay > 0 /\ input > BFrameDelay
                 THEN Pts[BFrameDelay] - Pts[0] ELSE 0
  /\ Len(dts) = Len(coded)
  /\ \A i \in 1..Len(coded) :
        /\ dts[i] = DtsAt(i - 1)
        /\ i > Len(coded) - BFrameDelay => prevReordered[(i - 1) % BFrameDelay] = Pts[i - 1]

(* How many calls ago the ring passed context c.                           *)
Age(c) == IF c <= phase THEN phase - c ELSE phase - c + ThreadFrames

RingAt(gap) ==
  LET n == Len(coded)
      h == n - Len(output)
  IN  /\ gap + h <= ThreadFrames
      /\ encPc \in {"idle", "closing", "closed"} => gap + h < ThreadFrames
      /\ ~Finished => gap = IF Turned THEN 1 ELSE 0
      /\ \A c \in Contexts :
            slot[c] = IF gap <= Age(c) /\ Age(c) < gap + h
                      THEN coded[n - (Age(c) - gap)] ELSE NoFrame

RingOK ==
  /\ Len(output) <= Len(coded)
  /\ \A i \in 1..Len(output) : output[i] = coded[i]
  /\ \E gap \in Nat : RingAt(gap)

IInv == /\ Types
        /\ WaitingOK
        /\ OrderOK
        /\ GroupsOK
        /\ ThreadOK
        /\ CallOK
        /\ TimesOK
        /\ RingOK

-----------------------------------------------------------------------------
(* The constants.                                                          *)

LEMMA ConstantFacts ==
  /\ Delay \in Nat /\ Delay + 1 - ThreadFrames >= BFrames /\ Delay + 1 - ThreadFrames \in Nat
  /\ IfbufMax \in Nat /\ NextMax = Delay + 3 /\ OfbufMax = Delay + 3
  /\ BFrames \in Nat /\ ThreadFrames \in Nat /\ ThreadFrames > 0 /\ MaxFrames \in Nat
  /\ BFrameDelay \in {0, 1, 2} /\ BFrameDelay <= BFrames
  /\ BFrames > 0 => BFrameDelay > 0
  /\ Pyramid > 0 => BFrameDelay = 2
  /\ Pts \in [Frames -> Nat]
  /\ \A f, g \in Frames : f < g => Pts[f] < Pts[g]
BY LookaheadAssumption DEF Delay, IfbufMax, NextMax, OfbufMax, BFrameDelay

LEMMA FrameFacts ==
  /\ \A f : f \in Frames <=> f \in Nat /\ f < MaxFrames
  /\ NoFrame \notin Frames
BY LookaheadAssumption DEF Frames, NoFrame

LEMMA Smaller ==
  ASSUME NEW a \in Int, NEW b \in Int
  PROVE  /\ SmallerOf(a, b) \in {a, b} /\ SmallerOf(a, b) <= a /\ SmallerOf(a, b) <= b
BY DEF SmallerOf

-----------------------------------------------------------------------------
(* Sequences: a head and the rest, and frames handed on along two of them. *)

LEMMA Parts ==
  ASSUME NEW S, NEW s \in Seq(S), NEW n \in 0..Len(s)
  PROVE  /\ FirstOf(s, n) \in Seq(S) /\ Len(FirstOf(s, n)) = n
         /\ \A i \in 1..n : FirstOf(s, n)[i] = s[i]
         /\ RestOf(s, n) \in Seq(S) /\ Len(RestOf(s, n)) = Len(s) - n
         /\ \A i \in 1..(Len(s) - n) : RestOf(s, n)[i] = s[n + i]
<1>1. /\ FirstOf(s, n) \in Seq(S) /\ Len(FirstOf(s, n)) = n
      /\ \A i \in 1..n : FirstOf(s, n)[i] = s[i]
  BY DEF FirstOf
<1>2. /\ RestOf(s, n) \in Seq(S) /\ Len(RestOf(s, n)) = Len(s) - n
      /\ \A i \in 1..(Len(s) - n) : RestOf(s, n)[i] = s[n + i]
  BY DEF RestOf
<1> QED BY <1>1, <1>2

LEMMA Concat ==
  ASSUME NEW S, NEW s \in Seq(S), NEW t \in Seq(S)
  PROVE  /\ s \o t \in Seq(S) /\ Len(s \o t) = Len(s) + Len(t)
         /\ \A i \in 1..Len(s) : (s \o t)[i] = s[i]
         /\ \A i \in 1..Len(t) : (s \o t)[Len(s) + i] = t[i]
BY ConcatProperties

LEMMA Whole ==
  ASSUME NEW S, NEW s \in Seq(S), NEW n \in 0..Len(s)
  PROVE  FirstOf(s, n) \o RestOf(s, n) = s
<1> DEFINE a == FirstOf(s, n)
           b == RestOf(s, n)
<1>1. /\ a \in Seq(S) /\ Len(a) = n /\ \A i \in 1..n : a[i] = s[i]
      /\ b \in Seq(S) /\ Len(b) = Len(s) - n /\ \A i \in 1..(Len(s) - n) : b[i] = s[n + i]
  BY Parts
<1> HIDE DEF a, b
<1>2. a \o b \in Seq(S) /\ Len(a \o b) = Len(s)
  BY <1>1, Concat
<1>3. ASSUME NEW i \in 1..Len(s) PROVE (a \o b)[i] = s[i]
  <2>1. CASE i <= n
    BY <1>1, <2>1, Concat
  <2>2. CASE i > n
    <3>1. i - n \in 1..Len(b) /\ n + (i - n) = i
      BY <1>1, <2>2
    <3>2. (a \o b)[Len(a) + (i - n)] = b[i - n]
      BY <1>1, <3>1, Concat
    <3> QED BY <1>1, <3>1, <3>2
  <2>3. i <= n \/ i > n
    OBVIOUS
  <2> QED BY <2>1, <2>2, <2>3
<1> QED BY <1>2, <1>3, SeqEqual DEF a, b

LEMMA NothingFirst ==
  ASSUME NEW S, NEW s \in Seq(S) PROVE <<>> \o s = s /\ s \o <<>> = s
BY ConcatEmptySeq

LEMMA HandOn ==
  ASSUME NEW S, NEW s \in Seq(S), NEW t \in Seq(S), t # <<>>
  PROVE  Append(s, t[1]) \o Tail(t) = s \o t
<1>1. /\ Tail(t) \in Seq(S) /\ Len(Tail(t)) = Len(t) - 1 /\ Len(t) > 0 /\ t[1] \in S
      /\ \A i \in 1..(Len(t) - 1) : Tail(t)[i] = t[i + 1]
  BY HeadTailProperties
<1> DEFINE a == Append(s, t[1])
           b == Tail(t)
<1>2. /\ a \in Seq(S) /\ Len(a) = Len(s) + 1
      /\ \A i \in 1..Len(s) : a[i] = s[i]
      /\ a[Len(s) + 1] = t[1]
  BY <1>1
<1>0. b \in Seq(S) /\ Len(b) = Len(t) - 1 /\ Len(t) \in Nat
  BY <1>1
<1> HIDE DEF a, b
<1>3. a \o b \in Seq(S) /\ Len(a \o b) = Len(s) + Len(t)
  <2>1. Len(a \o b) = Len(a) + Len(b)
    BY <1>0, <1>2, Concat
  <2>2. a \o b \in Seq(S)
    BY <1>0, <1>2, Concat
  <2>3. (Len(s) + 1) + (Len(t) - 1) = Len(s) + Len(t)
    BY <1>0
  <2> QED BY <1>0, <1>2, <2>1, <2>2, <2>3
<1>4. s \o t \in Seq(S) /\ Len(s \o t) = Len(s) + Len(t)
  BY Concat
<1>5. ASSUME NEW i \in 1..(Len(s) + Len(t)) PROVE (a \o b)[i] = (s \o t)[i]
  <2>0. Len(s) \in Nat /\ Len(t) \in Nat
    OBVIOUS
  <2>1. CASE i <= Len(s)
    BY <1>1, <1>2, <2>0, <2>1, Concat DEF b
  <2>2. CASE i = Len(s) + 1
    <3>1. (a \o b)[i] = t[1]
      BY <1>1, <1>2, <2>0, <2>2, Concat DEF b
    <3>2. (s \o t)[Len(s) + 1] = t[1]
      BY <1>1, <2>0, Concat
    <3> QED BY <2>2, <3>1, <3>2
  <2>3. CASE i > Len(s) + 1
    <3> DEFINE k == i - Len(s) - 1
    <3>1. k \in 1..Len(b) /\ k + 1 \in 1..Len(t) /\ Len(a) + k = i /\ Len(s) + (k + 1) = i
      BY <1>1, <1>2, <2>0, <2>3 DEF b
    <3> HIDE DEF k
    <3>2. (a \o b)[Len(a) + k] = b[k] /\ (s \o t)[Len(s) + (k + 1)] = t[k + 1]
      BY <1>1, <1>2, <3>1, Concat DEF b
    <3>3. b[k] = t[k + 1]
      BY <1>1, <2>0, <3>1 DEF b
    <3> QED BY <3>1, <3>2, <3>3
  <2>4. i <= Len(s) \/ i = Len(s) + 1 \/ i > Len(s) + 1
    BY <2>0
  <2> QED BY <2>1, <2>2, <2>3, <2>4
<1> QED BY <1>3, <1>4, <1>5, SeqEqual DEF a, b

-----------------------------------------------------------------------------
(* Order, piece by piece.                                                  *)

LEMMA Pieces ==
  ASSUME Types, ThreadOK
  PROVE  /\ Deciding \in Seq(Frames) /\ Waiting \in Seq(Frames)
         /\ Len(next) = Len(Deciding) + Len(Waiting)
         /\ \A i \in 1..Len(Deciding) : Deciding[i] = next[i]
         /\ \A i \in 1..Len(Waiting) : Waiting[i] = next[Len(Deciding) + i]
         /\ laPc = "emit" => Len(Deciding) = GopSize(next) /\ GopSize(next) \in 1..Len(next)
         /\ laPc # "emit" => Deciding = <<>> /\ Waiting = next
<1>1. next \in Seq(Frames)
  BY DEF Types, TypeOK
<1>2. CASE laPc = "emit"
  <2>1. PICK n \in 1..Len(next) : n = GopSize(next)
    BY <1>2 DEF ThreadOK
  <2>2. n \in 0..Len(next) /\ Len(next) \in Nat
    BY <1>1, <2>1
  <2>3. Deciding = FirstOf(next, n) /\ Waiting = RestOf(next, n)
    BY <1>2, <2>1 DEF Deciding, Waiting
  <2>4. /\ FirstOf(next, n) \in Seq(Frames) /\ Len(FirstOf(next, n)) = n
        /\ \A i \in 1..n : FirstOf(next, n)[i] = next[i]
        /\ RestOf(next, n) \in Seq(Frames) /\ Len(RestOf(next, n)) = Len(next) - n
        /\ \A i \in 1..(Len(next) - n) : RestOf(next, n)[i] = next[n + i]
    BY <1>1, <2>2, Parts
  <2>5. n + (Len(next) - n) = Len(next)
    BY <2>2
  <2> QED BY <1>2, <2>1, <2>3, <2>4, <2>5
<1>3. CASE laPc # "emit"
  BY <1>1, <1>3 DEF Deciding, Waiting
<1> QED BY <1>2, <1>3

LEMMA OrderPieces ==
  ASSUME Types, Deciding \in Seq(Frames)
  PROVE  /\ Order \in Seq(Frames)
         /\ Len(Order) = Len(coded) + Len(current) + Len(ofbuf) + Len(Deciding)
         /\ \A i \in 1..Len(coded) : Order[i] = coded[i]
         /\ \A i \in 1..Len(current) : Order[Len(coded) + i] = current[i]
         /\ \A i \in 1..Len(ofbuf) : Order[Len(coded) + Len(current) + i] = ofbuf[i]
         /\ \A i \in 1..Len(Deciding) :
               Order[Len(coded) + Len(current) + Len(ofbuf) + i] = Deciding[i]
<1> DEFINE s == coded
           t == coded \o current
           u == (coded \o current) \o ofbuf
<1>1. /\ coded \in Seq(Frames) /\ current \in Seq(Frames) /\ ofbuf \in Seq(Frames)
      /\ Deciding \in Seq(Frames)
  BY DEF Types, TypeOK
<1>2. /\ t \in Seq(Frames) /\ Len(t) = Len(coded) + Len(current)
      /\ \A i \in 1..Len(coded) : t[i] = coded[i]
      /\ \A i \in 1..Len(current) : t[Len(coded) + i] = current[i]
  BY <1>1, Concat
<1> HIDE DEF t
<1>3. /\ u \in Seq(Frames) /\ Len(u) = Len(t) + Len(ofbuf)
      /\ \A i \in 1..Len(t) : u[i] = t[i]
      /\ \A i \in 1..Len(ofbuf) : u[Len(t) + i] = ofbuf[i]
  <2>1. u = t \o ofbuf
    BY DEF t
  <2> QED BY <1>1, <1>2, <2>1, Concat
<1> HIDE DEF u
<1>4. /\ Order \in Seq(Frames) /\ Len(Order) = Len(u) + Len(Deciding)
      /\ \A i \in 1..Len(u) : Order[i] = u[i]
      /\ \A i \in 1..Len(Deciding) : Order[Len(u) + i] = Deciding[i]
  <2>1. Order = u \o Deciding
    BY DEF Order, u
  <2>0. u \in Seq(Frames)
    BY <1>3
  <2>2. /\ u \o Deciding \in Seq(Frames) /\ Len(u \o Deciding) = Len(u) + Len(Deciding)
        /\ \A i \in 1..Len(u) : (u \o Deciding)[i] = u[i]
        /\ \A i \in 1..Len(Deciding) : (u \o Deciding)[Len(u) + i] = Deciding[i]
    BY <2>0, Concat
  <2> QED BY <2>1, <2>2
<1>5. Len(coded) \in Nat /\ Len(current) \in Nat /\ Len(ofbuf) \in Nat
  BY <1>1
<1>6. \A i \in 1..Len(coded) : Order[i] = coded[i]
  <2> TAKE i \in 1..Len(coded)
  <2>1. i \in 1..Len(t) /\ i \in 1..Len(u)
    BY <1>2, <1>3, <1>5
  <2> QED BY <1>2, <1>3, <1>4, <2>1
<1>7. \A i \in 1..Len(current) : Order[Len(coded) + i] = current[i]
  <2> TAKE i \in 1..Len(current)
  <2>1. Len(coded) + i \in 1..Len(t) /\ Len(coded) + i \in 1..Len(u)
    BY <1>2, <1>3, <1>5
  <2> QED BY <1>2, <1>3, <1>4, <2>1
<1>8. \A i \in 1..Len(ofbuf) : Order[Len(coded) + Len(current) + i] = ofbuf[i]
  <2> TAKE i \in 1..Len(ofbuf)
  <2>1. Len(t) + i \in 1..Len(u)
    BY <1>2, <1>3, <1>5
  <2> QED BY <1>2, <1>3, <1>4, <2>1
<1> QED BY <1>2, <1>3, <1>4, <1>6, <1>7, <1>8

-----------------------------------------------------------------------------
(* A mini-GOP of b B-frames, decided on frames d, d + 1, ... at the head   *)
(* of next.                                                                *)

LEMMA MaxBRefsFacts ==
  MaxBRefs \in Nat /\ (Pyramid = 0 => MaxBRefs = 0) /\ (Pyramid = 0 \/ Pyramid > 0)
BY LookaheadAssumption DEF MaxBRefs

(* How many of the first k B-frames are B-refs, and how many are not.      *)
LEMMA Shares ==
  ASSUME NEW b \in Nat, NEW R \in SUBSET (1..b), NEW k \in 0..b
  PROVE  /\ IsFiniteSet(R) /\ Cardinality(R) \in Nat
         /\ IsFiniteSet(R \cap (1..k)) /\ IsFiniteSet((1..k) \ R) /\ IsFiniteSet(R \ (1..k))
         /\ Cardinality(R \cap (1..k)) \in 0..Cardinality(R)
         /\ Cardinality((1..k) \ R) = k - Cardinality(R \cap (1..k))
         /\ Cardinality(R \ (1..k)) = Cardinality(R) - Cardinality(R \cap (1..k))
<1>1. IsFiniteSet(1..b) /\ IsFiniteSet(1..k) /\ Cardinality(1..k) = k
  BY FS_Interval
<1>2. IsFiniteSet(R) /\ Cardinality(R) \in Nat
  BY <1>1, FS_Subset, FS_CardinalityType
<1>3. /\ IsFiniteSet(R \cap (1..k)) /\ Cardinality(R \cap (1..k)) \in Nat
      /\ Cardinality(R \cap (1..k)) <= Cardinality(R)
  BY <1>2, FS_Intersection, FS_CardinalityType
<1>4. /\ IsFiniteSet((1..k) \ R)
      /\ Cardinality((1..k) \ R) = Cardinality(1..k) - Cardinality((1..k) \cap R)
  BY <1>1, FS_Difference
<1>5. /\ IsFiniteSet(R \ (1..k))
      /\ Cardinality(R \ (1..k)) = Cardinality(R) - Cardinality(R \cap (1..k))
  BY <1>2, FS_Difference
<1>6. (1..k) \cap R = R \cap (1..k)
  OBVIOUS
<1>7. Cardinality((1..k) \ R) = k - Cardinality(R \cap (1..k))
  BY <1>1, <1>4, <1>6
<1> QED BY <1>2, <1>3, <1>4, <1>5, <1>7

(* A proper part of a finite set has fewer elements.                       *)
LEMMA Fewer ==
  ASSUME NEW S, IsFiniteSet(S), NEW T \in SUBSET S, NEW x \in S, x \notin T
  PROVE  Cardinality(T) < Cardinality(S)
<1>1. Cardinality(T) <= Cardinality(S) /\ Cardinality(T) # Cardinality(S)
  BY FS_Subset
<1>2. Cardinality(T) \in Nat /\ Cardinality(S) \in Nat
  BY FS_Subset, FS_CardinalityType
<1> QED BY <1>1, <1>2

(* The places of a group are a permutation that puts a B-ref no place      *)
(* behind its own, and another B-frame behind by the B-refs after it.      *)
LEMMA PlaceFacts ==
  ASSUME NEW b \in Nat, NEW R \in SUBSET (1..b)
  PROVE  /\ Place(b + 1, b, R, 0) = 1
         /\ \A k \in 1..(b + 1) : Place(k, b, R, 0) \in 1..(b + 1)
         /\ \A j, k \in 1..(b + 1) : Place(j, b, R, 0) = Place(k, b, R, 0) => j = k
         /\ \A k \in 1..(b + 1) : R = {} => Place(k, b, R, 0) <= k + 1
         /\ \A k \in 1..(b + 1) : \/ Place(k, b, R, 0) <= k + 2
                                  \/ k <= b /\ \E g, h \in R : k < g /\ g < h
<1> DEFINE P(k) == Place(k, b, R, 0)
           c(k) == Cardinality(R \cap (1..k))
           e(k) == Cardinality((1..k) \ R)
           r == Cardinality(R)
<1>0. r \in Nat
  <2>1. 0 \in 0..b
    OBVIOUS
  <2> QED BY <2>1, Shares
<1>1. ASSUME NEW k \in 0..b
      PROVE  /\ c(k) \in 0..r /\ c(k) \in Nat /\ e(k) = k - c(k) /\ e(k) \in Nat
             /\ IsFiniteSet(R \cap (1..k)) /\ IsFiniteSet((1..k) \ R)
             /\ IsFiniteSet(R \ (1..k)) /\ Cardinality(R \ (1..k)) = r - c(k)
  <2>1. e(k) \in Nat
    BY Shares, FS_CardinalityType
  <2> QED BY <2>1, Shares
<1>2. /\ P(b + 1) = 1
      /\ \A k \in 1..b : k \in R => P(k) = 1 + c(k)
      /\ \A k \in 1..b : k \notin R => P(k) = 1 + r + e(k)
  <2>1. P(b + 1) = 1
    BY DEF Place
  <2>2. ASSUME NEW k \in 1..b PROVE k # b + 1
    OBVIOUS
  <2>3. ASSUME NEW k \in 1..b, k \in R PROVE P(k) = 1 + c(k)
    BY <2>2, <2>3 DEF Place
  <2>4. ASSUME NEW k \in 1..b, k \notin R PROVE P(k) = 1 + r + e(k)
    <3>1. P(k) = 1 + r + 0 + e(k)
      BY <2>2, <2>4 DEF Place
    <3> QED BY <1>0, <3>1
  <2> QED BY <2>1, <2>3, <2>4
<1>3. ASSUME NEW j \in 0..b, NEW k \in 1..b, j < k
      PROVE  (k \in R => c(j) < c(k)) /\ (k \notin R => e(j) < e(k)) /\ e(j) <= e(k)
  <2>0. k \in 0..b /\ 1..j \subseteq 1..k /\ k \notin 1..j
    BY <1>3
  <2>1. /\ R \cap (1..j) \in SUBSET (R \cap (1..k)) /\ (1..j) \ R \in SUBSET ((1..k) \ R)
    BY <2>0
  <2>2. k \in R => k \in R \cap (1..k) /\ k \notin R \cap (1..j)
    BY <2>0
  <2>3. k \notin R => k \in (1..k) \ R /\ k \notin (1..j) \ R
    BY <2>0
  <2>4. IsFiniteSet(R \cap (1..k)) /\ IsFiniteSet((1..k) \ R)
    BY <1>1, <2>0
  <2>5. k \in R => c(j) < c(k)
    BY <2>1, <2>2, <2>4, Fewer
  <2>6. k \notin R => e(j) < e(k)
    BY <2>1, <2>3, <2>4, Fewer
  <2>7. e(j) <= e(k)
    BY <2>1, <2>4, FS_Subset
  <2> QED BY <2>5, <2>6, <2>7
<1>4. c(0) = 0 /\ e(0) = 0 /\ c(b) = r /\ e(b) = b - r
  <2>0. 1..0 = {}
    OBVIOUS
  <2>1. R \cap (1..0) = {} /\ (1..0) \ R = {} /\ R \cap (1..b) = R
    BY <2>0
  <2>2. b \in 0..b
    OBVIOUS
  <2> QED BY <1>1, <2>1, <2>2, FS_EmptySet
<1> HIDE DEF P, c, e, r
<1>a. 1..b \subseteq 0..b
  OBVIOUS
<1>5. ASSUME NEW k \in 1..b
      PROVE  /\ k \in R => P(k) >= 2 /\ P(k) <= 1 + r
             /\ k \notin R => P(k) >= 2 + r /\ P(k) <= b + 1
             /\ r <= b
  <2>0. k \in 0..b /\ 0 \in 0..b /\ b \in 0..b /\ b \in 1..b /\ 0 < k
    OBVIOUS
  <2>1. c(k) \in 0..r /\ e(k) \in Nat /\ e(b) \in Nat
    BY <1>1, <2>0
  <2>2. k \in R => c(k) > 0
    BY <1>3, <1>4, <2>0
  <2>3. k \notin R => e(k) > 0
    BY <1>3, <1>4, <2>0
  <2>4. e(k) <= e(b)
    <3>1. CASE k = b
      BY <2>1, <3>1
    <3>2. CASE k < b
      BY <1>3, <2>0, <3>2
    <3> QED BY <3>1, <3>2
  <2> QED BY <1>0, <1>2, <1>4, <2>1, <2>2, <2>3, <2>4
<1>6. ASSUME NEW k \in 1..(b + 1) PROVE k = b + 1 \/ k \in 1..b
  OBVIOUS
<1>7. ASSUME NEW k \in 1..(b + 1) PROVE P(k) \in 1..(b + 1)
  <2>1. CASE k = b + 1
    BY <1>2, <2>1
  <2>2. CASE k \in 1..b
    <3>1. c(k) \in Nat /\ e(k) \in Nat
      BY <1>1, <1>a, <2>2
    <3>2. P(k) \in Nat
      BY <1>0, <1>2, <2>2, <3>1
    <3> QED BY <1>0, <1>5, <2>2, <3>2
  <2> QED BY <1>6, <2>1, <2>2
<1>8. ASSUME NEW j \in 1..(b + 1), NEW k \in 1..(b + 1), j < k PROVE P(j) # P(k)
  <2>1. j \in 1..b /\ j \in 0..b
    BY <1>8
  <2>2. P(j) \in Nat /\ P(j) >= 2
    <3>1. P(j) \in Nat
      BY <1>7
    <3> QED BY <1>0, <1>5, <2>1, <3>1
  <2>3. CASE k = b + 1
    BY <1>2, <2>2, <2>3
  <2>4. CASE k \in 1..b
    <3>0. c(j) \in Nat /\ e(j) \in Nat /\ c(k) \in Nat /\ e(k) \in Nat
      BY <1>1, <1>a, <2>1, <2>4
    <3>1. CASE j \in R /\ k \in R
      BY <1>2, <1>3, <1>8, <2>1, <2>4, <3>0, <3>1
    <3>2. CASE j \notin R /\ k \notin R
      BY <1>0, <1>2, <1>3, <1>8, <2>1, <2>4, <3>0, <3>2
    <3>3. CASE j \in R /\ k \notin R
      BY <1>0, <1>2, <1>5, <2>1, <2>4, <3>0, <3>3
    <3>4. CASE j \notin R /\ k \in R
      BY <1>0, <1>2, <1>5, <2>1, <2>4, <3>0, <3>4
    <3> QED BY <3>1, <3>2, <3>3, <3>4
  <2> QED BY <1>6, <2>3, <2>4
<1>9. ASSUME NEW j \in 1..(b + 1), NEW k \in 1..(b + 1), P(j) = P(k) PROVE j = k
  <2>1. j < k \/ k < j \/ j = k
    OBVIOUS
  <2> QED BY <1>8, <1>9, <2>1
<1>10. ASSUME NEW k \in 1..(b + 1), R = {} PROVE P(k) <= k + 1
  <2>1. CASE k = b + 1
    BY <1>2, <2>1
  <2>2. CASE k \in 1..b
    <3>1. r = 0
      BY <1>10, FS_EmptySet DEF r
    <3>2. e(k) = k - c(k) /\ c(k) \in Nat
      BY <1>1, <1>a, <2>2
    <3> QED BY <1>2, <1>10, <2>2, <3>1, <3>2
  <2> QED BY <1>6, <2>1, <2>2
<1>11. ASSUME NEW k \in 1..(b + 1)
       PROVE  P(k) <= k + 2 \/ (k <= b /\ \E g, h \in R : k < g /\ g < h)
  <2>1. CASE k = b + 1
    BY <1>2, <2>1
  <2>2. CASE k \in 1..b /\ k \in R
    <3>1. c(k) <= k
      <4>1. c(k) \in Nat /\ e(k) \in Nat /\ e(k) = k - c(k)
        BY <1>1, <1>a, <2>2
      <4> QED BY <4>1
    <3>2. c(k) \in Nat
      BY <1>1, <1>a, <2>2
    <3> QED BY <1>2, <2>2, <3>1, <3>2
  <2>3. CASE k \in 1..b /\ k \notin R
    <3> DEFINE A == R \ (1..k)
    <3>1. /\ IsFiniteSet(A) /\ Cardinality(A) = r - c(k) /\ e(k) = k - c(k)
          /\ c(k) \in 0..r
      BY <1>1, <1>a, <2>3
    <3>2. P(k) = 1 + k + Cardinality(A)
      BY <1>0, <1>2, <2>3, <3>1
    <3>3. CASE Cardinality(A) <= 1
      BY <1>0, <3>1, <3>2, <3>3
    <3>4. CASE Cardinality(A) > 1
      <4>1. PICK x : x \in A
        BY <3>1, <3>4, FS_EmptySet
      <4>2. IsFiniteSet(A \ {x}) /\ Cardinality(A \ {x}) = Cardinality(A) - 1
        BY <3>1, <4>1, FS_RemoveElement
      <4>3. Cardinality(A \ {x}) # 0
        BY <1>0, <3>1, <3>4, <4>2
      <4>4. PICK y : y \in A \ {x}
        BY <4>2, <4>3, FS_EmptySet
      <4>5. x \in R /\ y \in R /\ x # y /\ x > k /\ y > k /\ x \in Nat /\ y \in Nat
        BY <2>3, <4>1, <4>4
      <4>6. x < y \/ y < x
        BY <4>5
      <4> QED BY <2>3, <4>5, <4>6
    <3>5. Cardinality(A) <= 1 \/ Cardinality(A) > 1
      BY <1>0, <3>1
    <3> QED BY <3>3, <3>4, <3>5
  <2> QED BY <1>6, <2>1, <2>2, <2>3
<1> QED BY <1>2, <1>7, <1>9, <1>10, <1>11 DEF P

(* Every place is somebody's, as there are as many of both.                *)
LEMMA PlaceTaken ==
  ASSUME NEW b \in Nat, NEW R \in SUBSET (1..b), NEW i \in 1..(b + 1)
  PROVE  \E k \in 1..(b + 1) : Place(k, b, R, 0) = i
<1> DEFINE S == 1..(b + 1)
           f == [k \in S |-> Place(k, b, R, 0)]
<1>1. /\ \A k \in S : f[k] \in S
      /\ \A j, k \in S : f[j] = f[k] => j = k
  BY PlaceFacts
<1>2. f \in [S -> S]
  BY <1>1
<1> HIDE DEF f
<1>3. f \in Injection(S, S)
  BY <1>1, <1>2 DEF Injection, IsInjective
<1>4. IsFiniteSet(S)
  BY FS_Interval
<1> HIDE DEF S
<1>5. f \in Surjection(S, S)
  BY <1>3, <1>4, FS_Injection
<1>6. \A t \in S : \E k \in S : f[k] = t
  BY <1>5 DEF Surjection
<1> QED BY <1>6 DEF S, f

LEMMA CodedOrderPlaces ==
  ASSUME next \in Seq(Frames), NEW b \in Nat, b + 1 <= Len(next), NEW R \in SUBSET (1..b)
  PROVE  /\ CodedOrder(b, R, 0) \in Seq(Frames) /\ Len(CodedOrder(b, R, 0)) = b + 1
         /\ \A k \in 1..(b + 1) : CodedOrder(b, R, 0)[Place(k, b, R, 0)] = next[k]
<1> DEFINE o == CodedOrder(b, R, 0)
<1>1. ASSUME NEW k \in 1..(b + 1) PROVE next[k] \in Frames
  OBVIOUS
<1>2. ASSUME NEW k \in 1..(b + 1)
      PROVE  o[Place(k, b, R, 0)] = next[k]
  <2>1. Place(k, b, R, 0) \in 1..(b + 1)
    BY PlaceFacts
  <2>2. PICK i \in 1..(b + 1) : i = Place(k, b, R, 0)
    BY <2>1
  <2>3. (CHOOSE j \in 1..(b + 1) : Place(j, b, R, 0) = i) = k
    BY <2>2, PlaceFacts
  <2>4. o[i] = next[CHOOSE j \in 1..(b + 1) : Place(j, b, R, 0) = i]
    BY <2>2 DEF CodedOrder
  <2> QED BY <2>2, <2>3, <2>4
<1>3. ASSUME NEW i \in 1..(b + 1) PROVE o[i] \in Frames
  <2>1. PICK k \in 1..(b + 1) : Place(k, b, R, 0) = i
    BY PlaceTaken
  <2> QED BY <1>1, <1>2, <2>1
<1>4. o = [i \in 1..(b + 1) |-> o[i]]
  BY DEF CodedOrder
<1> HIDE DEF o
<1>5. o \in [1..(b + 1) -> Frames]
  BY <1>3, <1>4
<1>6. o \in Seq(Frames) /\ Len(o) = b + 1
  BY <1>5, LenProperties, SeqDef
<1> QED BY <1>2, <1>6 DEF o

(* The mini-GOP is a permutation of the frames d to d + b in which a frame *)
(* comes more than BFrameDelay places after its own only if two B-refs are *)
(* behind it, and the times of these frames are given to it in order.      *)
Permuted(d, b, R, o) ==
  /\ o \in Seq(Frames) /\ Len(o) = b + 1
  /\ o[1] = next[b + 1] /\ (d = 0 => o[1] = 0)
  /\ \A i \in 1..(b + 1) :
        /\ o[i] \in d..(d + b)
        /\ \/ o[i] >= d + i - 1 - BFrameDelay
           \/ /\ MaxBRefs > 1 /\ GivenTypes /\ o[i] < d + b
              /\ \E g, h \in R : o[i] < d + g - 1 /\ g < h
  /\ \A i, j \in 1..(b + 1) : o[i] = o[j] => i = j
  /\ \A f \in d..(d + b) : \E i \in 1..(b + 1) : o[i] = f

Retimed(d, b, o, times) ==
  /\ times \in [Frames -> Nat]
  /\ \A i \in 1..(b + 1) : times[o[i]] = Pts[d + i - 1]
  /\ \A f \in Frames : f < d => times[f] = reordered[f]

LEMMA NewGroup ==
  ASSUME next \in Seq(Frames), reordered \in [Frames -> Nat], next # <<>>,
         NEW d \in Nat, \A i \in 1..Len(next) : next[i] = d + i - 1,
         ~BRefBeforeIdr,
         NEW b \in MiniGopSizes, NEW extra \in Miscounts(b), NEW R \in BRefSets(b, extra)
  PROVE  /\ b \in 0..BFrames /\ b + 1 <= Len(next) /\ R \in SUBSET (1..b)
         /\ Permuted(d, b, R, CodedOrder(b, R, extra))
         /\ Retimed(d, b, CodedOrder(b, R, extra), ReorderedPts(b, R, extra))
<1> DEFINE o == CodedOrder(b, R, 0)
           P(k) == Place(k, b, R, 0)
           T == ReorderedPts(b, R, 0)
<1>0. extra = 0
  BY DEF Miscounts
<1>1. /\ b \in 0..BFrames /\ b \in Nat /\ BFrames \in Nat
      /\ b + 1 <= Len(next) /\ Len(next) \in Nat /\ (d = 0 => b = 0)
  <2>1. Len(next) \in Nat /\ Len(next) > 0 /\ next[1] = d /\ BFrames \in Nat
    BY ConstantFacts
  <2> DEFINE m == SmallerOf(BFrames, Len(next) - 1)
  <2>2. m \in Nat /\ m <= BFrames /\ m <= Len(next) - 1
    BY <2>1 DEF SmallerOf
  <2>3. b \in IF d = 0 THEN {0} ELSE 0..m
    BY <2>1 DEF MiniGopSizes
  <2> HIDE DEF m
  <2> QED BY <2>1, <2>2, <2>3
<1>2. /\ R \in SUBSET (1..b)
      /\ Pyramid = 0 => R = {}
      /\ \A g, h \in R : g < h => MaxBRefs > 1 /\ GivenTypes
  <2>1. CASE R \in GivenBRefs(b) /\ Cardinality(R) <= MaxBRefs
    <3>1. R \in SUBSET (1..b) /\ (R # {} => GivenTypes)
      BY <2>1 DEF GivenBRefs
    <3>2. IsFiniteSet(R) /\ Cardinality(R) \in Nat
      <4>1. 0 \in 0..b
        BY <1>1
      <4> QED BY <1>1, <3>1, <4>1, Shares
    <3>3. Pyramid = 0 => R = {}
      BY <2>1, <3>2, MaxBRefsFacts, FS_EmptySet
    <3>4. ASSUME NEW g \in R, NEW h \in R, g < h PROVE MaxBRefs > 1 /\ GivenTypes
      <4>0. g # h
        BY <1>1, <3>1, <3>4
      <4>1. Cardinality({g}) = 1 /\ {g} \in SUBSET R /\ h \notin {g}
        BY <4>0, FS_Singleton
      <4>2. Cardinality({g}) < Cardinality(R)
        BY <3>2, <4>1, Fewer
      <4> QED BY <2>1, <3>1, <3>2, <4>1, <4>2, MaxBRefsFacts
    <3> QED BY <3>1, <3>3, <3>4
  <2>2. CASE Pyramid > 0 /\ b > 1 /\ R = {(b \div 2) + 1}
    <3>1. (b \div 2) + 1 \in 1..b
      BY <1>1, <2>2
    <3> QED BY <2>2, <3>1, LookaheadAssumption
  <2>3. Cardinality(R) + extra <= MaxBRefs => Cardinality(R) <= MaxBRefs \/ R \notin SUBSET (1..b)
    <3>1. ASSUME R \in SUBSET (1..b) PROVE Cardinality(R) + 0 = Cardinality(R)
      <4>1. 0 \in 0..b
        BY <1>1
      <4>2. Cardinality(R) \in Nat
        BY <1>1, <3>1, <4>1, Shares
      <4> QED BY <4>2
    <3> QED BY <1>0, <3>1
  <2>4. R \in GivenBRefs(b) => R \in SUBSET (1..b)
    BY DEF GivenBRefs
  <2>5. \/ R \in GivenBRefs(b) /\ Cardinality(R) + extra <= MaxBRefs
        \/ Pyramid > 0 /\ b > 1 /\ R = {(b \div 2) + 1}
    BY DEF BRefSets
  <2> QED BY <2>1, <2>2, <2>3, <2>4, <2>5
<1>3. /\ o \in Seq(Frames) /\ Len(o) = b + 1
      /\ \A k \in 1..(b + 1) : o[P(k)] = next[k]
  BY <1>1, <1>2, CodedOrderPlaces
<1>4. /\ P(b + 1) = 1
      /\ \A k \in 1..(b + 1) : P(k) \in 1..(b + 1)
      /\ \A j, k \in 1..(b + 1) : P(j) = P(k) => j = k
      /\ \A k \in 1..(b + 1) : R = {} => P(k) <= k + 1
      /\ \A k \in 1..(b + 1) : P(k) <= k + 2 \/ (k <= b /\ \E g, h \in R : k < g /\ g < h)
      /\ \A i \in 1..(b + 1) : \E k \in 1..(b + 1) : P(k) = i
  BY <1>1, <1>2, PlaceFacts, PlaceTaken
<1> HIDE DEF o, P
<1>5. ASSUME NEW k \in 1..(b + 1)
      PROVE  next[k] = d + k - 1 /\ next[k] \in Frames /\ o[P(k)] = d + k - 1 /\ k \in Nat
  <2>1. k \in 1..Len(next)
    BY <1>1
  <2> QED BY <1>3, <2>1
<1>6. o[1] = next[b + 1] /\ (d = 0 => o[1] = 0)
  <2>1. b + 1 \in 1..(b + 1)
    BY <1>1
  <2>2. o[1] = next[b + 1] /\ o[1] = d + (b + 1) - 1
    BY <1>4, <1>5, <2>1
  <2> QED BY <1>1, <2>2
<1>7. BFrameDelay \in {0, 1, 2} /\ (b > 0 => BFrameDelay >= 1) /\ (R # {} => BFrameDelay = 2)
  <2>1. b > 0 => BFrameDelay > 0
    BY <1>1, ConstantFacts
  <2>2. R # {} => BFrameDelay = 2
    BY <1>2, ConstantFacts, MaxBRefsFacts
  <2> QED BY <2>1, <2>2, ConstantFacts
<1>8. ASSUME NEW i \in 1..(b + 1)
      PROVE  /\ o[i] \in d..(d + b)
             /\ \/ o[i] >= d + i - 1 - BFrameDelay
                \/ /\ MaxBRefs > 1 /\ GivenTypes /\ o[i] < d + b
                   /\ \E g, h \in R : o[i] < d + g - 1 /\ g < h
  <2>1. PICK k \in 1..(b + 1) : P(k) = i
    BY <1>4
  <2>2. o[i] = d + k - 1 /\ k \in Nat /\ k >= 1 /\ k <= b + 1
    BY <1>1, <1>5, <2>1
  <2>3. o[i] \in d..(d + b)
    BY <1>1, <2>2
  <2>4. CASE R = {}
    <3>1. i <= k + 1
      BY <1>4, <2>1, <2>4
    <3>2. CASE b = 0
      BY <1>7, <2>2, <3>2
    <3>3. CASE b > 0
      BY <1>1, <1>7, <2>2, <3>1, <3>3
    <3>4. b = 0 \/ b > 0
      BY <1>1
    <3> QED BY <2>3, <3>2, <3>3, <3>4
  <2>5. CASE R # {} /\ i <= k + 2
    BY <1>1, <1>7, <2>2, <2>3, <2>5
  <2>6. CASE k <= b /\ \E g, h \in R : k < g /\ g < h
    <3>1. PICK g \in R, h \in R : k < g /\ g < h
      BY <2>6
    <3>2. MaxBRefs > 1 /\ GivenTypes /\ g \in Nat
      BY <1>1, <1>2, <3>1
    <3>3. o[i] < d + b /\ o[i] < d + g - 1
      BY <1>1, <2>2, <2>6, <3>1, <3>2
    <3> QED BY <2>3, <3>1, <3>2, <3>3
  <2>7. i <= k + 2 \/ (k <= b /\ \E g, h \in R : k < g /\ g < h)
    BY <1>4, <2>1
  <2> QED BY <2>4, <2>5, <2>6, <2>7
<1>9. ASSUME NEW i \in 1..(b + 1), NEW j \in 1..(b + 1), o[i] = o[j] PROVE i = j
  <2>1. PICK k \in 1..(b + 1) : P(k) = i
    BY <1>4
  <2>2. PICK m \in 1..(b + 1) : P(m) = j
    BY <1>4
  <2>3. o[i] = d + k - 1 /\ o[j] = d + m - 1 /\ k \in Nat /\ m \in Nat
    BY <1>5, <2>1, <2>2
  <2>4. d + k - 1 = d + m - 1
    BY <1>9, <2>3
  <2>5. k = m
    BY <2>3, <2>4
  <2> QED BY <2>1, <2>2, <2>5
<1>10. ASSUME NEW f \in d..(d + b) PROVE \E i \in 1..(b + 1) : o[i] = f
  <2>1. f - d + 1 \in 1..(b + 1) /\ d + (f - d + 1) - 1 = f
    BY <1>1
  <2>2. o[P(f - d + 1)] = d + (f - d + 1) - 1 /\ P(f - d + 1) \in 1..(b + 1)
    BY <1>4, <1>5, <2>1
  <2> QED BY <2>1, <2>2
<1>11. ASSUME NEW k \in 1..(b + 1) PROVE T[next[k]] = Pts[next[P(k)]]
  <2>1. PICK j \in 1..(b + 1) : j = (CHOOSE m \in 1..(b + 1) : next[m] = next[k])
                                /\ next[j] = next[k]
    OBVIOUS
  <2>2. j = k
    <3>1. next[j] = d + j - 1 /\ next[k] = d + k - 1 /\ j \in Nat /\ k \in Nat
      BY <1>5
    <3> QED BY <2>1, <3>1
  <2>3. T[next[k]] = Pts[next[Place(j, b, R, 0)]]
    BY <1>5, <2>1 DEF ReorderedPts
  <2> QED BY <2>2, <2>3 DEF P
<1>12. ASSUME NEW i \in 1..(b + 1) PROVE T[o[i]] = Pts[d + i - 1]
  <2>1. PICK k \in 1..(b + 1) : P(k) = i
    BY <1>4
  <2>2. o[i] = next[k] /\ next[i] = d + i - 1
    BY <1>5, <2>1
  <2> QED BY <1>11, <2>1, <2>2
<1>13. ASSUME NEW f \in Frames, f < d PROVE T[f] = reordered[f]
  <2>1. ASSUME NEW k \in 1..(b + 1) PROVE next[k] # f
    <3>1. next[k] = d + k - 1 /\ k \in Nat /\ k >= 1
      BY <1>5
    <3> QED BY <1>13, <3>1, FrameFacts
  <2> QED BY <2>1 DEF ReorderedPts
<1>14. T \in [Frames -> Nat]
  <2>1. ASSUME NEW f \in Frames PROVE T[f] \in Nat
    <3>1. CASE \E k \in 1..(b + 1) : next[k] = f
      <4>1. PICK k \in 1..(b + 1) : next[k] = f
        BY <3>1
      <4>2. P(k) \in 1..(b + 1)
        BY <1>4
      <4> QED BY <1>5, <1>11, <4>1, <4>2, ConstantFacts
    <3>2. CASE ~\E k \in 1..(b + 1) : next[k] = f
      BY <3>2 DEF ReorderedPts
    <3> QED BY <3>1, <3>2
  <2> QED BY <2>1 DEF ReorderedPts
<1> HIDE DEF T
<1>15. CodedOrder(b, R, extra) = o /\ ReorderedPts(b, R, extra) = T
  BY <1>0 DEF o, T
<1>16. Permuted(d, b, R, o)
  BY <1>3, <1>6, <1>8, <1>9, <1>10 DEF Permuted
<1>17. Retimed(d, b, o, T)
  BY <1>12, <1>13, <1>14 DEF Retimed
<1> QED BY <1>1, <1>2, <1>15, <1>16, <1>17

(* The types that a decision gives.                                        *)
LEMMA TypesGiven ==
  ASSUME next \in Seq(Frames), ftype \in [Frames -> {"auto", "nonB", "BREF", "B"}],
         NEW d \in Nat, \A i \in 1..Len(next) : next[i] = d + i - 1,
         NEW b \in Nat, b + 1 <= Len(next), NEW R \in SUBSET (1..b)
  PROVE  /\ NewTypes(b, R) \in [Frames -> {"auto", "nonB", "BREF", "B"}]
         /\ \A f \in Frames : f < d \/ f > d + b => NewTypes(b, R)[f] = ftype[f]
         /\ \A k \in R : d + k - 1 \in Frames /\ NewTypes(b, R)[d + k - 1] = "BREF"
         /\ \A f \in d..(d + b - 1) : f \in Frames /\ NewTypes(b, R)[f] \in {"B", "BREF"}
<1>1. ASSUME NEW k \in 1..(b + 1) PROVE next[k] = d + k - 1 /\ next[k] \in Frames
  OBVIOUS
<1>2. NewTypes(b, R) \in [Frames -> {"auto", "nonB", "BREF", "B"}]
  BY DEF NewTypes
<1>3. ASSUME NEW f \in Frames, f < d \/ f > d + b PROVE NewTypes(b, R)[f] = ftype[f]
  <2>1. ASSUME NEW k \in 1..(b + 1) PROVE next[k] # f
    <3>1. next[k] = d + k - 1 /\ k \in Nat /\ k >= 1 /\ k <= b + 1 /\ f \in Nat
      BY <1>1, FrameFacts
    <3> QED BY <1>3, <3>1
  <2>2. b + 1 \in 1..(b + 1) /\ 1..b \subseteq 1..(b + 1)
    OBVIOUS
  <2> QED BY <2>1, <2>2 DEF NewTypes
<1>4. ASSUME NEW k \in R PROVE d + k - 1 \in Frames /\ NewTypes(b, R)[d + k - 1] = "BREF"
  <2>1. k \in 1..b /\ k \in 1..(b + 1)
    OBVIOUS
  <2>2. next[k] = d + k - 1 /\ next[k] \in Frames
    BY <1>1, <2>1
  <2> QED BY <2>1, <2>2 DEF NewTypes
<1>5. ASSUME NEW f \in d..(d + b - 1)
      PROVE  f \in Frames /\ NewTypes(b, R)[f] \in {"B", "BREF"}
  <2>1. PICK k \in 1..b : k = f - d + 1
    OBVIOUS
  <2>2. next[k] = f /\ f \in Frames
    <3>1. k \in 1..(b + 1)
      OBVIOUS
    <3> QED BY <1>1, <2>1, <3>1
  <2> QED BY <2>1, <2>2 DEF NewTypes
<1> QED BY <1>2, <1>3, <1>4, <1>5

-----------------------------------------------------------------------------
(* What a state that satisfies IInv looks like, and what keeps its parts.  *)

LEMMA Facts ==
  ASSUME IInv
  PROVE  /\ Deciding \in Seq(Frames) /\ Waiting \in Seq(Frames)
         /\ Len(next) = Len(Deciding) + Len(Waiting)
         /\ laPc = "emit" => Len(Deciding) = GopSize(next) /\ GopSize(next) \in 1..Len(next)
         /\ laPc # "emit" => Deciding = <<>> /\ Waiting = next
         /\ Order \in Seq(Frames)
         /\ Len(Order) = Len(coded) + Len(current) + Len(ofbuf) + Len(Deciding)
         /\ \A i \in 1..Len(coded) : Order[i] = coded[i]
         /\ \A i \in 1..Len(current) : Order[Len(coded) + i] = current[i]
         /\ \A i \in 1..Len(ofbuf) : Order[Len(coded) + Len(current) + i] = ofbuf[i]
         /\ \A i \in 1..Len(Deciding) :
               Order[Len(coded) + Len(current) + Len(ofbuf) + i] = Deciding[i]
<1>1. Types /\ ThreadOK
  BY DEF IInv
<1>2. Deciding \in Seq(Frames)
  BY <1>1, Pieces
<1> QED BY <1>1, <1>2, Pieces, OrderPieces

LEMMA Lengths ==
  ASSUME IInv
  PROVE  /\ Len(coded) \in Nat /\ Len(current) \in Nat /\ Len(ofbuf) \in Nat
         /\ Len(next) \in Nat /\ Len(ifbuf) \in Nat /\ Len(output) \in Nat
         /\ Len(Order) \in Nat /\ Len(Waiting) \in Nat /\ Len(Deciding) \in Nat
         /\ input \in Nat /\ input <= MaxFrames /\ MaxFrames \in Nat
         /\ Len(Order) = Len(coded) + Len(current) + Len(ofbuf) + Len(Deciding)
         /\ Len(next) = Len(Deciding) + Len(Waiting)
         /\ input = Len(Order) + Len(Waiting) + Len(ifbuf) + (IF encPc = "put" THEN 1 ELSE 0)
<1>1. /\ coded \in Seq(Frames) /\ current \in Seq(Frames) /\ ofbuf \in Seq(Frames)
      /\ next \in Seq(Frames) /\ ifbuf \in Seq(Frames) /\ output \in Seq(Frames)
      /\ input \in 0..MaxFrames
  BY DEF IInv, Types, TypeOK
<1>2. Order \in Seq(Frames) /\ Deciding \in Seq(Frames) /\ Waiting \in Seq(Frames)
  BY Facts
<1>3. /\ Len(Order) = Len(coded) + Len(current) + Len(ofbuf) + Len(Deciding)
      /\ Len(next) = Len(Deciding) + Len(Waiting)
  BY Facts
<1>4. input = Len(Order) + Len(Waiting) + Len(ifbuf) + (IF encPc = "put" THEN 1 ELSE 0)
  BY DEF IInv, WaitingOK
<1>5. MaxFrames \in Nat
  BY ConstantFacts
<1>6. /\ Len(coded) \in Nat /\ Len(current) \in Nat /\ Len(ofbuf) \in Nat
      /\ Len(next) \in Nat /\ Len(ifbuf) \in Nat /\ Len(output) \in Nat
      /\ Len(Order) \in Nat /\ Len(Waiting) \in Nat /\ Len(Deciding) \in Nat
  BY <1>1, <1>2
<1> QED BY <1>1, <1>3, <1>4, <1>5, <1>6

LEMMA SameOrder ==
  ASSUME UNCHANGED <<coded, current, ofbuf, next>>,
         \/ UNCHANGED <<laPc, ibframes>>
         \/ laPc # "emit" /\ laPc' # "emit"
  PROVE  Order' = Order /\ Waiting' = Waiting
<1>1. CASE UNCHANGED <<laPc, ibframes>>
  BY <1>1 DEF Order, Waiting, Deciding, GopSize
<1>2. CASE laPc # "emit" /\ laPc' # "emit"
  BY <1>2 DEF Order, Waiting, Deciding
<1> QED BY <1>1, <1>2

LEMMA WaitingKept ==
  ASSUME WaitingOK, Order' = Order, Waiting' = Waiting, ifbuf' = ifbuf, input' = input,
         encPc' = "put" <=> encPc = "put"
  PROVE  WaitingOK'
BY DEF WaitingOK

LEMMA OrderKept ==
  ASSUME OrderOK, Order' = Order, UNCHANGED <<reordered, ftype>>
  PROVE  OrderOK'
BY DEF OrderOK

LEMMA GroupsKept ==
  ASSUME GroupsOK, Order' = Order, ibframes' = ibframes,
         Len(coded') + Len(current') = Len(coded) + Len(current),
         Len(ofbuf') = Len(ofbuf)
  PROVE  GroupsOK'
<1>1. PICK cuts \in SUBSET Nat : CutsOK(cuts)
  BY DEF GroupsOK
<1>2. CutsOK(cuts)'
  BY <1>1 DEF CutsOK
<1> QED BY <1>2 DEF GroupsOK

(* The lookahead thread does not touch what belongs to the encoder.        *)
LEMMA EncoderKept ==
  ASSUME IInv, laPc # "done",
         UNCHANGED <<exitThread, encPc, current, codeVars, callVars>>
  PROVE  CallOK' /\ TimesOK' /\ RingOK'
<1>1. Threaded
  BY DEF IInv, ThreadOK
<1>2. CallOK'
  BY <1>1 DEF IInv, CallOK, codeVars, callVars, Filling, Turned, Finished
<1>3. TimesOK'
  BY DEF IInv, TimesOK, DtsAt, codeVars, callVars
<1>4. RingOK'
  <2>1. PICK gap \in Nat : RingAt(gap)
    BY DEF IInv, RingOK
  <2>2. RingAt(gap)'
    BY <2>1 DEF RingAt, Age, Finished, Turned, codeVars, callVars
  <2> QED BY <2>2 DEF IInv, RingOK, codeVars, callVars
<1> QED BY <1>2, <1>3, <1>4

(* A decision appends its mini-GOP to Order and one place to the cuts.     *)
LEMMA DecidedGroup ==
  ASSUME IInv, next = Waiting, next # <<>>,
         ~BRefBeforeIdr,
         NEW b \in MiniGopSizes, NEW extra \in Miscounts(b), NEW R \in BRefSets(b, extra),
         Decided(b, R, extra),
         Order' = Order \o CodedOrder(b, R, extra), Waiting' = RestOf(next, b + 1),
         UNCHANGED <<ifbuf, input>>, encPc' = "put" <=> encPc = "put",
         Len(coded') + Len(current') \in {Len(coded) + Len(current), Len(Order')},
         Len(coded') + Len(current') + Len(ofbuf')
           \in {Len(coded) + Len(current) + Len(ofbuf), Len(Order')}
  PROVE  /\ ibframes' \in [Frames -> 0..BFrames] /\ reordered' \in [Frames -> Nat]
         /\ ftype' \in [Frames -> {"auto", "nonB", "BREF", "B"}]
         /\ ibframes'[next[b + 1]] = b
         /\ WaitingOK' /\ OrderOK' /\ GroupsOK'
<1> DEFINE o == CodedOrder(b, R, extra)
           d == Len(Order)
<1>1. /\ next \in Seq(Frames) /\ reordered \in [Frames -> Nat]
      /\ ftype \in [Frames -> {"auto", "nonB", "BREF", "B"}]
      /\ ibframes \in [Frames -> 0..BFrames]
  BY DEF IInv, Types, TypeOK
<1>2. d \in Nat /\ Order \in Seq(Frames) /\ \A i \in 1..Len(next) : next[i] = d + i - 1
  <2>1. \A i \in 1..Len(next) : next[i] = d + i - 1
    BY DEF IInv, WaitingOK
  <2> QED BY <2>1, Lengths, Facts
<1> HIDE DEF d
<1>3. /\ b \in 0..BFrames /\ b + 1 <= Len(next) /\ R \in SUBSET (1..b)
      /\ o \in Seq(Frames) /\ Len(o) = b + 1
      /\ o[1] = next[b + 1] /\ (d = 0 => o[1] = 0)
      /\ \A i \in 1..(b + 1) :
            /\ o[i] \in d..(d + b)
            /\ \/ o[i] >= d + i - 1 - BFrameDelay
               \/ /\ MaxBRefs > 1 /\ GivenTypes /\ o[i] < d + b
                  /\ \E g, h \in R : o[i] < d + g - 1 /\ g < h
      /\ \A i, j \in 1..(b + 1) : o[i] = o[j] => i = j
      /\ \A f \in d..(d + b) : \E i \in 1..(b + 1) : o[i] = f
      /\ ReorderedPts(b, R, extra) \in [Frames -> Nat]
      /\ \A i \in 1..(b + 1) : ReorderedPts(b, R, extra)[o[i]] = Pts[d + i - 1]
      /\ \A f \in Frames : f < d => ReorderedPts(b, R, extra)[f] = reordered[f]
  <2>1. /\ b \in 0..BFrames /\ b + 1 <= Len(next) /\ R \in SUBSET (1..b)
        /\ Permuted(d, b, R, o) /\ Retimed(d, b, o, ReorderedPts(b, R, extra))
    BY <1>1, <1>2, NewGroup
  <2> HIDE DEF o
  <2> QED BY <2>1 DEF Permuted, Retimed
<1>4. /\ reordered' = ReorderedPts(b, R, extra)
      /\ ibframes' = [ibframes EXCEPT ![next[b + 1]] = b]
      /\ ftype' = NewTypes(b, R)
  BY DEF Decided
<1>13. /\ ftype' \in [Frames -> {"auto", "nonB", "BREF", "B"}]
       /\ \A f \in Frames : f < d \/ f > d + b => ftype'[f] = ftype[f]
       /\ \A k \in R : d + k - 1 \in Frames /\ ftype'[d + k - 1] = "BREF"
       /\ \A f \in d..(d + b - 1) : f \in Frames /\ ftype'[f] \in {"B", "BREF"}
  <2>1. b \in Nat
    BY <1>3, ConstantFacts
  <2> HIDE DEF o
  <2>3. /\ NewTypes(b, R) \in [Frames -> {"auto", "nonB", "BREF", "B"}]
        /\ \A f \in Frames : f < d \/ f > d + b => NewTypes(b, R)[f] = ftype[f]
        /\ \A k \in R : d + k - 1 \in Frames /\ NewTypes(b, R)[d + k - 1] = "BREF"
        /\ \A f \in d..(d + b - 1) : f \in Frames /\ NewTypes(b, R)[f] \in {"B", "BREF"}
    <3>1. d \in Nat /\ R \in SUBSET (1..b) /\ b + 1 <= Len(next)
      BY <1>2, <1>3
    <3>2. \A i \in 1..Len(next) : next[i] = d + i - 1
      BY <1>2
    <3> QED BY <1>1, <2>1, <3>1, <3>2, TypesGiven
  <2>4. ftype' = NewTypes(b, R)
    BY <1>4
  <2> QED BY <2>3, <2>4, Zenon
<1>5. Order' = Order \o o
  OBVIOUS
<1> HIDE DEF o
<1>6. b \in Nat /\ Len(next) \in Nat /\ BFrameDelay \in Nat
  <2>1. b \in 0..BFrames /\ BFrames \in Nat /\ BFrameDelay \in {0, 1, 2}
    BY <1>3, ConstantFacts
  <2>2. b \in Nat /\ BFrameDelay \in Nat
    BY <2>1
  <2> QED BY <1>1, <2>2
<1>7. /\ Order' \in Seq(Frames) /\ Len(Order') = d + b + 1
      /\ \A i \in 1..d : Order'[i] = Order[i]
      /\ \A i \in 1..(b + 1) : Order'[d + i] = o[i]
  <2>1. /\ Order \o o \in Seq(Frames) /\ Len(Order \o o) = Len(Order) + Len(o)
        /\ \A i \in 1..Len(Order) : (Order \o o)[i] = Order[i]
        /\ \A i \in 1..Len(o) : (Order \o o)[Len(Order) + i] = o[i]
    <3>1. Order \in Seq(Frames) /\ o \in Seq(Frames)
      BY <1>2, <1>3
    <3> QED BY <3>1, Concat
  <2>2. Len(o) = b + 1 /\ d + (b + 1) = d + b + 1
    BY <1>2, <1>3, <1>6
  <2> QED BY <1>5, <2>1, <2>2 DEF d
<1>8. next[b + 1] = d + b /\ d + b \in Frames
  <2>1. b + 1 \in 1..Len(next)
    BY <1>3, <1>6
  <2>2. next[b + 1] = d + b
    BY <1>2, <1>6, <2>1
  <2> QED BY <1>1, <2>1, <2>2
<1>9. ibframes' \in [Frames -> 0..BFrames] /\ ibframes'[next[b + 1]] = b
  BY <1>1, <1>3, <1>4, <1>8
<1>10. WaitingOK'
  <2>1. /\ RestOf(next, b + 1) \in Seq(Frames) /\ Len(RestOf(next, b + 1)) = Len(next) - (b + 1)
        /\ \A i \in 1..(Len(next) - (b + 1)) : RestOf(next, b + 1)[i] = next[(b + 1) + i]
    <3>1. b + 1 \in 0..Len(next)
      BY <1>3, <1>6
    <3> QED BY <1>1, <3>1, Parts
  <2>2. ASSUME NEW i \in 1..Len(Waiting') PROVE Waiting'[i] = Len(Order') + i - 1
    <3>1. (b + 1) + i \in 1..Len(next) /\ Waiting'[i] = next[(b + 1) + i]
      BY <1>6, <2>1
    <3>2. i \in Nat /\ next[(b + 1) + i] = d + ((b + 1) + i) - 1 /\ Len(Order') = d + b + 1
      BY <1>2, <1>7, <3>1
    <3> QED BY <1>2, <1>6, <3>1, <3>2
  <2>3. d + Len(next) = Len(Order') + Len(Waiting') /\ Len(next) = Len(Waiting)
    <3>1. Len(Order') = d + b + 1 /\ Len(Waiting') = Len(next) - (b + 1)
      BY <1>7, <2>1
    <3>2. d + Len(next) = (d + b + 1) + (Len(next) - (b + 1))
      BY <1>2, <1>6
    <3> QED BY <3>1, <3>2
  <2>4. /\ \A i \in 1..Len(ifbuf) : ifbuf[i] = d + Len(Waiting) + i - 1
        /\ input = d + Len(Waiting) + Len(ifbuf) + (IF encPc = "put" THEN 1 ELSE 0)
    BY <1>2 DEF IInv, WaitingOK, d
  <2> QED BY <2>2, <2>3, <2>4 DEF WaitingOK
<1>11. OrderOK'
  <2>0. /\ \A i \in 1..d : /\ Order[i] < d
                           /\ Order[i] >= i - 1 - BFrameDelay \/ Behind(ftype, Order[i])
                           /\ reordered[Order[i]] = Pts[i - 1]
        /\ \A f \in Frames : f >= d => ftype[f] = "auto"
        /\ \A i, j \in 1..d : Order[i] = Order[j] => i = j
        /\ \A f \in 0..(d - 1) : \E i \in 1..d : Order[i] = f
        /\ d > 0 => Order[1] = 0
    <3>1. OrderOK
      BY DEF IInv
    <3>2. d > 0 => Order # <<>>
      BY <1>2 DEF d
    <3> QED BY <3>1, <3>2, Zenon DEF OrderOK, d
  <2>1. ASSUME NEW i \in 1..Len(Order')
        PROVE  \/ i \in 1..d /\ Order'[i] = Order[i] /\ Order[i] \in Frames /\ Order[i] < d
               \/ i - d \in 1..(b + 1) /\ Order'[i] = o[i - d] /\ o[i - d] \in d..(d + b)
    <3>1. CASE i \in 1..d
      <4>1. Order[i] \in Frames
        BY <1>2, <3>1 DEF d
      <4> QED BY <1>7, <2>0, <3>1, <4>1
    <3>2. CASE i - d \in 1..(b + 1)
      <4>1. d + (i - d) = i
        BY <1>2
      <4>2. Order'[d + (i - d)] = o[i - d]
        BY <1>7, <3>2
      <4> QED BY <1>3, <3>2, <4>1, <4>2
    <3>3. i \in 1..d \/ i - d \in 1..(b + 1)
      BY <1>2, <1>6, <1>7
    <3> QED BY <3>1, <3>2, <3>3
  <2>6. ASSUME NEW f \in Frames, f < d, Behind(ftype, f) PROVE Behind(ftype', f)
    <3>1. PICK g \in Frames, h \in Frames :
            /\ f < g /\ g < h /\ ftype[g] = "BREF" /\ ftype[h] = "BREF"
            /\ \A k \in f..h : ftype[k] \in {"B", "BREF"}
      BY <2>6 DEF Behind
    <3>2. h < d /\ g < d /\ f \in Nat /\ g \in Nat /\ h \in Nat /\ h < MaxFrames
      BY <1>2, <2>0, <3>1, FrameFacts
    <3>3. ASSUME NEW k \in f..h PROVE ftype'[k] = ftype[k]
      <4>1. k \in Nat /\ k <= h
        BY <3>2
      <4>2. k < d /\ k < MaxFrames
        BY <1>2, <3>2, <4>1, ConstantFacts
      <4>3. k \in Frames
        BY <4>1, <4>2, ConstantFacts, FrameFacts DEF Frames
      <4> QED BY <1>13, <4>2, <4>3
    <3>4. ftype'[g] = "BREF" /\ ftype'[h] = "BREF"
      BY <3>1, <3>2, <3>3
    <3>5. \A k \in f..h : ftype'[k] \in {"B", "BREF"}
      BY <3>1, <3>3
    <3>6. MaxBRefs > 1 /\ GivenTypes
      BY <2>6 DEF Behind
    <3> QED BY <3>1, <3>4, <3>5, <3>6 DEF Behind
  <2>7. ASSUME NEW f \in d..(d + b), f < d + b, MaxBRefs > 1, GivenTypes,
               NEW g \in R, NEW h \in R, f < d + g - 1, g < h
        PROVE  Behind(ftype', f)
    <3>1. g \in Nat /\ h \in Nat /\ h <= b /\ d + g - 1 < d + h - 1
      BY <1>2, <1>3, <1>6, <2>7
    <3>2. /\ d + g - 1 \in Frames /\ ftype'[d + g - 1] = "BREF"
          /\ d + h - 1 \in Frames /\ ftype'[d + h - 1] = "BREF"
      BY <1>13
    <3>3. ASSUME NEW k \in f..(d + h - 1) PROVE ftype'[k] \in {"B", "BREF"}
      <4>1. k \in d..(d + b - 1)
        BY <1>2, <1>6, <3>1
      <4> QED BY <1>13, <4>1
    <3> QED BY <2>7, <3>1, <3>2, <3>3 DEF Behind
  <2>8. ASSUME NEW f \in Frames, f >= Len(Order') PROVE ftype'[f] = "auto"
    <3>1. f > d + b /\ f >= d
      BY <1>2, <1>6, <1>7, <2>8, FrameFacts
    <3> QED BY <1>13, <2>0, <3>1
  <2>2. ASSUME NEW i \in 1..Len(Order')
        PROVE  /\ Order'[i] < Len(Order')
               /\ Order'[i] >= i - 1 - BFrameDelay \/ Behind(ftype', Order'[i])
               /\ reordered'[Order'[i]] = Pts[i - 1]
    <3>1. CASE i \in 1..d /\ Order'[i] = Order[i] /\ Order[i] \in Frames /\ Order[i] < d
      <4>1. Order[i] < d + b + 1
        BY <1>2, <1>6, <3>1, FrameFacts
      <4>2. reordered'[Order[i]] = reordered[Order[i]]
        BY <1>3, <1>4, <3>1
      <4>3. Order[i] >= i - 1 - BFrameDelay \/ Behind(ftype', Order[i])
        BY <2>0, <2>6, <3>1
      <4> QED BY <1>7, <2>0, <3>1, <4>1, <4>2, <4>3
    <3>2. CASE i - d \in 1..(b + 1) /\ Order'[i] = o[i - d] /\ o[i - d] \in d..(d + b)
      <4>0. PICK j \in 1..(b + 1) : j = i - d
        BY <3>2
      <4>1. /\ \/ o[j] >= d + j - 1 - BFrameDelay
               \/ /\ MaxBRefs > 1 /\ GivenTypes /\ o[j] < d + b
                  /\ \E g, h \in R : o[j] < d + g - 1 /\ g < h
            /\ reordered'[o[j]] = Pts[d + j - 1]
        BY <1>3, <1>4
      <4>2. d + j - 1 = i - 1
        BY <1>2, <4>0
      <4>3. o[i - d] < d + b + 1
        BY <1>2, <1>6, <3>2
      <4>4. Len(Order') = d + b + 1 /\ reordered'[o[i - d]] = Pts[i - 1]
        BY <1>7, <4>0, <4>1, <4>2
      <4>5. o[j] >= i - 1 - BFrameDelay \/ Behind(ftype', o[j])
        <5>1. CASE o[j] >= d + j - 1 - BFrameDelay
          <6>1. o[j] \in Int /\ d \in Int /\ j \in Int /\ i \in Int
            BY <1>2, <1>3
          <6> QED BY <1>6, <4>2, <5>1, <6>1
        <5>2. CASE /\ MaxBRefs > 1 /\ GivenTypes /\ o[j] < d + b
                   /\ \E g, h \in R : o[j] < d + g - 1 /\ g < h
          <6>1. o[j] \in d..(d + b)
            BY <1>3
          <6>2. PICK f \in d..(d + b) : f = o[j]
            BY <6>1
          <6>3. PICK g \in R, h \in R : f < d + g - 1 /\ g < h
            BY <5>2, <6>2
          <6>4. Behind(ftype', f)
            BY <2>7, <5>2, <6>2, <6>3
          <6> QED BY <6>2, <6>4
        <5> QED BY <4>1, <5>1, <5>2
      <4> QED BY <3>2, <4>0, <4>3, <4>4, <4>5
    <3> QED BY <2>1, <3>1, <3>2
  <2>3. ASSUME NEW i \in 1..Len(Order'), NEW j \in 1..Len(Order'), Order'[i] = Order'[j]
        PROVE  i = j
    <3>1. i \in 1..d <=> j \in 1..d
      <4>1. ASSUME NEW k \in 1..Len(Order') PROVE k \in 1..d <=> ~(Order'[k] >= d)
        <5>1. CASE k \in 1..d /\ Order'[k] = Order[k] /\ Order[k] \in Frames /\ Order[k] < d
          BY <1>2, <5>1, FrameFacts
        <5>2. CASE k - d \in 1..(b + 1) /\ Order'[k] = o[k - d] /\ o[k - d] \in d..(d + b)
          BY <1>2, <1>6, <5>2
        <5> QED BY <2>1, <5>1, <5>2
      <4>2. (i \in 1..d <=> ~(Order'[i] >= d)) /\ (j \in 1..d <=> ~(Order'[j] >= d))
        BY <4>1
      <4> QED BY <2>3, <4>2
    <3>2. CASE i \in 1..d
      <4>1. Order[i] = Order[j]
        BY <1>7, <2>3, <3>1, <3>2
      <4> QED BY <2>0, <3>1, <3>2, <4>1
    <3>3. CASE i \notin 1..d
      <4>1. /\ i - d \in 1..(b + 1) /\ Order'[i] = o[i - d]
            /\ j - d \in 1..(b + 1) /\ Order'[j] = o[j - d]
        BY <2>1, <3>1, <3>3
      <4>2. o[i - d] = o[j - d]
        BY <2>3, <4>1
      <4>3. i - d = j - d
        BY <1>3, <4>1, <4>2
      <4>4. i \in Int /\ j \in Int
        OBVIOUS
      <4> QED BY <1>2, <4>3, <4>4
    <3> QED BY <3>2, <3>3
  <2>4. ASSUME NEW f \in 0..(Len(Order') - 1) PROVE \E i \in 1..Len(Order') : Order'[i] = f
    <3>1. CASE f < d
      <4>1. f \in 0..(d - 1)
        BY <1>2, <3>1
      <4>2. PICK i \in 1..d : Order[i] = f
        BY <2>0, <4>1
      <4>3. i \in 1..Len(Order')
        BY <1>2, <1>6, <1>7
      <4> QED BY <1>7, <4>2, <4>3
    <3>2. CASE f >= d
      <4>1. f \in d..(d + b)
        BY <1>2, <1>6, <1>7, <3>2
      <4>2. PICK i \in 1..(b + 1) : o[i] = f
        BY <1>3, <4>1
      <4>3. d + i \in 1..Len(Order')
        BY <1>2, <1>6, <1>7
      <4> QED BY <1>7, <4>2, <4>3
    <3>3. f < d \/ f >= d
      BY <1>2
    <3> QED BY <3>1, <3>2, <3>3
  <2>5. Order'[1] = 0
    <3>1. CASE d = 0
      <4>1. 1 \in 1..(b + 1) /\ d + 1 = 1
        BY <1>6, <3>1
      <4>2. Order'[d + 1] = o[1]
        BY <1>7, <4>1
      <4>3. o[1] = 0
        BY <1>3, <3>1
      <4> QED BY <4>1, <4>2, <4>3
    <3>2. CASE d > 0
      <4>1. 1 \in 1..d
        BY <1>2, <3>2
      <4> QED BY <1>7, <2>0, <3>2, <4>1
    <3>3. d = 0 \/ d > 0
      BY <1>2
    <3> QED BY <3>1, <3>2, <3>3
  <2> QED BY <2>2, <2>3, <2>4, <2>5, <2>8 DEF OrderOK
<1>12. GroupsOK'
  <2>0. PICK cuts \in SUBSET Nat : CutsOK(cuts)
    BY DEF IInv, GroupsOK
  <2>1. /\ cuts \subseteq 0..d /\ d \in cuts
        /\ Len(coded) + Len(current) \in cuts /\ Len(coded) + Len(current) + Len(ofbuf) \in cuts
        /\ \A c \in cuts : c < d => /\ c + ibframes[Order[c + 1]] + 1 \in cuts
                                    /\ \A e \in cuts : e > c => e >= c + ibframes[Order[c + 1]] + 1
    BY <2>0 DEF CutsOK, d
  <2>6. \A c \in cuts : c \in 0..d
    BY <2>1
  <2>7. PICK more \in SUBSET Nat : more = cuts \cup {d + b + 1}
    <3>1. d + b + 1 \in Nat
      BY <1>2, <1>6
    <3>2. cuts \cup {d + b + 1} \in SUBSET Nat
      BY <3>1
    <3> QED BY <3>2, Zenon
  <2>2. more \in SUBSET Nat /\ more \subseteq 0..Len(Order')
    <3>1. Len(Order') = d + b + 1
      BY <1>7
    <3>2. ASSUME NEW c \in more PROVE c \in 0..(d + b + 1)
      <4>1. c \in 0..d \/ c = d + b + 1
        BY <2>6, <2>7
      <4> QED BY <1>2, <1>6, <4>1
    <3> QED BY <3>1, <3>2
  <2>3. /\ Len(coded') + Len(current') \in more
        /\ Len(coded') + Len(current') + Len(ofbuf') \in more
        /\ Len(Order') \in more
    BY <1>7, <2>1, <2>7
  <2>4. ASSUME NEW c \in more, c < Len(Order')
        PROVE  /\ c + ibframes'[Order'[c + 1]] + 1 \in more
               /\ \A e \in more : e > c => e >= c + ibframes'[Order'[c + 1]] + 1
    <3>1. CASE c \in cuts /\ c < d
      <4>1. c + 1 \in 1..d /\ c \in Nat
        <5>1. c \in 0..d /\ c < d
          BY <2>6, <3>1
        <5> QED BY <1>2, <5>1
      <4>2. Order[c + 1] \in Frames /\ Order[c + 1] < d
        BY <1>2, <4>1 DEF IInv, OrderOK, d
      <4>3. Order[c + 1] # next[b + 1]
        BY <1>2, <1>6, <1>8, <4>2, FrameFacts
      <4>4. ibframes'[Order'[c + 1]] = ibframes[Order[c + 1]]
        BY <1>1, <1>4, <1>7, <4>1, <4>2, <4>3
      <4>5. c + ibframes[Order[c + 1]] + 1 \in cuts
        BY <2>1, <3>1
      <4>6. ASSUME NEW e \in more, e > c PROVE e >= c + ibframes[Order[c + 1]] + 1
        <5>1. CASE e \in cuts
          BY <2>1, <3>1, <4>6, <5>1
        <5>2. CASE e = d + b + 1
          <6>1. c + ibframes[Order[c + 1]] + 1 \in 0..d
            BY <2>6, <4>5
          <6> QED BY <1>2, <1>6, <5>2, <6>1
        <5> QED BY <2>7, <5>1, <5>2
      <4> QED BY <2>7, <4>4, <4>5, <4>6
    <3>2. CASE c = d
      <4>1. Order'[c + 1] = next[b + 1]
        <5>1. 1 \in 1..(b + 1)
          BY <1>6
        <5> QED BY <1>3, <1>7, <3>2, <5>1
      <4>2. ibframes'[Order'[c + 1]] = b
        BY <1>9, <4>1
      <4>3. ASSUME NEW e \in more, e > c PROVE e >= c + b + 1
        <5>1. e \in cuts \/ e = d + b + 1
          BY <2>7, <4>3
        <5>2. e \notin cuts
          <6>1. e \in cuts => e \in 0..d
            BY <2>6
          <6> QED BY <1>2, <3>2, <4>3, <6>1
        <5> QED BY <1>2, <1>6, <3>2, <5>1, <5>2
      <4>4. c + b + 1 \in more
        BY <2>7, <3>2
      <4> QED BY <4>2, <4>3, <4>4
    <3>3. (c \in cuts /\ c < d) \/ c = d
      BY <1>2, <1>6, <1>7, <2>1, <2>4, <2>7
    <3> QED BY <3>1, <3>2, <3>3
  <2>5. CutsOK(more)'
    BY <2>2, <2>3, <2>4 DEF CutsOK
  <2> QED BY <2>2, <2>5 DEF GroupsOK
<1> QED BY <1>3, <1>4, <1>9, <1>10, <1>11, <1>12, <1>13

-----------------------------------------------------------------------------
(* The steps of the lookahead thread.                                      *)

LEMMA Split ==
  ASSUME NEW S, NEW s \in Seq(S), NEW t \in Seq(S)
  PROVE  FirstOf(s \o t, Len(s)) = s /\ RestOf(s \o t, Len(s)) = t
<1> DEFINE u == s \o t
<1>1. /\ u \in Seq(S) /\ Len(u) = Len(s) + Len(t)
      /\ \A i \in 1..Len(s) : u[i] = s[i]
      /\ \A i \in 1..Len(t) : u[Len(s) + i] = t[i]
  BY Concat
<1>2. Len(s) \in Nat /\ Len(t) \in Nat
  OBVIOUS
<1> HIDE DEF u
<1>3. /\ FirstOf(u, Len(s)) \in Seq(S) /\ Len(FirstOf(u, Len(s))) = Len(s)
      /\ \A i \in 1..Len(s) : FirstOf(u, Len(s))[i] = u[i]
      /\ RestOf(u, Len(s)) \in Seq(S) /\ Len(RestOf(u, Len(s))) = Len(u) - Len(s)
      /\ \A i \in 1..(Len(u) - Len(s)) : RestOf(u, Len(s))[i] = u[Len(s) + i]
  <2>1. Len(s) \in 0..Len(u)
    BY <1>1, <1>2
  <2> QED BY <1>1, <2>1, Parts
<1>4. FirstOf(u, Len(s)) = s
  BY <1>1, <1>3, SeqEqual
<1>5. RestOf(u, Len(s)) = t
  <2>1. Len(u) - Len(s) = Len(t)
    BY <1>1, <1>2
  <2> QED BY <1>1, <1>3, <2>1, SeqEqual
<1> QED BY <1>4, <1>5 DEF u

LEMMA Sleepers ==
  ASSUME NEW at, asleep \subseteq {"la", "enc"}
  PROVE  /\ WakeLa(at) \subseteq {"la", "enc"} /\ WakeEnc(at) \subseteq {"la", "enc"}
         /\ asleep \cup {"la"} \subseteq {"la", "enc"}
         /\ asleep \cup {"enc"} \subseteq {"la", "enc"}
         /\ WakeEnc(at) \cup {"la"} \subseteq {"la", "enc"}
BY DEF WakeLa, WakeEnc

LEMMA LaTopStep ==
  ASSUME IInv, LaTop PROVE IInv'
<1>0. laPc = "top" /\ laPc' = IF exitThread THEN "drain" ELSE "fill"
  BY DEF LaTop, LaAt
<1>1. Types' /\ ThreadOK'
  BY <1>0 DEF IInv, Types, TypeOK, ThreadOK, LaTop, LaPCs, listVars, codeVars, callVars,
              GopSize, Threaded
<1>2. Order' = Order /\ Waiting' = Waiting
  BY <1>0, SameOrder DEF LaTop, listVars, codeVars
<1>3. CallOK' /\ TimesOK' /\ RingOK'
  BY <1>0, EncoderKept DEF LaTop
<1>4. WaitingOK' /\ OrderOK' /\ GroupsOK'
  BY <1>2, WaitingKept, OrderKept, GroupsKept DEF IInv, LaTop, listVars, codeVars, callVars
<1> QED BY <1>1, <1>3, <1>4 DEF IInv

LEMMA LaWaitInputStep ==
  ASSUME IInv, LaWaitInput PROVE IInv'
<1>0. laPc = "waitInput" /\ laPc' \in {"waitInput", "top"}
  BY DEF LaWaitInput, LaAt
<1>1. asleep' \subseteq {"la", "enc"}
  BY Sleepers DEF IInv, Types, TypeOK, LaWaitInput
<1>2. Types' /\ ThreadOK'
  BY <1>0, <1>1 DEF IInv, Types, TypeOK, ThreadOK, LaWaitInput, LaPCs, listVars, codeVars,
                    callVars, GopSize, Threaded
<1>3. Order' = Order /\ Waiting' = Waiting
  BY <1>0, SameOrder DEF LaWaitInput, listVars, codeVars
<1>4. CallOK' /\ TimesOK' /\ RingOK'
  BY <1>0, EncoderKept DEF LaWaitInput
<1>5. WaitingOK' /\ OrderOK' /\ GroupsOK'
  BY <1>3, WaitingKept, OrderKept, GroupsKept
     DEF IInv, LaWaitInput, listVars, codeVars, callVars
<1> QED BY <1>2, <1>4, <1>5 DEF IInv

LEMMA LaFinishStep ==
  ASSUME IInv, LaFinish PROVE IInv'
<1>0. laPc = "finish" /\ laPc' = "done" /\ ~laActive'
  BY DEF LaFinish, LaAt
<1>1. asleep' \subseteq {"la", "enc"}
  BY Sleepers DEF IInv, Types, TypeOK, LaFinish
<1>2. Types' /\ ThreadOK'
  BY <1>0, <1>1 DEF IInv, Types, TypeOK, ThreadOK, LaFinish, LaPCs, listVars, codeVars,
                    callVars, GopSize, Threaded
<1>3. Order' = Order /\ Waiting' = Waiting
  BY <1>0, SameOrder DEF LaFinish, listVars, codeVars
<1>4. CallOK' /\ TimesOK' /\ RingOK'
  BY <1>0, EncoderKept DEF LaFinish
<1>5. WaitingOK' /\ OrderOK' /\ GroupsOK'
  BY <1>3, WaitingKept, OrderKept, GroupsKept
     DEF IInv, LaFinish, listVars, codeVars, callVars
<1> QED BY <1>2, <1>4, <1>5 DEF IInv

(* Frames go from the head of ifbuf to the tail of next.                   *)
LEMMA Filled ==
  ASSUME IInv, NEW n \in 0..Len(ifbuf), laPc # "emit", laPc' # "emit", encPc' = encPc,
         next' = next \o FirstOf(ifbuf, n), ifbuf' = RestOf(ifbuf, n),
         UNCHANGED <<coded, current, ofbuf, ibframes, reordered, ftype, input>>
  PROVE  next' \in Seq(Frames) /\ ifbuf' \in Seq(Frames) /\ WaitingOK' /\ OrderOK' /\ GroupsOK'
<1>1. /\ next \in Seq(Frames) /\ ifbuf \in Seq(Frames)
      /\ Len(next) \in Nat /\ Len(ifbuf) \in Nat /\ n \in Nat
  BY DEF IInv, Types, TypeOK
<1> DEFINE t == FirstOf(ifbuf, n)
<1>2. /\ t \in Seq(Frames) /\ Len(t) = n /\ \A i \in 1..n : t[i] = ifbuf[i]
      /\ ifbuf' \in Seq(Frames) /\ Len(ifbuf') = Len(ifbuf) - n
      /\ \A i \in 1..(Len(ifbuf) - n) : ifbuf'[i] = ifbuf[n + i]
  BY <1>1, Parts
<1>3. next' = next \o t
  OBVIOUS
<1> HIDE DEF t
<1>4. /\ next' \in Seq(Frames) /\ Len(next') = Len(next) + n
      /\ \A i \in 1..Len(next) : next'[i] = next[i]
      /\ \A i \in 1..n : next'[Len(next) + i] = t[i]
  BY <1>1, <1>2, <1>3, Concat
<1>5. Order' = Order /\ Waiting = next /\ Waiting' = next'
  BY DEF Order, Deciding, Waiting
<1>6. Len(Order) \in Nat
  BY Lengths
<1>7. /\ \A i \in 1..Len(next) : next[i] = Len(Order) + i - 1
      /\ \A i \in 1..Len(ifbuf) : ifbuf[i] = Len(Order) + Len(next) + i - 1
      /\ input = Len(Order) + Len(next) + Len(ifbuf) + (IF encPc = "put" THEN 1 ELSE 0)
  BY <1>5 DEF IInv, WaitingOK
<1>8. ASSUME NEW i \in 1..Len(next') PROVE next'[i] = Len(Order) + i - 1
  <2>1. CASE i <= Len(next)
    BY <1>1, <1>4, <1>7, <2>1
  <2>2. CASE i > Len(next)
    <3>1. i - Len(next) \in 1..n /\ Len(next) + (i - Len(next)) = i
      BY <1>1, <1>4, <2>2
    <3>2. next'[i] = t[i - Len(next)]
      BY <1>4, <3>1
    <3>3. t[i - Len(next)] = ifbuf[i - Len(next)] /\ i - Len(next) \in 1..Len(ifbuf)
      BY <1>1, <1>2, <3>1
    <3>4. ifbuf[i - Len(next)] = Len(Order) + Len(next) + (i - Len(next)) - 1
      BY <1>7, <3>3
    <3> QED BY <1>1, <1>6, <3>2, <3>3, <3>4
  <2>3. i <= Len(next) \/ i > Len(next)
    BY <1>1
  <2> QED BY <2>1, <2>2, <2>3
<1>9. ASSUME NEW i \in 1..Len(ifbuf') PROVE ifbuf'[i] = Len(Order) + Len(next') + i - 1
  <2>1. n + i \in 1..Len(ifbuf) /\ ifbuf'[i] = ifbuf[n + i]
    BY <1>1, <1>2
  <2>2. ifbuf[n + i] = Len(Order) + Len(next) + (n + i) - 1
    BY <1>7, <2>1
  <2> QED BY <1>1, <1>4, <1>6, <2>1, <2>2
<1>10. input = Len(Order) + Len(next') + Len(ifbuf') + (IF encPc = "put" THEN 1 ELSE 0)
  <2>1. Len(next') + Len(ifbuf') = Len(next) + Len(ifbuf)
    BY <1>1, <1>2, <1>4
  <2>2. Len(next') \in Nat /\ Len(ifbuf') \in Nat
    BY <1>2, <1>4
  <2> QED BY <1>1, <1>6, <1>7, <2>1, <2>2
<1>11. WaitingOK'
  BY <1>5, <1>8, <1>9, <1>10 DEF WaitingOK
<1> QED BY <1>2, <1>4, <1>5, <1>11, OrderKept, GroupsKept DEF IInv

LEMMA LaFillStep ==
  ASSUME IInv, LaFill PROVE IInv'
<1> DEFINE n == SmallerOf(NextMax - Len(next), Len(ifbuf))
<1>1. /\ laPc = "fill" /\ laPc' \in {"decide", "waitInput", "top"}
      /\ next' = next \o FirstOf(ifbuf, n) /\ ifbuf' = RestOf(ifbuf, n)
      /\ laPc' = "decide" => EnoughFrames(Len(next) + n)
      /\ asleep' \in {WakeEnc("put"), asleep, WakeEnc("put") \cup {"la"}, asleep \cup {"la"}}
  BY DEF LaFill, LaAt
<1>2. next \in Seq(Frames) /\ ifbuf \in Seq(Frames) /\ NextMax \in Nat
  BY ConstantFacts DEF IInv, Types, TypeOK
<1>3. Len(next) <= NextMax
  BY Lengths, ConstantFacts DEF IInv, CallOK
<1>4. n \in 0..Len(ifbuf)
  BY <1>2, <1>3 DEF SmallerOf
<1> HIDE DEF n
<1>5. next' \in Seq(Frames) /\ ifbuf' \in Seq(Frames) /\ WaitingOK' /\ OrderOK' /\ GroupsOK'
  BY <1>1, <1>4, Filled DEF LaFill, codeVars, callVars
<1>6. asleep' \subseteq {"la", "enc"}
  BY <1>1, Sleepers DEF IInv, Types, TypeOK
<1>7. Types'
  BY <1>1, <1>5, <1>6 DEF IInv, Types, TypeOK, LaFill, LaPCs, codeVars, callVars
<1>8. laPc' = "decide" => next' # <<>>
  <2>1. ASSUME laPc' = "decide" PROVE Len(next) + n > 0
    <3>1. Len(next) \in Nat /\ n \in Nat
      BY <1>2, <1>4
    <3>2. SlicetypeLength + VfrInput \in Nat
      BY LookaheadAssumption
    <3> QED BY <1>1, <2>1, <3>1, <3>2 DEF EnoughFrames
  <2>2. /\ FirstOf(ifbuf, n) \in Seq(Frames) /\ Len(FirstOf(ifbuf, n)) = n
    BY <1>2, <1>4, Parts
  <2>3. Len(next') = Len(next) + n
    BY <1>1, <1>2, <2>2, Concat
  <2> QED BY <2>1, <2>3
<1>9. ifbuf = <<>> => ifbuf' = <<>>
  <2>1. Len(ifbuf') = Len(ifbuf) - n
    BY <1>1, <1>2, <1>4, Parts
  <2> QED BY <1>2, <1>4, <1>5, <2>1
<1>11. ThreadOK'
  BY <1>1, <1>8, <1>9 DEF IInv, ThreadOK, LaFill, GopSize, Threaded
<1>10. CallOK' /\ TimesOK' /\ RingOK'
  BY <1>1, EncoderKept DEF LaFill
<1> QED BY <1>5, <1>7, <1>10, <1>11 DEF IInv

LEMMA LaDrainStep ==
  ASSUME IInv, LaDrain PROVE IInv'
<1>1. /\ laPc = "drain" /\ draining' = TRUE /\ next' = next \o ifbuf /\ ifbuf' = <<>>
      /\ laPc' = DrainOn(next')
      /\ asleep' \in {WakeEnc("put"), asleep}
  BY DEF LaDrain, LaAt
<1>2. laPc' = IF next' = <<>> THEN "finish" ELSE "decide"
  BY <1>1 DEF DrainOn
<1>3. ifbuf \in Seq(Frames) /\ Len(ifbuf) \in 0..Len(ifbuf)
  BY DEF IInv, Types, TypeOK
<1>4. FirstOf(ifbuf, Len(ifbuf)) = ifbuf /\ RestOf(ifbuf, Len(ifbuf)) = <<>>
  <2>1. ifbuf \o <<>> = ifbuf /\ <<>> \in Seq(Frames)
    BY <1>3, NothingFirst
  <2> QED BY <1>3, <2>1, Split
<1>5. next' \in Seq(Frames) /\ ifbuf' \in Seq(Frames) /\ WaitingOK' /\ OrderOK' /\ GroupsOK'
  BY <1>1, <1>2, <1>3, <1>4, Filled DEF LaDrain, codeVars, callVars
<1>6. asleep' \subseteq {"la", "enc"}
  BY <1>1, Sleepers DEF IInv, Types, TypeOK
<1>7. Types'
  BY <1>1, <1>2, <1>5, <1>6 DEF IInv, Types, TypeOK, LaDrain, LaPCs, codeVars, callVars
<1>8. ThreadOK'
  BY <1>1, <1>2 DEF IInv, ThreadOK, LaDrain, GopSize, Threaded
<1>9. CallOK' /\ TimesOK' /\ RingOK'
  BY <1>1, EncoderKept DEF LaDrain
<1> QED BY <1>5, <1>7, <1>8, <1>9 DEF IInv

LEMMA Associative ==
  ASSUME NEW S, NEW s \in Seq(S), NEW t \in Seq(S), NEW u \in Seq(S)
  PROVE  (s \o t) \o u = s \o (t \o u)
BY ConcatAssociative

LEMMA LaDecideStep ==
  ASSUME IInv, ~BRefBeforeIdr, LaDecide PROVE IInv'
<1> USE DEF LaDecide
<1>a. PICK b \in MiniGopSizes :
        \E extra \in Miscounts(b) : \E R \in BRefSets(b, extra) :
          /\ Decided(b, R, extra)
          /\ next' = CodedOrder(b, R, extra) \o RestOf(next, b + 1)
  OBVIOUS
<1>b. PICK extra \in Miscounts(b) :
        \E R \in BRefSets(b, extra) :
          /\ Decided(b, R, extra)
          /\ next' = CodedOrder(b, R, extra) \o RestOf(next, b + 1)
  BY <1>a
<1>1. PICK R \in BRefSets(b, extra) :
        /\ Decided(b, R, extra)
        /\ next' = CodedOrder(b, R, extra) \o RestOf(next, b + 1)
  BY <1>b
<1>2. /\ laPc = "decide" /\ laPc' = "emit"
      /\ UNCHANGED <<ifbuf, ofbuf, exitThread, laActive, draining, encPc, asleep, current,
                     codeVars, callVars>>
  BY DEF LaAt
<1>3. /\ next \in Seq(Frames) /\ next # <<>> /\ Waiting = next /\ Order \in Seq(Frames)
      /\ \A i \in 1..Len(next) : next[i] = Len(Order) + i - 1
      /\ reordered \in [Frames -> Nat] /\ Len(Order) \in Nat
  <2>1. Waiting = next /\ Order \in Seq(Frames)
    BY <1>2, Facts
  <2>2. next \in Seq(Frames) /\ reordered \in [Frames -> Nat]
    BY DEF IInv, Types, TypeOK
  <2>3. next # <<>>
    BY <1>2 DEF IInv, ThreadOK
  <2> QED BY <2>1, <2>2, <2>3, Lengths DEF IInv, WaitingOK
<1> DEFINE o == CodedOrder(b, R, extra)
           r == RestOf(next, b + 1)
<1>4. b \in 0..BFrames /\ b + 1 <= Len(next) /\ o \in Seq(Frames) /\ Len(o) = b + 1
      /\ o[1] = next[b + 1]
  <2>1. b \in 0..BFrames /\ b + 1 <= Len(next) /\ Permuted(Len(Order), b, R, o)
    BY <1>3, NewGroup
  <2> HIDE DEF o
  <2> QED BY <2>1 DEF Permuted
<1>5. r \in Seq(Frames) /\ b \in Nat /\ Len(next) \in Nat /\ b + 1 \in 1..Len(next)
  <2>1. b \in Nat /\ Len(next) \in Nat
    BY <1>3, <1>4, ConstantFacts
  <2>2. b + 1 \in 0..Len(next)
    BY <1>4, <2>1
  <2>3. r \in Seq(Frames)
    BY <1>3, <2>2, Parts
  <2> QED BY <1>4, <2>1, <2>3
<1>6. /\ next' = o \o r /\ FirstOf(next', b + 1) = o /\ RestOf(next', b + 1) = r
      /\ next' \in Seq(Frames) /\ Len(next') >= b + 1 /\ next'[1] = next[b + 1]
  <2>1. next' = o \o r
    BY <1>1
  <2> HIDE DEF o, r
  <2>2. /\ o \o r \in Seq(Frames) /\ Len(o \o r) = Len(o) + Len(r)
        /\ \A i \in 1..Len(o) : (o \o r)[i] = o[i]
    <3>1. o \in Seq(Frames) /\ r \in Seq(Frames)
      BY <1>4, <1>5
    <3> QED BY <3>1, Concat
  <2>3. FirstOf(o \o r, Len(o)) = o /\ RestOf(o \o r, Len(o)) = r
    <3>1. o \in Seq(Frames) /\ r \in Seq(Frames)
      BY <1>4, <1>5
    <3> QED BY <3>1, Split
  <2>4. Len(r) \in Nat /\ Len(o) = b + 1 /\ 1 \in 1..Len(o)
    <3>1. Len(o) = b + 1 /\ r \in Seq(Frames)
      BY <1>4, <1>5
    <3>2. b \in Nat
      BY <1>5
    <3> QED BY <3>1, <3>2
  <2>5. Len(next') >= b + 1
    <3>1. Len(next') = (b + 1) + Len(r)
      BY <2>1, <2>2, <2>4
    <3> QED BY <1>5, <2>4, <3>1
  <2>6. o[1] = next[b + 1]
    BY <1>4
  <2> QED BY <2>1, <2>2, <2>3, <2>4, <2>5, <2>6
<1>7. ibframes' \in [Frames -> 0..BFrames] /\ ibframes'[next[b + 1]] = b
  <2>1. ibframes \in [Frames -> 0..BFrames] /\ next[b + 1] \in Frames
    <3>1. \A i \in 1..Len(next) : next[i] \in Frames
      BY <1>3
    <3> QED BY <1>5, <3>1 DEF IInv, Types, TypeOK
  <2> QED BY <1>1, <1>4, <2>1 DEF Decided
<1>8. GopSize(next)' = b + 1
  <2>1. GopSize(next)' = ibframes'[next'[1]] + 1
    BY DEF GopSize
  <2> QED BY <1>6, <1>7, <2>1
<1>9. Deciding' = o /\ Waiting' = r
  BY <1>2, <1>6, <1>8 DEF Deciding, Waiting
<1>10. Order' = Order \o o
  <2>1. Order = coded \o current \o ofbuf
    <3>1. Deciding = <<>>
      BY <1>2 DEF Deciding
    <3>2. coded \o current \o ofbuf \in Seq(Frames)
      BY DEF IInv, Types, TypeOK
    <3> QED BY <3>1, <3>2, NothingFirst DEF Order
  <2>2. Order' = coded \o current \o ofbuf \o o
    BY <1>2, <1>9 DEF Order, codeVars
  <2> QED BY <2>1, <2>2
<1>11. /\ ibframes' \in [Frames -> 0..BFrames] /\ reordered' \in [Frames -> Nat]
       /\ ftype' \in [Frames -> {"auto", "nonB", "BREF", "B"}]
       /\ WaitingOK' /\ OrderOK' /\ GroupsOK'
  <2>2. /\ Order' = Order \o CodedOrder(b, R, extra) /\ Waiting' = RestOf(next, b + 1)
        /\ Decided(b, R, extra)
    BY <1>1, <1>9, <1>10
  <2>3. /\ UNCHANGED <<ifbuf, input>> /\ encPc' = encPc
        /\ coded' = coded /\ current' = current /\ ofbuf' = ofbuf
    BY <1>2 DEF codeVars, callVars
  <2> QED BY <1>3, <2>2, <2>3, DecidedGroup
<1>12. Types'
  BY <1>2, <1>6, <1>11 DEF IInv, Types, TypeOK, LaPCs, codeVars, callVars
<1>13. ThreadOK'
  <2>1. GopSize(next)' \in 1..Len(next') /\ next' # <<>>
    BY <1>5, <1>6, <1>8
  <2> QED BY <1>2, <2>1 DEF IInv, ThreadOK, Threaded
<1>14. CallOK' /\ TimesOK' /\ RingOK'
  BY <1>2, EncoderKept
<1> QED BY <1>11, <1>12, <1>13, <1>14 DEF IInv

LEMMA LaEmitStep ==
  ASSUME IInv, LaEmit PROVE IInv'
<1>1. laPc = "emit" /\ LaEmit
  BY DEF LaEmit, LaAt
<1>2. CallOK' /\ TimesOK' /\ RingOK'
  BY <1>1, EncoderKept DEF LaEmit
<1>3. CASE Len(ofbuf) = OfbufMax
  <2>1. /\ asleep' = asleep \cup {"la"}
        /\ UNCHANGED <<listVars, laVars, encPc, current, codeVars, callVars>>
    BY <1>1, <1>3 DEF LaEmit, listVars, laVars
  <2>2. Types' /\ ThreadOK'
    BY <2>1, Sleepers DEF IInv, Types, TypeOK, ThreadOK, listVars, laVars, codeVars, callVars,
                          GopSize, Threaded
  <2>3. Order' = Order /\ Waiting' = Waiting
    BY <2>1, SameOrder DEF listVars, laVars, codeVars
  <2>4. WaitingOK' /\ OrderOK' /\ GroupsOK'
    BY <2>1, <2>3, WaitingKept, OrderKept, GroupsKept
       DEF IInv, listVars, laVars, codeVars, callVars
  <2> QED BY <1>2, <2>2, <2>4 DEF IInv
<1>4. CASE Len(ofbuf) # OfbufMax
  <2>1. /\ ofbuf' = ofbuf \o Deciding /\ next' = Waiting
        /\ asleep' = WakeEnc("get")
        /\ laPc' = IF draining THEN IF next' = <<>> THEN "finish" ELSE "decide" ELSE "top"
        /\ UNCHANGED <<ifbuf, ibframes, reordered, ftype, exitThread, laActive, draining, encPc,
                       current, codeVars, callVars>>
    BY <1>1, <1>4 DEF LaEmit, Deciding, Waiting, DrainOn
  <2>2. /\ coded \in Seq(Frames) /\ current \in Seq(Frames) /\ ofbuf \in Seq(Frames)
        /\ Deciding \in Seq(Frames) /\ Waiting \in Seq(Frames)
    BY Facts DEF IInv, Types, TypeOK
  <2>3. ofbuf' \in Seq(Frames) /\ Len(ofbuf') = Len(ofbuf) + Len(Deciding)
    BY <2>1, <2>2, Concat
  <2>4. Order' = Order /\ Waiting' = Waiting
    <3>1. Deciding' = <<>> /\ Waiting' = next'
      BY <2>1 DEF Deciding, Waiting
    <3> DEFINE c == coded \o current
    <3>2. c \in Seq(Frames) /\ c \o ofbuf' \in Seq(Frames)
      BY <2>2, <2>3
    <3>3. Order' = (c \o ofbuf') \o <<>>
      BY <2>1, <3>1 DEF Order, codeVars
    <3>4. Order = (c \o ofbuf) \o Deciding
      BY DEF Order
    <3> HIDE DEF c
    <3>5. Order' = c \o ofbuf'
      <4>1. (c \o ofbuf') \o <<>> = c \o ofbuf'
        BY <3>2, NothingFirst
      <4> QED BY <3>3, <4>1
    <3>6. (c \o ofbuf) \o Deciding = c \o (ofbuf \o Deciding)
      <4>1. c \in Seq(Frames) /\ ofbuf \in Seq(Frames) /\ Deciding \in Seq(Frames)
        BY <2>2, <3>2
      <4> QED BY <4>1, Associative
    <3> QED BY <2>1, <3>1, <3>4, <3>5, <3>6
  <2>5. asleep' \subseteq {"la", "enc"}
    BY <2>1, Sleepers DEF IInv, Types, TypeOK
  <2>6. Types'
    BY <2>1, <2>2, <2>3, <2>5 DEF IInv, Types, TypeOK, LaPCs, codeVars, callVars
  <2>7. ThreadOK'
    BY <1>1, <2>1 DEF IInv, ThreadOK, GopSize, Threaded
  <2>8. WaitingOK' /\ OrderOK'
    BY <2>1, <2>4, WaitingKept, OrderKept DEF IInv, codeVars, callVars
  <2>9. GroupsOK'
    <3>1. PICK cuts \in SUBSET Nat : CutsOK(cuts)
      BY DEF IInv, GroupsOK
    <3>2. Len(coded) + Len(current) + Len(ofbuf') = Len(Order)
      BY <2>3, Lengths
    <3>3. CutsOK(cuts)'
      BY <2>1, <2>4, <3>1, <3>2 DEF CutsOK, codeVars
    <3> QED BY <3>3 DEF GroupsOK
  <2> QED BY <1>2, <2>6, <2>7, <2>8, <2>9 DEF IInv
<1> QED BY <1>3, <1>4

-----------------------------------------------------------------------------
(* The ring of contexts.                                                   *)

LEMMA Ring ==
  ASSUME IInv
  PROVE  /\ phase \in Nat /\ phase < ThreadFrames /\ ThreadFrames \in Nat
         /\ Oldest = IF phase + 1 = ThreadFrames THEN 0 ELSE phase + 1
         /\ \A c \in Contexts : /\ Age(c) \in Nat /\ Age(c) < ThreadFrames
                                /\ Age(c) = 0 <=> c = phase
                                /\ Age(c) = ThreadFrames - 1 <=> c = Oldest
<1>1. /\ phase \in Nat /\ phase < ThreadFrames /\ ThreadFrames \in Nat /\ ThreadFrames > 0
  BY ConstantFacts DEF IInv, Types, TypeOK, Contexts
<1>2. Oldest = IF phase + 1 = ThreadFrames THEN 0 ELSE phase + 1
  <2>1. CASE phase + 1 = ThreadFrames
    BY <1>1, <2>1 DEF Oldest
  <2>2. CASE phase + 1 < ThreadFrames
    BY <1>1, <2>2 DEF Oldest
  <2> QED BY <1>1, <2>1, <2>2
<1>3. ASSUME NEW c \in Contexts
      PROVE  /\ Age(c) \in Nat /\ Age(c) < ThreadFrames
             /\ Age(c) = 0 <=> c = phase
             /\ Age(c) = ThreadFrames - 1 <=> c = Oldest
  <2>1. c \in Nat /\ c < ThreadFrames
    BY <1>1 DEF Contexts
  <2>2. Age(c) = IF c <= phase THEN phase - c ELSE phase - c + ThreadFrames
    BY DEF Age
  <2> QED BY <1>1, <1>2, <2>1, <2>2
<1> QED BY <1>1, <1>2, <1>3

(* The ring turns at the beginning of a call: every frame is one call      *)
(* older, the context of this call is empty.                               *)
LEMMA RingTurns ==
  ASSUME IInv, encPc = "idle", encPc' \in {"put", "get"}, phase' = Oldest,
         UNCHANGED <<coded, output, slot>>, Finished => Finished'
  PROVE  RingOK' /\ phase' \in Contexts
<1>1. PICK gap \in Nat : RingAt(gap)
  BY DEF IInv, RingOK
<1>2. gap + (Len(coded) - Len(output)) < ThreadFrames /\ (~Finished => gap = 0)
  BY <1>1 DEF RingAt, Turned
<1>3. /\ Len(coded) \in Nat /\ Len(output) \in Nat /\ Len(output) <= Len(coded)
      /\ slot \in [Contexts -> Frames \cup {NoFrame}]
  BY Lengths DEF IInv, RingOK, Types, TypeOK
<1> DEFINE h == Len(coded) - Len(output)
<1>4. h \in Nat /\ gap + h < ThreadFrames
  BY <1>2, <1>3
<1> HIDE DEF h
<1>5. ASSUME NEW c \in Contexts
      PROVE  slot'[c] = IF gap + 1 <= Age(c)' /\ Age(c)' < (gap + 1) + h
                        THEN coded[Len(coded) - (Age(c)' - (gap + 1))] ELSE NoFrame
  <2>1. /\ Age(c) \in Nat /\ Age(c) < ThreadFrames /\ ThreadFrames \in Nat
        /\ Age(c) = ThreadFrames - 1 <=> c = Oldest
    BY Ring
  <2>2. slot[c] = IF gap <= Age(c) /\ Age(c) < gap + h
                  THEN coded[Len(coded) - (Age(c) - gap)] ELSE NoFrame
    BY <1>1 DEF RingAt, h
  <2>3. Age(c)' = IF c = Oldest THEN 0 ELSE Age(c) + 1
    <3>1. /\ phase \in Nat /\ phase < ThreadFrames
          /\ Oldest = IF phase + 1 = ThreadFrames THEN 0 ELSE phase + 1
      BY Ring
    <3>2. Age(c) = IF c <= phase THEN phase - c ELSE phase - c + ThreadFrames
      BY DEF Age
    <3>3. Age(c)' = IF c <= phase' THEN phase' - c ELSE phase' - c + ThreadFrames
      BY DEF Age
    <3>4. c \in Nat /\ c < ThreadFrames
      BY <2>1 DEF Contexts
    <3> QED BY <2>1, <3>1, <3>2, <3>3, <3>4
  <2>4. CASE c = Oldest
    BY <1>4, <2>1, <2>2, <2>3, <2>4
  <2>5. CASE c # Oldest
    <3>1. Age(c)' = Age(c) + 1 /\ Age(c)' - (gap + 1) = Age(c) - gap
      BY <2>1, <2>3, <2>5
    <3> QED BY <1>4, <2>1, <2>2, <3>1
  <2> QED BY <2>4, <2>5
<1>6. RingAt(gap + 1)'
  BY <1>2, <1>3, <1>4, <1>5, Ring DEF RingAt, Turned, h
<1>7. phase' \in Contexts
  BY Ring DEF Contexts
<1> QED BY <1>6, <1>7 DEF IInv, RingOK

(* Nothing that the ring depends on changes between the turn and the end.  *)
LEMMA RingKept ==
  ASSUME IInv, UNCHANGED <<coded, output, slot, phase>>, Finished => Finished',
         Turned' = Turned,
         encPc' \in {"idle", "closing", "closed"} => encPc \in {"idle", "closing", "closed"}
  PROVE  RingOK'
<1>1. PICK gap \in Nat : RingAt(gap)
  BY DEF IInv, RingOK
<1>2. RingAt(gap)'
  BY <1>1 DEF RingAt, Age
<1> QED BY <1>2 DEF IInv, RingOK

LEMMA TimesKept ==
  ASSUME TimesOK, UNCHANGED <<delayTime, input, dts, coded, prevReordered>>
  PROVE  TimesOK'
BY DEF TimesOK, DtsAt

-----------------------------------------------------------------------------
(* The steps of the encoder.                                               *)

LEMMA EncodeCallStep ==
  ASSUME IInv, EncodeCall PROVE IInv'
<1>1. /\ encPc = "idle" /\ ~exitThread /\ input < MaxFrames
      /\ phase' = Oldest /\ input' = input + 1 /\ encPc' = "put"
      /\ delayTime' = IF BFrameDelay > 0 /\ input = BFrameDelay
                      THEN Pts[input] - Pts[0] ELSE delayTime
      /\ UNCHANGED <<listVars, laVars, asleep, current, codeVars>>
  BY DEF EncodeCall, Oldest
<1>2. input \in Nat /\ MaxFrames \in Nat /\ BFrameDelay \in Nat /\ Len(coded) \in Nat
  <2>1. BFrameDelay \in {0, 1, 2}
    BY ConstantFacts
  <2> QED BY <2>1, Lengths
<1>3. Order' = Order /\ Waiting' = Waiting
  BY <1>1, SameOrder DEF listVars, laVars, codeVars
<1>4. WaitingOK'
  <2>1. input = Len(Order) + Len(Waiting) + Len(ifbuf)
    BY <1>1 DEF IInv, WaitingOK
  <2>2. Len(Order) \in Nat /\ Len(Waiting) \in Nat /\ Len(ifbuf) \in Nat
    BY Lengths
  <2>3. input' = Len(Order) + Len(Waiting) + Len(ifbuf) + 1
    BY <1>1, <2>1, <2>2
  <2> QED BY <1>1, <1>3, <2>3 DEF IInv, WaitingOK, listVars
<1>5. OrderOK' /\ GroupsOK'
  BY <1>1, <1>3, OrderKept, GroupsKept DEF IInv, listVars, codeVars
<1>6. RingOK' /\ phase' \in Contexts
  <2>1. ~Finished
    BY <1>1 DEF Finished
  <2> QED BY <1>1, <2>1, RingTurns DEF codeVars
<1>7. TimesOK' /\ delayTime' \in Int
  <2>0. /\ delayTime = IF BFrameDelay > 0 /\ input > BFrameDelay
                       THEN Pts[BFrameDelay] - Pts[0] ELSE 0
        /\ delayTime \in Int
    BY DEF IInv, TimesOK, Types
  <2>1. CASE BFrameDelay > 0 /\ input = BFrameDelay
    <3>1. coded = <<>>
      <4>1. Delay + 1 - ThreadFrames >= BFrames /\ BFrames >= BFrameDelay
            /\ Delay + 1 - ThreadFrames \in Nat /\ BFrames \in Nat
        BY ConstantFacts
      <4>2. Filling
        BY <1>2, <2>1, <4>1 DEF Filling
      <4> QED BY <1>1, <4>2 DEF IInv, CallOK
    <3>2. coded' = <<>> /\ dts' = dts
      BY <1>1, <3>1 DEF codeVars
    <3>3. delayTime' = Pts[BFrameDelay] - Pts[0]
      BY <1>1, <2>1
    <3>4. input' > BFrameDelay
      BY <1>1, <1>2, <2>1
    <3>5. Len(dts') = Len(coded')
      BY <3>1, <3>2 DEF IInv, TimesOK
    <3>6. \A i \in 1..Len(coded') : FALSE
      BY <3>2
    <3>7. delayTime' \in Int
      <4>1. input \in Frames /\ 0 \in Frames
        BY <1>1, <1>2, FrameFacts
      <4> QED BY <2>1, <3>3, <4>1, ConstantFacts
    <3> QED BY <2>1, <3>3, <3>4, <3>5, <3>6, <3>7 DEF TimesOK
  <2>2. CASE ~(BFrameDelay > 0 /\ input = BFrameDelay)
    <3>1. delayTime' = delayTime
      BY <1>1, <2>2
    <3>2. BFrameDelay > 0 => (input' > BFrameDelay <=> input > BFrameDelay)
      BY <1>1, <1>2, <2>2
    <3> QED BY <1>1, <2>0, <3>1, <3>2 DEF IInv, TimesOK, DtsAt, codeVars
  <2> QED BY <2>1, <2>2
<1>8. Types'
  <2>1. input' \in 0..MaxFrames
    BY <1>1, <1>2
  <2> QED BY <1>1, <1>6, <1>7, <2>1
          DEF IInv, Types, TypeOK, EncPCs, listVars, laVars, codeVars
<1>9. ThreadOK'
  BY <1>1 DEF IInv, ThreadOK, listVars, laVars, GopSize, Threaded
<1>10. CallOK'
  <2>1. input - Len(coded) <= Delay + 1 - ThreadFrames
    BY <1>1, <1>2, ConstantFacts DEF IInv, CallOK, Turned
  <2>2. input' - Len(coded') <= Delay + 1 - ThreadFrames + 1 /\ input' > 0
    <3>1. Delay + 1 - ThreadFrames \in Nat
      BY ConstantFacts
    <3> QED BY <1>1, <1>2, <2>1, <3>1 DEF codeVars
  <2>3. coded # <<>> => ~Filling'
    <3>1. Delay + 1 - ThreadFrames \in Nat
      BY ConstantFacts
    <3> QED BY <1>1, <1>2, <3>1 DEF IInv, CallOK, Filling
  <2>4. iFrame' = Len(coded') - 1
    BY <1>1 DEF IInv, CallOK, Finished, codeVars
  <2> QED BY <1>1, <2>2, <2>3, <2>4 DEF IInv, CallOK, Turned, laVars, codeVars
<1> QED BY <1>4, <1>5, <1>6, <1>7, <1>8, <1>9, <1>10 DEF IInv

LEMMA PutSignalStep ==
  ASSUME IInv, PutSignal PROVE IInv'
<1>1. /\ encPc = "putSignal"
      /\ asleep' = WakeLa("waitInput")
      /\ \/ Filling /\ encPc' = "idle" /\ UNCHANGED iFrame
         \/ ~Filling /\ encPc' = "get" /\ iFrame' = iFrame + 1
      /\ UNCHANGED <<listVars, laVars, current, slot, prevReordered, coded, dts, output, callVars>>
  BY DEF PutSignal, EncAt
<1>2. Order' = Order /\ Waiting' = Waiting
  BY <1>1, SameOrder DEF listVars, laVars
<1>3. WaitingOK' /\ OrderOK' /\ GroupsOK'
  BY <1>1, <1>2, WaitingKept, OrderKept, GroupsKept DEF IInv, listVars, callVars
<1>4. TimesOK'
  BY <1>1, TimesKept DEF IInv, callVars
<1>5. ThreadOK'
  BY <1>1 DEF IInv, ThreadOK, listVars, laVars, GopSize, Threaded
<1>6. ~exitThread /\ iFrame = Len(coded) - 1 /\ ~Finished /\ input > 0
  BY <1>1 DEF IInv, CallOK, Finished
<1>7. Types'
  <2>1. asleep' \subseteq {"la", "enc"}
    BY <1>1, Sleepers DEF IInv, Types, TypeOK
  <2>2. iFrame' \in Int
    BY <1>1 DEF IInv, Types
  <2> QED BY <1>1, <2>1, <2>2 DEF IInv, Types, TypeOK, EncPCs, listVars, laVars, callVars
<1>8. Len(coded) \in Nat /\ input \in Nat
  BY Lengths
<1>9. CASE Filling
  <2>1. encPc' = "idle" /\ iFrame' = iFrame
    BY <1>1, <1>9
  <2>2. coded = <<>>
    BY <1>6, <1>9 DEF IInv, CallOK
  <2>3. CallOK'
    <3>1. input - Len(coded) <= Delay + 1 - ThreadFrames
      BY <1>8, <1>9, <2>2 DEF Filling
    <3>2. iFrame' = Len(coded') - 1
      BY <1>1, <1>6, <2>1
    <3>3. input' - Len(coded') <= Delay + 1 - ThreadFrames + (IF Turned' THEN 1 ELSE 0)
      <4>1. ~Turned'
        BY <2>1 DEF Turned
      <4>2. Delay + 1 - ThreadFrames + 0 = Delay + 1 - ThreadFrames
        BY ConstantFacts
      <4> QED BY <1>1, <3>1, <4>1, <4>2 DEF callVars
    <3>4. ~exitThread' /\ coded' = <<>>
      BY <1>1, <1>6, <2>2 DEF laVars
    <3> QED BY <2>1, <3>2, <3>3, <3>4 DEF CallOK
  <2>4. RingOK'
    <3>1. PICK gap \in Nat : RingAt(gap)
      BY DEF IInv, RingOK
    <3>2. Len(coded) = 0 /\ Len(output) = 0
      BY <2>2, Lengths DEF IInv, RingOK
    <3>3. \A c \in Contexts : slot[c] = NoFrame
      BY <3>1, <3>2, Ring DEF RingAt
    <3>4. RingAt(0)'
      <4>1. Len(coded') - Len(output') = 0 /\ ~Turned'
        BY <1>1, <2>1, <3>2 DEF Turned
      <4>2. 0 + 0 <= ThreadFrames /\ 0 + 0 < ThreadFrames
        BY ConstantFacts
      <4>3. ASSUME NEW c \in Contexts PROVE slot'[c] = NoFrame /\ ~(Age(c)' < 0 + 0)
        <5>1. Age(c)' = Age(c) /\ Age(c) \in Nat
          BY <1>1, Ring DEF Age, callVars
        <5> QED BY <1>1, <3>3, <5>1
      <4> QED BY <4>1, <4>2, <4>3 DEF RingAt
    <3> QED BY <1>1, <3>4 DEF IInv, RingOK
  <2> QED BY <1>3, <1>4, <1>5, <1>7, <2>3, <2>4 DEF IInv
<1>10. CASE ~Filling
  <2>1. encPc' = "get" /\ iFrame' = iFrame + 1
    BY <1>1, <1>10
  <2>2. iFrame' = Len(coded')
    BY <1>1, <1>6, <1>8, <2>1
  <2>3. CallOK'
    BY <1>1, <1>6, <1>10, <2>1, <2>2
       DEF IInv, CallOK, Turned, Filling, laVars, listVars, callVars
  <2>4. RingOK'
    BY <1>1, <1>6, <2>1, RingKept DEF Turned, callVars
  <2> QED BY <1>3, <1>4, <1>5, <1>7, <2>3, <2>4 DEF IInv
<1> QED BY <1>9, <1>10

LEMMA FlushCallStep ==
  ASSUME IInv, FlushCall PROVE IInv'
<1>1. /\ encPc = "idle" /\ encPc' = "get" /\ exitThread'
      /\ phase' = Oldest /\ iFrame' = iFrame + 1 /\ asleep' = WakeLa("waitInput")
      /\ UNCHANGED <<listVars, laActive, laPc, draining, current, slot, prevReordered, coded,
                     dts, output, input, delayTime>>
  BY DEF FlushCall, Oldest, ExitSignal
<1>2. Order' = Order /\ Waiting' = Waiting
  BY <1>1, SameOrder DEF listVars
<1>3. WaitingOK' /\ OrderOK' /\ GroupsOK'
  BY <1>1, <1>2, WaitingKept, OrderKept, GroupsKept DEF IInv, listVars
<1>4. TimesOK'
  BY <1>1, TimesKept DEF IInv
<1>5. ThreadOK'
  BY <1>1 DEF IInv, ThreadOK, listVars, GopSize, Threaded
<1>6. RingOK' /\ phase' \in Contexts
  BY <1>1, RingTurns DEF Finished
<1>7. Types'
  <2>1. asleep' \subseteq {"la", "enc"}
    BY <1>1, Sleepers DEF IInv, Types, TypeOK
  <2>2. iFrame' \in Int /\ exitThread' \in BOOLEAN
    <3>1. exitThread' = TRUE
      BY DEF FlushCall
    <3>2. iFrame \in Int
      BY DEF IInv, Types
    <3> QED BY <1>1, <3>1, <3>2
  <2> QED BY <1>1, <1>6, <2>1, <2>2 DEF IInv, Types, TypeOK, EncPCs, listVars
<1>8. CallOK'
  <2>1. Len(coded) \in Nat /\ input \in Nat /\ Delay + 1 - ThreadFrames \in Nat /\ iFrame \in Int
    BY Lengths, ConstantFacts DEF IInv, Types
  <2>2. input' - Len(coded') <= Delay + 1 - ThreadFrames + 1
    BY <1>1, <2>1 DEF IInv, CallOK, Turned
  <2>3. iFrame' = Len(coded') \/ Finished'
    BY <1>1, <2>1 DEF IInv, CallOK, Finished
  <2> QED BY <1>1, <2>2, <2>3 DEF CallOK, Turned
<1> QED BY <1>3, <1>4, <1>5, <1>6, <1>7, <1>8 DEF IInv

LEMMA CloseCallStep ==
  ASSUME IInv, CloseCall PROVE IInv'
<1>1. /\ encPc = "idle" /\ encPc' = "closing"
      /\ \/ Threaded /\ exitThread' = TRUE /\ asleep' = WakeLa("waitInput")
         \/ ~Threaded /\ UNCHANGED <<exitThread, asleep>>
      /\ UNCHANGED <<listVars, laActive, laPc, draining, current, codeVars, callVars>>
  BY DEF CloseCall, ExitSignal
<1>2. Order' = Order /\ Waiting' = Waiting
  BY <1>1, SameOrder DEF listVars, codeVars
<1>3. WaitingOK' /\ OrderOK' /\ GroupsOK'
  BY <1>1, <1>2, WaitingKept, OrderKept, GroupsKept DEF IInv, listVars, codeVars, callVars
<1>4. TimesOK'
  BY <1>1, TimesKept DEF IInv, codeVars, callVars
<1>5. ThreadOK'
  BY <1>1 DEF IInv, ThreadOK, listVars, GopSize, Threaded
<1>6. Finished => Finished'
  BY <1>1 DEF Finished, codeVars, callVars
<1>7. RingOK'
  BY <1>1, <1>6, RingKept DEF Turned, codeVars, callVars
<1>8. Types'
  <2>1. asleep' \subseteq {"la", "enc"}
    BY <1>1, Sleepers DEF IInv, Types, TypeOK
  <2>2. exitThread' \in BOOLEAN
    BY <1>1 DEF IInv, Types, TypeOK
  <2> QED BY <1>1, <2>1, <2>2 DEF IInv, Types, TypeOK, EncPCs, listVars, codeVars, callVars
<1>9. CallOK'
  <2>1. ~exitThread' => ~exitThread
    BY <1>1
  <2> QED BY <1>1, <1>6, <2>1 DEF IInv, CallOK, Turned, Filling, codeVars, callVars
<1> QED BY <1>3, <1>4, <1>5, <1>7, <1>8, <1>9 DEF IInv

(* Steps that only move the program counter, or after which a thread       *)
(* sleeps or is awake.                                                     *)
LEMMA QuietStep ==
  ASSUME IInv, UNCHANGED <<listVars, laVars, current, codeVars, callVars>>,
         asleep' \subseteq {"la", "enc"},
         \/ encPc' = encPc
         \/ encPc = "closing" /\ encPc' = "closed"
         \/ encPc = "get" /\ encPc' = "take" /\ current # <<>>
  PROVE  IInv'
<1>1. Order' = Order /\ Waiting' = Waiting
  BY SameOrder DEF listVars, laVars, codeVars
<1>2. WaitingOK' /\ OrderOK' /\ GroupsOK'
  BY <1>1, WaitingKept, OrderKept, GroupsKept
     DEF IInv, listVars, codeVars, callVars
<1>3. TimesOK'
  BY TimesKept DEF IInv, codeVars, callVars
<1>4. ThreadOK'
  BY DEF IInv, ThreadOK, listVars, laVars, GopSize, Threaded
<1>5. RingOK'
  BY RingKept DEF Turned, Finished, codeVars, callVars, laVars
<1>6. Types'
  BY DEF IInv, Types, TypeOK, EncPCs, listVars, laVars, codeVars, callVars
<1>7. CallOK'
  BY DEF IInv, CallOK, Turned, Filling, Finished, listVars, laVars, codeVars, callVars
<1> QED BY <1>2, <1>3, <1>4, <1>5, <1>6, <1>7 DEF IInv

LEMMA PutStep ==
  ASSUME IInv, Put PROVE IInv'
<1>0. encPc = "put" /\ Put
  BY DEF Put, EncAt
<1>1. CASE ~PutRoom
  <2>1. /\ asleep' = asleep \cup {"enc"} /\ encPc' = encPc
        /\ UNCHANGED <<listVars, laVars, current, codeVars, callVars>>
    BY <1>1 DEF Put, listVars
  <2>2. asleep' \subseteq {"la", "enc"}
    BY <2>1, Sleepers DEF IInv, Types, TypeOK
  <2> QED BY <2>1, <2>2, QuietStep
<1>2. CASE PutRoom
  <2>1. /\ encPc' = "putSignal"
        /\ ifbuf' = IF Threaded THEN Append(ifbuf, input - 1) ELSE ifbuf
        /\ next' = IF Threaded THEN next ELSE Append(next, input - 1)
        /\ UNCHANGED <<ofbuf, ibframes, reordered, ftype, laVars, asleep, current, codeVars, callVars>>
    BY <1>2 DEF Put
  <2>2. /\ input > 0 /\ input - 1 \in Frames /\ ~exitThread
        /\ next \in Seq(Frames) /\ ifbuf \in Seq(Frames)
    <3>1. input > 0 /\ ~exitThread
      BY <1>0 DEF IInv, CallOK
    <3>2. input - 1 \in Frames
      <4>1. input \in Nat /\ MaxFrames \in Nat /\ input <= MaxFrames
        BY Lengths
      <4>2. input - 1 \in Nat /\ input - 1 < MaxFrames
        BY <3>1, <4>1
      <4> QED BY <4>2, FrameFacts
    <3> QED BY <3>1, <3>2 DEF IInv, Types, TypeOK
  <2>3. /\ \A i \in 1..Len(Waiting) : Waiting[i] = Len(Order) + i - 1
        /\ \A i \in 1..Len(ifbuf) : ifbuf[i] = Len(Order) + Len(Waiting) + i - 1
        /\ input - 1 = Len(Order) + Len(Waiting) + Len(ifbuf)
        /\ Len(Order) \in Nat /\ Len(Waiting) \in Nat /\ Len(ifbuf) \in Nat /\ input \in Nat
    <3>1. input = Len(Order) + Len(Waiting) + Len(ifbuf) + 1
      BY <1>0 DEF IInv, WaitingOK
    <3>2. /\ \A i \in 1..Len(Waiting) : Waiting[i] = Len(Order) + i - 1
          /\ \A i \in 1..Len(ifbuf) : ifbuf[i] = Len(Order) + Len(Waiting) + i - 1
      BY DEF IInv, WaitingOK
    <3>3. /\ Len(Order) \in Nat /\ Len(Waiting) \in Nat /\ Len(ifbuf) \in Nat /\ input \in Nat
      BY Lengths
    <3>4. input - 1 = Len(Order) + Len(Waiting) + Len(ifbuf)
      BY <3>1, <3>3
    <3> QED BY <3>2, <3>3, <3>4
  <2>4. TimesOK'
    BY <2>1, TimesKept DEF IInv, codeVars, callVars
  <2>5. RingOK'
    BY <1>0, <2>1, RingKept DEF Turned, Finished, laVars, codeVars, callVars
  <2>6. ifbuf' \in Seq(Frames) /\ next' \in Seq(Frames) /\ (~Threaded => next' # <<>>)
    BY <2>1, <2>2
  <2>7. Types'
    BY <2>1, <2>6 DEF IInv, Types, TypeOK, EncPCs, laVars, codeVars, callVars
  <2>8. CallOK'
    BY <1>0, <2>1, <2>2, <2>6 DEF IInv, CallOK, Turned, Filling, Finished, laVars, codeVars, callVars
  <2>9. CASE Threaded
    <3>1. next' = next /\ ifbuf' = Append(ifbuf, input - 1)
      BY <2>1, <2>9
    <3>2. Order' = Order /\ Waiting' = Waiting
      BY <2>1, <3>1, SameOrder DEF laVars, codeVars
    <3>3. ~draining /\ laPc \notin {"drain", "finish", "done"}
      BY <2>2, <2>9 DEF IInv, ThreadOK
    <3>4. ThreadOK'
      BY <2>1, <2>9, <3>1, <3>3 DEF IInv, ThreadOK, laVars, GopSize, Threaded
    <3>5. OrderOK' /\ GroupsOK'
      BY <2>1, <3>2, OrderKept, GroupsKept DEF IInv, codeVars
    <3>6. /\ Len(ifbuf') = Len(ifbuf) + 1
          /\ \A i \in 1..Len(ifbuf) : ifbuf'[i] = ifbuf[i]
          /\ ifbuf'[Len(ifbuf) + 1] = input - 1
      BY <2>2, <3>1
    <3>7. ASSUME NEW i \in 1..Len(ifbuf')
          PROVE  ifbuf'[i] = Len(Order) + Len(Waiting) + i - 1
      <4>1. CASE i \in 1..Len(ifbuf)
        BY <2>3, <3>6, <4>1
      <4>2. CASE i = Len(ifbuf) + 1
        BY <2>3, <3>6, <4>2
      <4>3. i \in 1..Len(ifbuf) \/ i = Len(ifbuf) + 1
        BY <2>3, <3>6
      <4> QED BY <4>1, <4>2, <4>3
    <3>8. input = Len(Order) + Len(Waiting) + Len(ifbuf')
      BY <2>3, <3>6
    <3>9. WaitingOK'
      BY <2>1, <2>3, <3>2, <3>7, <3>8 DEF WaitingOK, callVars
    <3> QED BY <2>4, <2>5, <2>7, <2>8, <3>4, <3>5, <3>9 DEF IInv
  <2>10. CASE ~Threaded
    <3>1. next' = Append(next, input - 1) /\ ifbuf' = ifbuf
      BY <2>1, <2>10
    <3>2. laPc = "done" /\ laPc' = "done" /\ ifbuf = <<>>
      BY <2>1, <2>10 DEF IInv, ThreadOK, laVars
    <3>3. Order' = Order /\ Waiting = next /\ Waiting' = next'
      BY <2>1, <3>2 DEF Order, Deciding, Waiting, codeVars
    <3>4. ThreadOK'
      BY <2>1, <2>10, <3>1, <3>2 DEF IInv, ThreadOK, laVars, GopSize, Threaded
    <3>5. OrderOK' /\ GroupsOK'
      BY <2>1, <3>3, OrderKept, GroupsKept DEF IInv, codeVars
    <3>6. /\ Len(next') = Len(next) + 1
          /\ \A i \in 1..Len(next) : next'[i] = next[i]
          /\ next'[Len(next) + 1] = input - 1
      BY <2>2, <3>1
    <3>7. Len(ifbuf) = 0 /\ input - 1 = Len(Order) + Len(next) /\ Len(next) \in Nat
      BY <2>3, <3>2, <3>3
    <3>8. ASSUME NEW i \in 1..Len(next') PROVE next'[i] = Len(Order) + i - 1
      <4>1. CASE i \in 1..Len(next)
        BY <2>3, <3>3, <3>6, <4>1
      <4>2. CASE i = Len(next) + 1
        BY <2>3, <3>6, <3>7, <4>2
      <4>3. i \in 1..Len(next) \/ i = Len(next) + 1
        BY <3>6, <3>7
      <4> QED BY <4>1, <4>2, <4>3
    <3>9. input = Len(Order) + Len(next') + Len(ifbuf)
      BY <2>3, <3>6, <3>7
    <3>10. WaitingOK'
      BY <2>1, <3>1, <3>2, <3>3, <3>8, <3>9 DEF WaitingOK, callVars
    <3> QED BY <2>4, <2>5, <2>7, <2>8, <3>4, <3>5, <3>10 DEF IInv
  <2> QED BY <2>9, <2>10
<1> QED BY <1>1, <1>2

LEMMA TakeNothingStep ==
  ASSUME IInv, TakeNothing PROVE IInv'
<1>1. /\ encPc = "take" /\ encPc' = "end" /\ current = <<>>
      /\ UNCHANGED <<listVars, laVars, asleep, current, codeVars, callVars>>
  BY DEF TakeNothing, EncAt
<1>2. Order' = Order /\ Waiting' = Waiting
  BY <1>1, SameOrder DEF listVars, laVars, codeVars
<1>3. WaitingOK' /\ OrderOK' /\ GroupsOK'
  BY <1>1, <1>2, WaitingKept, OrderKept, GroupsKept
     DEF IInv, listVars, codeVars, callVars
<1>4. TimesOK'
  BY <1>1, TimesKept DEF IInv, codeVars, callVars
<1>5. ThreadOK'
  BY <1>1 DEF IInv, ThreadOK, listVars, laVars, GopSize, Threaded
<1>6. Types'
  BY <1>1 DEF IInv, Types, TypeOK, EncPCs, listVars, laVars, codeVars, callVars
<1>7. Finished /\ exitThread /\ Len(coded) = input
  <2>1. exitThread /\ laPc = "done" /\ ifbuf = <<>> /\ next = <<>> /\ ofbuf = <<>>
    BY <1>1 DEF IInv, CallOK
  <2>2. input = Len(coded)
    BY <1>1, <2>1, Lengths
  <2> QED BY <2>1, <2>2 DEF Finished
<1>8. Finished'
  BY <1>1, <1>7 DEF Finished, laVars, codeVars, callVars
<1>9. CallOK'
  <2>1. input - Len(coded) <= Delay + 1 - ThreadFrames + 0
    BY <1>7, Lengths, ConstantFacts
  <2>2. exitThread' /\ ~Turned' /\ input' - Len(coded') = input - Len(coded)
    BY <1>1, <1>7 DEF Turned, laVars, codeVars, callVars
  <2> QED BY <1>1, <1>8, <2>1, <2>2 DEF CallOK
<1>10. RingOK'
  <2>1. PICK gap \in Nat : RingAt(gap)
    BY DEF IInv, RingOK
  <2>2. RingAt(gap)'
    BY <1>1, <1>8, <2>1 DEF RingAt, Age, codeVars, callVars
  <2> QED BY <1>1, <2>2 DEF IInv, RingOK, codeVars
<1> QED BY <1>3, <1>4, <1>5, <1>6, <1>9, <1>10 DEF IInv

LEMMA EndFrameStep ==
  ASSUME IInv, EndFrame PROVE IInv'
<1>1. /\ encPc = "end" /\ encPc' = "idle"
      /\ \/ slot[Oldest] = NoFrame /\ UNCHANGED <<slot, output>>
         \/ /\ slot[Oldest] # NoFrame
            /\ output' = Append(output, slot[Oldest])
            /\ slot' = [slot EXCEPT ![Oldest] = NoFrame]
      /\ UNCHANGED <<listVars, laVars, asleep, current, iFrame, prevReordered, coded, dts, callVars>>
  BY DEF EndFrame, EncAt, Ending
<1>2. Order' = Order /\ Waiting' = Waiting
  BY <1>1, SameOrder DEF listVars, laVars
<1>3. WaitingOK' /\ OrderOK' /\ GroupsOK'
  BY <1>1, <1>2, WaitingKept, OrderKept, GroupsKept DEF IInv, listVars, callVars
<1>4. TimesOK'
  BY <1>1, TimesKept DEF IInv, callVars
<1>5. ThreadOK'
  BY <1>1 DEF IInv, ThreadOK, listVars, laVars, GopSize, Threaded
<1>6. CallOK'
  BY <1>1 DEF IInv, CallOK, Turned, Filling, Finished, listVars, laVars, callVars
<1>7. /\ Oldest \in Contexts /\ output \in Seq(Frames) /\ coded \in Seq(Frames)
      /\ slot \in [Contexts -> Frames \cup {NoFrame}]
      /\ ThreadFrames \in Nat /\ ThreadFrames > 0
  <2>1. Oldest \in Contexts
    BY Ring DEF Contexts
  <2> QED BY <2>1, ConstantFacts DEF IInv, Types, TypeOK
<1>8. Types'
  <2>1. output' \in Seq(Frames) /\ slot' \in [Contexts -> Frames \cup {NoFrame}]
    <3>1. slot[Oldest] \in Frames \cup {NoFrame}
      BY <1>7
    <3> QED BY <1>1, <1>7, <3>1
  <2> QED BY <1>1, <2>1 DEF IInv, Types, TypeOK, EncPCs, listVars, laVars, callVars
<1>9. RingOK'
  <2>1. PICK gap \in Nat : RingAt(gap)
    BY DEF IInv, RingOK
  <2> DEFINE n == Len(coded)
             h == Len(coded) - Len(output)
  <2>2. n \in Nat /\ Len(output) \in Nat /\ Len(output) <= n
    BY <1>7 DEF IInv, RingOK
  <2>3. /\ gap + h <= ThreadFrames /\ (~Finished => gap = 0) /\ h \in Nat
        /\ \A c \in Contexts : slot[c] = IF gap <= Age(c) /\ Age(c) < gap + h
                                         THEN coded[n - (Age(c) - gap)] ELSE NoFrame
    BY <1>1, <2>1, <2>2 DEF RingAt, Turned
  <2>4. /\ \A c \in Contexts : Age(c)' = Age(c)
        /\ Finished' = Finished /\ ~Turned' /\ coded' = coded /\ encPc' = "idle"
    BY <1>1 DEF Age, Finished, Turned, laVars, callVars
  <2>5. CASE slot[Oldest] = NoFrame
    <3>1. slot' = slot /\ output' = output
      BY <1>1, <2>5
    <3>2. h = 0 \/ gap + h < ThreadFrames
      <4>1. ASSUME h > 0, gap + h = ThreadFrames PROVE FALSE
        <5>1. Age(Oldest) = ThreadFrames - 1
          BY <1>7, Ring
        <5>2. gap <= ThreadFrames - 1 /\ ThreadFrames - 1 < gap + h
          BY <1>7, <2>3, <4>1
        <5>3. slot[Oldest] = coded[n - ((ThreadFrames - 1) - gap)]
          BY <1>7, <2>3, <5>1, <5>2
        <5>4. n - ((ThreadFrames - 1) - gap) \in 1..n
          BY <1>7, <2>2, <2>3, <4>1
        <5>5. coded[n - ((ThreadFrames - 1) - gap)] \in Frames
          BY <1>7, <5>4
        <5> QED BY <2>5, <5>3, <5>5, FrameFacts
      <4> QED BY <1>7, <2>3, <4>1
    <3>3. CASE h = 0
      <4>1. \A c \in Contexts : slot[c] = NoFrame
        <5> TAKE c \in Contexts
        <5>1. Age(c) \in Nat
          BY Ring
        <5> QED BY <2>3, <3>3, <5>1
      <4>2. RingAt(0)'
        <5>1. Len(coded') - Len(output') = 0
          BY <2>4, <3>1, <3>3
        <5>2. 0 + 0 <= ThreadFrames /\ 0 + 0 < ThreadFrames
          BY <1>7
        <5>3. ASSUME NEW c \in Contexts PROVE slot'[c] = NoFrame /\ ~(Age(c)' < 0 + 0)
          <6>1. Age(c) \in Nat
            BY Ring
          <6> QED BY <2>4, <3>1, <4>1, <6>1
        <5> QED BY <2>4, <5>1, <5>2, <5>3 DEF RingAt
      <4> QED BY <2>4, <3>1, <4>2 DEF IInv, RingOK
    <3>4. CASE gap + h < ThreadFrames
      <4>1. RingAt(gap)'
        BY <2>3, <2>4, <3>1, <3>4 DEF RingAt
      <4> QED BY <2>4, <3>1, <4>1 DEF IInv, RingOK
    <3> QED BY <3>2, <3>3, <3>4
  <2>6. CASE slot[Oldest] # NoFrame
    <3>1. Age(Oldest) = ThreadFrames - 1
      BY <1>7, Ring
    <3>2. /\ gap <= ThreadFrames - 1 /\ ThreadFrames - 1 < gap + h
          /\ slot[Oldest] = coded[n - ((ThreadFrames - 1) - gap)]
      BY <1>7, <2>3, <2>6, <3>1
    <3>3. gap + h = ThreadFrames /\ h > 0
      BY <1>7, <2>3, <3>2
    <3>4. n - ((ThreadFrames - 1) - gap) = Len(output) + 1 /\ Len(output) + 1 \in 1..n
      BY <1>7, <2>2, <2>3, <3>3
    <3>5. /\ output' = Append(output, coded[Len(output) + 1])
          /\ slot' = [slot EXCEPT ![Oldest] = NoFrame]
      BY <1>1, <2>6, <3>2, <3>4
    <3>6. /\ Len(output') = Len(output) + 1
          /\ \A i \in 1..Len(output) : output'[i] = output[i]
          /\ output'[Len(output) + 1] = coded[Len(output) + 1]
      <4>1. coded[Len(output) + 1] \in Frames
        BY <1>7, <3>4
      <4> QED BY <1>7, <3>5, <4>1
    <3>7. Len(output') <= Len(coded') /\ \A i \in 1..Len(output') : output'[i] = coded'[i]
      <4>1. Len(output') <= Len(coded')
        BY <2>2, <2>4, <3>4, <3>6
      <4>2. ASSUME NEW i \in 1..Len(output') PROVE output'[i] = coded[i]
        <5>1. i \in 1..Len(output) \/ i = Len(output) + 1
          BY <2>2, <3>6
        <5>2. i \in 1..Len(output) => output[i] = coded[i]
          BY DEF IInv, RingOK
        <5> QED BY <3>6, <5>1, <5>2
      <4> QED BY <2>4, <4>1, <4>2
    <3>8. Len(coded') - Len(output') = h - 1
      BY <2>2, <2>4, <3>6
    <3>9. ASSUME NEW c \in Contexts
          PROVE  slot'[c] = IF gap <= Age(c) /\ Age(c) < gap + (h - 1)
                            THEN coded[n - (Age(c) - gap)] ELSE NoFrame
      <4>1. Age(c) \in Nat /\ Age(c) < ThreadFrames /\ (Age(c) = ThreadFrames - 1 <=> c = Oldest)
        BY Ring
      <4>2. CASE c = Oldest
        <5>1. ~(Age(c) < gap + (h - 1))
          BY <1>7, <2>3, <3>3, <4>1, <4>2
        <5> QED BY <1>7, <3>5, <4>2, <5>1
      <4>3. CASE c # Oldest
        <5>1. slot'[c] = slot[c]
          BY <1>7, <3>5, <4>3
        <5>2. Age(c) < gap + h <=> Age(c) < gap + (h - 1)
          <6> HIDE DEF h
          <6>1. gap + h = ThreadFrames /\ h \in Nat /\ ThreadFrames \in Nat
            BY <1>7, <2>3, <3>3
          <6>2. Age(c) # ThreadFrames - 1
            BY <4>1, <4>3
          <6>3. gap + (h - 1) = ThreadFrames - 1
            BY <6>1
          <6> QED BY <4>1, <6>1, <6>2, <6>3
        <5> QED BY <2>3, <5>1, <5>2
      <4> QED BY <4>2, <4>3
    <3>10. gap + (h - 1) < ThreadFrames /\ gap + (h - 1) <= ThreadFrames
      BY <1>7, <2>3, <3>3
    <3> HIDE DEF h
    <3>11. RingAt(gap)'
      BY <2>3, <2>4, <3>8, <3>9, <3>10 DEF RingAt
    <3> QED BY <3>7, <3>11 DEF RingOK
  <2> QED BY <2>5, <2>6
<1> QED BY <1>3, <1>4, <1>5, <1>6, <1>8, <1>9 DEF IInv

(* The mini-GOP at the head of ofbuf becomes frames.current.               *)
LEMMA GetFromThreadStep ==
  ASSUME IInv, GetFromThread PROVE IInv'
<1>0. encPc = "get" /\ Threaded /\ current = <<>>
  BY DEF GetFromThread, EncAt
<1>1. CASE MustWait
  <2>1. /\ asleep' = asleep \cup {"enc"} /\ encPc' = encPc
        /\ UNCHANGED <<listVars, laVars, current, codeVars, callVars>>
    BY <1>1 DEF GetFromThread, listVars
  <2>2. asleep' \subseteq {"la", "enc"}
    BY <2>1, Sleepers DEF IInv, Types, TypeOK
  <2> QED BY <2>1, <2>2, QuietStep
<1>2. CASE ~MustWait
  <2>1. /\ encPc' = "take"
        /\ \/ ofbuf = <<>> /\ UNCHANGED <<ofbuf, current, asleep>>
           \/ /\ ofbuf # <<>>
              /\ current' = FirstOf(ofbuf, GopSize(ofbuf))
              /\ ofbuf' = RestOf(ofbuf, GopSize(ofbuf))
              /\ asleep' = WakeLa("emit")
        /\ UNCHANGED <<ifbuf, next, ibframes, reordered, ftype, laVars, codeVars, callVars>>
    BY <1>2 DEF GetFromThread
  <2>2. /\ coded \in Seq(Frames) /\ ofbuf \in Seq(Frames) /\ Deciding \in Seq(Frames)
        /\ Len(coded) \in Nat /\ Len(ofbuf) \in Nat /\ Len(current) = 0
        /\ ibframes \in [Frames -> 0..BFrames]
    BY <1>0, Facts DEF IInv, Types, TypeOK
  <2>3. TimesOK'
    BY <2>1, TimesKept DEF IInv, codeVars, callVars
  <2>4. RingOK'
    BY <1>0, <2>1, RingKept DEF Turned, Finished, laVars, codeVars, callVars
  <2>5. ThreadOK'
    BY <1>0, <2>1 DEF IInv, ThreadOK, laVars, GopSize, Threaded
  <2>6. CASE ofbuf = <<>>
    <3>1. UNCHANGED <<listVars, laVars, asleep, current, codeVars, callVars>>
      BY <2>1, <2>6 DEF listVars
    <3>2. ~laActive
      BY <1>2, <2>6 DEF MustWait
    <3>3. exitThread /\ laPc = "done" /\ ifbuf = <<>> /\ next = <<>>
      BY <1>0, <3>2 DEF IInv, ThreadOK
    <3>4. CallOK'
      BY <1>0, <2>1, <2>6, <3>1, <3>3
         DEF IInv, CallOK, Turned, Filling, Finished, listVars, laVars, codeVars, callVars
    <3>5. Order' = Order /\ Waiting' = Waiting
      BY <3>1, SameOrder DEF listVars, laVars, codeVars
    <3>6. WaitingOK' /\ OrderOK' /\ GroupsOK'
      BY <1>0, <2>1, <3>1, <3>5, WaitingKept, OrderKept, GroupsKept
         DEF IInv, listVars, codeVars, callVars
    <3>7. Types'
      BY <2>1, <3>1 DEF IInv, Types, TypeOK, EncPCs, listVars, laVars, codeVars, callVars
    <3> QED BY <2>3, <2>4, <2>5, <3>4, <3>6, <3>7 DEF IInv
  <2>7. CASE ofbuf # <<>>
    <3>1. PICK cuts \in SUBSET Nat : CutsOK(cuts)
      BY DEF IInv, GroupsOK
    <3>2. /\ Len(coded) \in cuts /\ Len(coded) + Len(ofbuf) \in cuts
          /\ \A c \in cuts : c < Len(Order) =>
                /\ c + ibframes[Order[c + 1]] + 1 \in cuts
                /\ \A e \in cuts : e > c => e >= c + ibframes[Order[c + 1]] + 1
      <4>1. Len(coded) + Len(current) = Len(coded)
        BY <2>2
      <4> QED BY <3>1, <4>1 DEF CutsOK
    <3>3. Order[Len(coded) + 1] = ofbuf[1] /\ Len(coded) < Len(Order) /\ ofbuf[1] \in Frames
      <4>1. 1 \in 1..Len(ofbuf)
        BY <2>2, <2>7
      <4>2. Order[Len(coded) + Len(current) + 1] = ofbuf[1]
        BY <4>1, Facts
      <4>3. Len(Order) = Len(coded) + Len(current) + Len(ofbuf) + Len(Deciding)
            /\ Len(Deciding) \in Nat
        BY Lengths
      <4> QED BY <2>2, <4>1, <4>2, <4>3
    <3>4. PICK g \in Nat : g = ibframes[ofbuf[1]] + 1 /\ g > 0
      <4>1. ibframes[ofbuf[1]] \in 0..BFrames /\ BFrames \in Nat
        BY <2>2, <3>3, ConstantFacts
      <4> QED BY <4>1
    <3>5. Len(coded) + g \in cuts /\ g \in 1..Len(ofbuf)
      <4>1. ibframes[Order[Len(coded) + 1]] = ibframes[ofbuf[1]]
        BY <3>3
      <4>2. Len(coded) + ibframes[ofbuf[1]] + 1 = Len(coded) + g
        <5>1. ibframes[ofbuf[1]] \in 0..BFrames /\ BFrames \in Nat
          BY <2>2, <3>3, ConstantFacts
        <5> QED BY <2>2, <3>4, <5>1
      <4>3. /\ Len(coded) + ibframes[ofbuf[1]] + 1 \in cuts
            /\ \A e \in cuts : e > Len(coded) => e >= Len(coded) + ibframes[ofbuf[1]] + 1
        BY <3>2, <3>3, <4>1
      <4>4. Len(coded) + Len(ofbuf) > Len(coded)
        BY <2>2, <2>7
      <4>5. Len(coded) + Len(ofbuf) >= Len(coded) + g
        BY <3>2, <4>2, <4>3, <4>4
      <4> QED BY <2>2, <3>4, <4>2, <4>3, <4>5
    <3>6. /\ current' = FirstOf(ofbuf, g) /\ ofbuf' = RestOf(ofbuf, g)
          /\ asleep' = WakeLa("emit")
      BY <2>1, <2>7, <3>4 DEF GopSize
    <3>7. /\ current' \in Seq(Frames) /\ Len(current') = g
          /\ ofbuf' \in Seq(Frames) /\ Len(ofbuf') = Len(ofbuf) - g
          /\ current' \o ofbuf' = ofbuf
      <4>1. g \in 0..Len(ofbuf)
        BY <2>2, <3>5
      <4>2. ofbuf \in Seq(Frames)
        BY <2>2
      <4>3. /\ FirstOf(ofbuf, g) \in Seq(Frames) /\ Len(FirstOf(ofbuf, g)) = g
            /\ RestOf(ofbuf, g) \in Seq(Frames) /\ Len(RestOf(ofbuf, g)) = Len(ofbuf) - g
        BY <4>1, <4>2, Parts
      <4>4. FirstOf(ofbuf, g) \o RestOf(ofbuf, g) = ofbuf
        BY <4>1, <4>2, Whole
      <4> QED BY <3>6, <4>3, <4>4
    <3>8. Deciding' = Deciding /\ Waiting' = Waiting
      BY <2>1 DEF Deciding, Waiting, laVars, GopSize
    <3>9. Order' = Order
      <4>1. (coded \o current') \o ofbuf' = coded \o (current' \o ofbuf')
        <5>1. coded \in Seq(Frames) /\ current' \in Seq(Frames) /\ ofbuf' \in Seq(Frames)
          BY <2>2, <3>7
        <5> QED BY <5>1, Associative
      <4>2. coded \o current = coded
        BY <1>0, <2>2, NothingFirst
      <4> QED BY <2>1, <3>7, <3>8, <4>1, <4>2 DEF Order, codeVars
    <3>10. WaitingOK' /\ OrderOK'
      BY <1>0, <2>1, <3>8, <3>9, WaitingKept, OrderKept DEF IInv, callVars
    <3>11. GroupsOK'
      <4>1. /\ Len(coded) + Len(current') = Len(coded) + g
            /\ Len(coded) + Len(current') + Len(ofbuf') = Len(coded) + Len(ofbuf)
        BY <2>2, <3>5, <3>7
      <4>2. CutsOK(cuts)'
        BY <2>1, <3>1, <3>2, <3>5, <3>9, <4>1 DEF CutsOK, codeVars
      <4> QED BY <4>2 DEF GroupsOK
    <3>12. current' # <<>>
      BY <3>4, <3>7
    <3>13. CallOK'
      BY <1>0, <2>1, <3>12 DEF IInv, CallOK, Turned, Filling, Finished, laVars, codeVars, callVars
    <3>14. asleep' \subseteq {"la", "enc"}
      BY <3>6, Sleepers DEF IInv, Types, TypeOK
    <3>15. Types'
      BY <2>1, <3>7, <3>14 DEF IInv, Types, TypeOK, EncPCs, laVars, codeVars, callVars
    <3> QED BY <2>3, <2>4, <2>5, <3>10, <3>11, <3>13, <3>15 DEF IInv
  <2> QED BY <2>6, <2>7
<1> QED BY <1>1, <1>2

LEMMA GetInlineStep ==
  ASSUME IInv, ~BRefBeforeIdr, GetInline PROVE IInv'
<1>1. /\ encPc = "get" /\ encPc' = "take" /\ ~Threaded /\ current = <<>>
      /\ UNCHANGED <<ifbuf, ofbuf, laVars, asleep, codeVars, callVars>>
  BY DEF GetInline, EncAt
<1>2. laPc = "done" /\ laPc' = "done" /\ ifbuf = <<>> /\ ofbuf = <<>> /\ Waiting = next
  BY <1>1, Facts DEF IInv, ThreadOK, laVars
<1>3. TimesOK'
  BY <1>1, TimesKept DEF IInv, codeVars, callVars
<1>4. RingOK'
  BY <1>1, RingKept DEF Turned, Finished, laVars, codeVars, callVars
<1>5. ThreadOK'
  BY <1>1, <1>2 DEF IInv, ThreadOK, laVars, GopSize, Threaded
<1>6. CASE next = <<>>
  <2>1. UNCHANGED <<listVars, laVars, asleep, current, codeVars, callVars>>
    BY <1>1, <1>6 DEF GetInline, listVars
  <2>2. exitThread
    BY <1>1, <1>6 DEF IInv, CallOK
  <2>3. CallOK'
    BY <1>1, <1>2, <1>6, <2>1, <2>2
       DEF IInv, CallOK, Turned, Filling, Finished, listVars, laVars, codeVars, callVars
  <2>4. Order' = Order /\ Waiting' = Waiting
    BY <2>1, SameOrder DEF listVars, laVars, codeVars
  <2>5. WaitingOK' /\ OrderOK' /\ GroupsOK'
    BY <1>1, <2>1, <2>4, WaitingKept, OrderKept, GroupsKept
       DEF IInv, listVars, codeVars, callVars
  <2>6. Types'
    BY <1>1, <2>1 DEF IInv, Types, TypeOK, EncPCs, listVars, laVars, codeVars, callVars
  <2> QED BY <1>3, <1>4, <1>5, <2>3, <2>5, <2>6 DEF IInv
<1>7. CASE next # <<>>
  <2>a. PICK b \in MiniGopSizes :
          \E extra \in Miscounts(b) : \E R \in BRefSets(b, extra) :
            /\ Decided(b, R, extra)
            /\ current' = CodedOrder(b, R, extra)
            /\ next' = RestOf(next, b + 1)
    BY <1>7 DEF GetInline
  <2>b. PICK extra \in Miscounts(b) :
          \E R \in BRefSets(b, extra) :
            /\ Decided(b, R, extra)
            /\ current' = CodedOrder(b, R, extra)
            /\ next' = RestOf(next, b + 1)
    BY <2>a
  <2>1. PICK R \in BRefSets(b, extra) :
          /\ Decided(b, R, extra)
          /\ current' = CodedOrder(b, R, extra)
          /\ next' = RestOf(next, b + 1)
    BY <2>b
  <2>2. /\ next \in Seq(Frames) /\ coded \in Seq(Frames) /\ reordered \in [Frames -> Nat]
        /\ Len(Order) \in Nat
        /\ \A i \in 1..Len(next) : next[i] = Len(Order) + i - 1
    BY <1>2, Lengths DEF IInv, Types, TypeOK, WaitingOK
  <2> DEFINE o == CodedOrder(b, R, extra)
  <2>3. b \in 0..BFrames /\ b + 1 <= Len(next) /\ o \in Seq(Frames) /\ Len(o) = b + 1
    <3>1. b \in 0..BFrames /\ b + 1 <= Len(next) /\ Permuted(Len(Order), b, R, o)
      BY <1>7, <2>2, NewGroup
    <3> HIDE DEF o
    <3> QED BY <3>1 DEF Permuted
  <2>4. b \in Nat /\ b + 1 \in 0..Len(next)
    <3>1. b \in Nat /\ Len(next) \in Nat
      BY <2>2, <2>3, ConstantFacts
    <3> QED BY <2>3, <3>1
  <2>5. next' \in Seq(Frames) /\ current' \in Seq(Frames) /\ current' # <<>>
    <3>1. next' \in Seq(Frames)
      BY <2>1, <2>2, <2>4, Parts
    <3>2. current' \in Seq(Frames) /\ Len(current') = b + 1
      BY <2>1, <2>3
    <3> QED BY <2>4, <3>1, <3>2
  <2>6. Waiting' = RestOf(next, b + 1)
    BY <1>2, <2>1 DEF Waiting
  <2>7. Order = coded /\ Order' = coded \o o
    <3>1. Deciding = <<>> /\ Deciding' = <<>> /\ ofbuf' = <<>> /\ coded' = coded
      BY <1>1, <1>2 DEF Deciding, codeVars
    <3>2. coded \o <<>> = coded
      BY <2>2, NothingFirst
    <3>3. coded \o o \in Seq(Frames)
      BY <2>2, <2>3
    <3>4. (coded \o o) \o <<>> = coded \o o
      BY <3>3, NothingFirst
    <3>5. current' = o
      BY <2>1
    <3> HIDE DEF o
    <3> QED BY <1>1, <1>2, <3>1, <3>2, <3>4, <3>5 DEF Order
  <2>8. /\ Len(coded') + Len(current') = Len(Order')
        /\ Len(coded') + Len(current') + Len(ofbuf') = Len(Order')
    <3>1. Len(Order') = Len(coded) + Len(o)
      BY <2>2, <2>3, <2>7, Concat
    <3>2. coded' = coded /\ current' = o /\ ofbuf' = <<>>
      BY <1>1, <1>2, <2>1 DEF codeVars
    <3>3. Len(coded) \in Nat /\ Len(o) \in Nat
      BY <2>2, <2>3
    <3> HIDE DEF o
    <3> QED BY <3>1, <3>2, <3>3
  <2>9. /\ ibframes' \in [Frames -> 0..BFrames] /\ reordered' \in [Frames -> Nat]
        /\ ftype' \in [Frames -> {"auto", "nonB", "BREF", "B"}]
        /\ WaitingOK' /\ OrderOK' /\ GroupsOK'
    <3>1. /\ UNCHANGED <<ifbuf, input>> /\ (encPc' = "put" <=> encPc = "put")
          /\ Decided(b, R, extra) /\ Order' = Order \o CodedOrder(b, R, extra)
      BY <1>1, <2>1, <2>7 DEF callVars
    <3> QED BY <1>2, <1>7, <2>6, <2>8, <3>1, DecidedGroup
  <2>10. Types'
    BY <1>1, <2>5, <2>9 DEF IInv, Types, TypeOK, EncPCs, laVars, codeVars, callVars
  <2>11. CallOK'
    BY <1>1, <2>5 DEF IInv, CallOK, Turned, Filling, Finished, laVars, codeVars, callVars
  <2> QED BY <1>3, <1>4, <1>5, <2>9, <2>10, <2>11 DEF IInv
<1> QED BY <1>6, <1>7

(* The next frame of current is the one numbered iFrame in coded order; it *)
(* is given to the context of this call, at which the gap closes.          *)
LEMMA TakeFrameStep ==
  ASSUME IInv, TakeFrame PROVE IInv'
<1> DEFINE f == current[1]
           n == Len(coded)
<1>1. /\ encPc = "take" /\ encPc' = "end" /\ current # <<>>
      /\ current' = Tail(current) /\ coded' = Append(coded, f)
      /\ slot' = [slot EXCEPT ![phase] = f]
      /\ dts' = Append(dts, DtsOf(f))
      /\ prevReordered' = IF BFrameDelay = 0 THEN prevReordered
                          ELSE [prevReordered EXCEPT ![iFrame % BFrameDelay] = reordered[f]]
      /\ UNCHANGED <<listVars, laVars, asleep, iFrame, output, callVars>>
  BY DEF TakeFrame, EncAt
<1>2. /\ current \in Seq(Frames) /\ coded \in Seq(Frames) /\ f \in Frames /\ n \in Nat
      /\ current' \in Seq(Frames) /\ Len(current') = Len(current) - 1
      /\ Len(current) \in Nat /\ Len(current) > 0
  <2>1. current \in Seq(Frames) /\ coded \in Seq(Frames)
    BY DEF IInv, Types, TypeOK
  <2>2. Len(current) \in Nat /\ Len(current) > 0 /\ f \in Frames
    BY <1>1, <2>1
  <2>3. current' \in Seq(Frames) /\ Len(current') = Len(current) - 1
    BY <1>1, <2>1, HeadTailProperties
  <2> QED BY <2>1, <2>2, <2>3
<1>3. Order[n + 1] = f /\ n + 1 \in 1..Len(Order) /\ n + 1 <= input /\ input \in Nat
      /\ input <= MaxFrames
  <2>1. 1 \in 1..Len(current)
    BY <1>2
  <2>2. Order[n + 1] = f
    BY <2>1, Facts
  <2> QED BY <1>2, <2>2, Lengths
<1>4. (coded \o current) = coded' \o current'
  <2>1. Append(coded, current[1]) \o Tail(current) = coded \o current
    BY <1>1, <1>2, HandOn
  <2> QED BY <1>1, <2>1
<1> HIDE DEF f
<1>5. /\ coded' \in Seq(Frames) /\ Len(coded') = n + 1 /\ coded'[n + 1] = f
      /\ \A i \in 1..n : coded'[i] = coded[i]
  BY <1>1, <1>2
<1>6. ~Finished /\ iFrame = n
  <2>1. n # input
    BY <1>2, <1>3
  <2>2. ~Finished
    BY <2>1 DEF Finished
  <2> QED BY <1>1, <1>2, <2>2 DEF IInv, CallOK
<1>7. Order' = Order /\ Waiting' = Waiting
  <2>1. Deciding' = Deciding /\ Waiting' = Waiting
    BY <1>1 DEF Deciding, Waiting, GopSize, listVars, laVars
  <2> QED BY <1>1, <1>4, <2>1 DEF Order, listVars
<1>8. WaitingOK' /\ OrderOK' /\ GroupsOK'
  <2>1. Len(coded') + Len(current') = Len(coded) + Len(current)
    BY <1>2, <1>5
  <2> QED BY <1>1, <1>7, <2>1, WaitingKept, OrderKept, GroupsKept DEF IInv, listVars, callVars
<1>9. ThreadOK'
  BY <1>1 DEF IInv, ThreadOK, listVars, laVars, GopSize, Threaded
<1>10. reordered[f] = Pts[n] /\ reordered[f] \in Nat
  <2>1. reordered[Order[n + 1]] = Pts[(n + 1) - 1]
    BY <1>3 DEF IInv, OrderOK
  <2> QED BY <1>2, <1>3, <2>1 DEF IInv, Types
<1>11. /\ BFrameDelay \in {0, 1, 2}
       /\ prevReordered \in [0..(BFrameDelay - 1) -> Nat]
       /\ dts \in Seq(Int) /\ Len(dts) = n /\ delayTime \in Int
       /\ \A i \in 1..n : /\ dts[i] = DtsAt(i - 1)
                          /\ i > n - BFrameDelay =>
                                prevReordered[(i - 1) % BFrameDelay] = Pts[i - 1]
  BY ConstantFacts DEF IInv, Types, TimesOK
<1>12. DtsOf(f) = DtsAt(n) /\ DtsOf(f) \in Int
  <2>1. CASE BFrameDelay = 0
    BY <1>10, <2>1 DEF DtsOf, DtsAt
  <2>2. CASE BFrameDelay > 0 /\ n > BFrameDelay
    <3>1. DtsOf(f) = prevReordered[(n - BFrameDelay) % BFrameDelay]
      BY <1>6, <2>2 DEF DtsOf
    <3>2. (n - BFrameDelay) + 1 \in 1..n /\ (n - BFrameDelay) + 1 > n - BFrameDelay
          /\ ((n - BFrameDelay) + 1) - 1 = n - BFrameDelay
      BY <1>2, <1>11, <2>2
    <3>3. prevReordered[(n - BFrameDelay) % BFrameDelay] = Pts[n - BFrameDelay]
      BY <1>11, <3>2
    <3>4. n - BFrameDelay \in Frames
      <4>1. n - BFrameDelay \in Nat /\ n - BFrameDelay <= n /\ MaxFrames \in Nat
        BY <1>2, <1>11, <2>2, ConstantFacts
      <4>2. n - BFrameDelay < MaxFrames
        BY <1>2, <1>3, <4>1
      <4> QED BY <4>1, <4>2, FrameFacts
    <3>5. Pts[n - BFrameDelay] \in Int
      BY <3>4, ConstantFacts
    <3> QED BY <2>2, <3>1, <3>3, <3>5 DEF DtsAt
  <2>3. CASE BFrameDelay > 0 /\ ~(n > BFrameDelay)
    <3>1. DtsOf(f) = reordered[f] - delayTime
      BY <1>6, <2>3 DEF DtsOf
    <3>2. DtsAt(n) = Pts[n] - delayTime
      BY <2>3 DEF DtsAt
    <3> QED BY <1>10, <1>11, <3>1, <3>2
  <2> QED BY <1>11, <2>1, <2>2, <2>3
<1>13. /\ dts' \in Seq(Int) /\ Len(dts') = n + 1 /\ dts'[n + 1] = DtsAt(n)
       /\ \A i \in 1..n : dts'[i] = dts[i]
  BY <1>1, <1>2, <1>11, <1>12
<1>14. /\ prevReordered' \in [0..(BFrameDelay - 1) -> Nat]
       /\ \A i \in 1..(n + 1) : i > n + 1 - BFrameDelay =>
              prevReordered'[(i - 1) % BFrameDelay] = Pts[i - 1]
  <2>1. CASE BFrameDelay = 0
    BY <1>1, <1>2, <1>11, <2>1
  <2>2. CASE BFrameDelay = 1
    <3>1. prevReordered' = [prevReordered EXCEPT ![n % 1] = Pts[n]] /\ n % 1 = 0
      BY <1>1, <1>2, <1>6, <1>10, <2>2
    <3>2. prevReordered' \in [0..(BFrameDelay - 1) -> Nat] /\ prevReordered'[n % 1] = Pts[n]
      BY <1>10, <1>11, <2>2, <3>1
    <3>3. ASSUME NEW i \in 1..(n + 1), i > n + 1 - BFrameDelay PROVE i = n + 1 /\ i - 1 = n
      BY <1>2, <2>2, <3>3
    <3> QED BY <2>2, <3>2, <3>3
  <2>3. CASE BFrameDelay = 2
    <3>1. prevReordered' = [prevReordered EXCEPT ![n % 2] = Pts[n]] /\ n % 2 \in {0, 1}
      BY <1>1, <1>2, <1>6, <1>10, <2>3
    <3>2. /\ prevReordered' \in [0..(BFrameDelay - 1) -> Nat] /\ prevReordered'[n % 2] = Pts[n]
          /\ \A k \in {0, 1} : k # n % 2 => prevReordered'[k] = prevReordered[k]
      BY <1>10, <1>11, <2>3, <3>1
    <3>3. ASSUME NEW i \in 1..(n + 1), i > n + 1 - BFrameDelay
          PROVE  prevReordered'[(i - 1) % 2] = Pts[i - 1]
      <4>1. i = n + 1 \/ (i = n /\ i \in 1..n)
        BY <1>2, <2>3, <3>3
      <4>2. CASE i = n + 1
        <5>1. i - 1 = n
          BY <1>2, <4>2
        <5> QED BY <3>2, <5>1
      <4>3. CASE i = n /\ i \in 1..n
        <5>1. (i - 1) % 2 \in {0, 1} /\ (i - 1) % 2 # n % 2 /\ i > n - 2
          BY <1>2, <4>3
        <5>2. prevReordered[(i - 1) % 2] = Pts[i - 1]
          BY <1>11, <2>3, <4>3, <5>1
        <5> QED BY <3>2, <5>1, <5>2
      <4> QED BY <4>1, <4>2, <4>3
    <3> QED BY <2>3, <3>2, <3>3
  <2> QED BY <1>11, <2>1, <2>2, <2>3
<1>15. TimesOK'
  <2>2. ASSUME NEW i \in 1..(n + 1) PROVE dts'[i] = DtsAt(i - 1)'
    <3>0. DtsAt(i - 1)' = DtsAt(i - 1)
      BY <1>1 DEF DtsAt, callVars
    <3>1. CASE i \in 1..n
      BY <1>11, <1>13, <3>0, <3>1
    <3>2. CASE i = n + 1
      <4>1. i - 1 = n
        BY <1>2, <3>2
      <4> QED BY <1>13, <3>0, <3>2, <4>1
    <3>3. i \in 1..n \/ i = n + 1
      BY <1>2
    <3> QED BY <3>1, <3>2, <3>3
  <2>3. /\ delayTime' = delayTime /\ input' = input
        /\ delayTime = IF BFrameDelay > 0 /\ input > BFrameDelay
                       THEN Pts[BFrameDelay] - Pts[0] ELSE 0
    BY <1>1 DEF IInv, TimesOK, callVars
  <2>4. /\ Len(coded') = n + 1 /\ Len(dts') = n + 1
        /\ \A i \in 1..(n + 1) :
              /\ dts'[i] = DtsAt(i - 1)'
              /\ i > n + 1 - BFrameDelay => prevReordered'[(i - 1) % BFrameDelay] = Pts[i - 1]
    BY <1>5, <1>13, <1>14, <2>2
  <2> HIDE DEF n
  <2>5. ASSUME NEW i \in 1..Len(coded')
        PROVE  /\ dts'[i] = DtsAt(i - 1)'
               /\ i > Len(coded') - BFrameDelay =>
                     prevReordered'[(i - 1) % BFrameDelay] = Pts[i - 1]
    <3>1. i \in 1..(n + 1)
      BY <2>4
    <3>2. dts'[i] = DtsAt(i - 1)'
      BY <2>4, <3>1
    <3>3. i > n + 1 - BFrameDelay => prevReordered'[(i - 1) % BFrameDelay] = Pts[i - 1]
      BY <2>4, <3>1
    <3>4. i > Len(coded') - BFrameDelay => i > n + 1 - BFrameDelay
      <4>1. Len(coded') = n + 1 /\ n \in Nat /\ BFrameDelay \in Nat
        BY <1>2, <1>11, <2>4
      <4> QED BY <4>1
    <3> QED BY <3>2, <3>3, <3>4, Zenon
  <2>6. delayTime' = IF BFrameDelay > 0 /\ input' > BFrameDelay
                     THEN Pts[BFrameDelay] - Pts[0] ELSE 0
    BY <2>3
  <2> QED BY <2>4, <2>5, <2>6 DEF TimesOK
<1>16. phase \in Contexts /\ slot \in [Contexts -> Frames \cup {NoFrame}]
  BY DEF IInv, Types, TypeOK
<1>17. Types'
  <2>1. slot' \in [Contexts -> Frames \cup {NoFrame}]
    BY <1>1, <1>2, <1>16
  <2> QED BY <1>1, <1>2, <1>5, <1>13, <1>14, <2>1
          DEF IInv, Types, TypeOK, EncPCs, listVars, laVars, callVars
<1>18. CallOK'
  <2>1. input - n <= Delay + 1 - ThreadFrames + 1
    BY <1>1 DEF IInv, CallOK, Turned
  <2>2. input' - Len(coded') <= Delay + 1 - ThreadFrames
    <3>1. input' = input /\ Delay + 1 - ThreadFrames \in Nat
      BY <1>1, ConstantFacts DEF callVars
    <3> QED BY <1>2, <1>3, <1>5, <2>1, <3>1
  <2>3. ~Turned' /\ Delay + 1 - ThreadFrames + 0 = Delay + 1 - ThreadFrames
    BY <1>1, ConstantFacts DEF Turned
  <2>4. ~exitThread' => ~Filling'
    BY <1>1 DEF IInv, CallOK, Filling, laVars, callVars
  <2>5. iFrame' = Len(coded') - 1
    BY <1>1, <1>2, <1>5, <1>6
  <2> QED BY <1>1, <2>2, <2>3, <2>4, <2>5 DEF CallOK
<1>19. RingOK'
  <2>1. RingAt(1)
    <3>1. PICK gap \in Nat : RingAt(gap)
      BY DEF IInv, RingOK
    <3>2. gap = 1
      BY <1>1, <1>6, <3>1 DEF RingAt, Turned
    <3> QED BY <3>1, <3>2
  <2> DEFINE h == n - Len(output)
  <2>2. /\ Len(output) \in Nat /\ Len(output) <= n /\ h \in Nat /\ 1 + h <= ThreadFrames
        /\ \A c \in Contexts : slot[c] = IF 1 <= Age(c) /\ Age(c) < 1 + h
                                         THEN coded[n - (Age(c) - 1)] ELSE NoFrame
        /\ \A i \in 1..Len(output) : output[i] = coded[i]
    <3>1. Len(output) \in Nat /\ Len(output) <= n /\ \A i \in 1..Len(output) : output[i] = coded[i]
      BY Lengths DEF IInv, RingOK
    <3> QED BY <1>2, <2>1, <3>1 DEF RingAt
  <2>3. output' = output /\ Len(coded') - Len(output') = h + 1 /\ Len(coded') = n + 1
    BY <1>1, <1>2, <1>5, <2>2
  <2>4. ASSUME NEW c \in Contexts
        PROVE  slot'[c] = IF 0 <= Age(c)' /\ Age(c)' < 0 + (h + 1)
                          THEN coded'[(n + 1) - (Age(c)' - 0)] ELSE NoFrame
    <3>1. Age(c)' = Age(c) /\ Age(c) \in Nat /\ (Age(c) = 0 <=> c = phase)
      BY <1>1, Ring DEF Age, callVars
    <3> HIDE DEF h
    <3>2. CASE c = phase
      <4>1. slot'[c] = f /\ Age(c)' = 0
        BY <1>1, <1>16, <3>1, <3>2
      <4>2. (n + 1) - (Age(c)' - 0) = n + 1 /\ 0 <= Age(c)' /\ Age(c)' < 0 + (h + 1)
        BY <1>2, <2>2, <4>1
      <4> QED BY <1>5, <4>1, <4>2
    <3>3. CASE c # phase
      <4>1. slot'[c] = slot[c] /\ 1 <= Age(c)
        BY <1>1, <1>16, <3>1, <3>3
      <4>2. CASE Age(c) < 1 + h
        <5>1. slot[c] = coded[n - (Age(c) - 1)]
          BY <2>2, <4>1, <4>2
        <5>2. n - (Age(c) - 1) \in 1..n /\ n - (Age(c) - 1) = (n + 1) - (Age(c) - 0)
          BY <1>2, <2>2, <3>1, <4>1, <4>2 DEF h
        <5>3. 0 <= Age(c) /\ Age(c) < 0 + (h + 1)
          BY <2>2, <3>1, <4>2
        <5> QED BY <1>5, <3>1, <4>1, <5>1, <5>2, <5>3
      <4>3. CASE ~(Age(c) < 1 + h)
        <5>1. ~(Age(c) < 0 + (h + 1))
          BY <2>2, <3>1, <4>3
        <5>2. slot[c] = NoFrame
          BY <2>2, <4>3
        <5> QED BY <3>1, <4>1, <5>1, <5>2
      <4> QED BY <4>2, <4>3
    <3> QED BY <3>2, <3>3
  <2>5. RingAt(0)'
    <3>1. 0 + (h + 1) <= ThreadFrames
      <4>1. ThreadFrames \in Nat
        BY ConstantFacts
      <4> QED BY <2>2, <4>1
    <3> HIDE DEF h, n
    <3> QED BY <1>1, <2>3, <2>4, <3>1 DEF RingAt, Turned
  <2>6. Len(output') <= Len(coded') /\ \A i \in 1..Len(output') : output'[i] = coded'[i]
    <3>1. ASSUME NEW i \in 1..Len(output') PROVE output'[i] = coded'[i]
      <4>1. i \in 1..Len(output) /\ i \in 1..n
        BY <1>2, <2>2, <2>3
      <4> QED BY <1>5, <2>2, <2>3, <4>1
    <3> QED BY <1>2, <2>2, <2>3, <3>1
  <2> QED BY <2>5, <2>6 DEF RingOK
<1> QED BY <1>8, <1>9, <1>15, <1>17, <1>18, <1>19 DEF IInv

-----------------------------------------------------------------------------
(* The invariant.                                                          *)

LEMMA InitIInv == Init => IInv
<1> SUFFICES ASSUME Init PROVE IInv
  OBVIOUS
<1> USE DEF Init
<1>1. /\ Delay + 1 - ThreadFrames \in Nat /\ ThreadFrames \in Nat /\ ThreadFrames > 0
      /\ MaxFrames \in Nat /\ BFrames \in Nat /\ BFrameDelay \in {0, 1, 2}
      /\ Pts \in [Frames -> Nat]
  BY ConstantFacts
<1>2. Types
  <2>1. prevReordered \in [0..(BFrameDelay - 1) -> Nat]
    OBVIOUS
  <2>2. ibframes \in [Frames -> 0..BFrames] /\ phase \in Contexts
    BY <1>1 DEF Contexts
  <2>3. laActive \in BOOLEAN /\ laPc \in LaPCs /\ encPc \in EncPCs
    BY DEF LaPCs, EncPCs, Threaded
  <2>4. slot \in [Contexts -> Frames \cup {NoFrame}] /\ input \in 0..MaxFrames
    BY <1>1
  <2>5. /\ ifbuf \in Seq(Frames) /\ next \in Seq(Frames) /\ ofbuf \in Seq(Frames)
        /\ current \in Seq(Frames) /\ coded \in Seq(Frames) /\ output \in Seq(Frames)
        /\ dts \in Seq(Int)
    OBVIOUS
  <2>6. TypeOK
    BY <2>2, <2>3, <2>4, <2>5 DEF TypeOK
  <2>7. reordered \in [Frames -> Nat] /\ iFrame \in Int /\ delayTime \in Int
    BY <1>1
  <2> QED BY <2>1, <2>5, <2>6, <2>7 DEF Types
<1>3. laPc # "emit" /\ laPc # "decide" /\ laPc # "drain" /\ laPc # "finish"
  OBVIOUS
<1>4. Order = <<>> /\ Waiting = <<>>
  <2>1. Deciding = <<>>
    BY <1>3 DEF Deciding
  <2> QED BY <1>3, <2>1 DEF Order, Waiting
<1>5. Len(Order) = 0 /\ Len(Waiting) = 0 /\ Len(ifbuf) = 0 /\ Len(coded) = 0
  BY <1>4
<1>6. WaitingOK
  BY <1>5 DEF WaitingOK
<1>7. OrderOK
  <2>1. \A f \in 0..(0 - 1) : FALSE
    OBVIOUS
  <2> QED BY <1>4, <1>5, <2>1 DEF OrderOK
<1>8. GroupsOK
  <2>1. CutsOK({0})
    BY <1>5 DEF CutsOK
  <2>2. {0} \in SUBSET Nat
    OBVIOUS
  <2> QED BY <2>1, <2>2 DEF GroupsOK
<1>9. ThreadOK
  BY <1>3 DEF ThreadOK, Threaded
<1>10. CallOK
  BY <1>1, <1>5 DEF CallOK, Turned
<1>11. TimesOK
  BY <1>1, <1>5 DEF TimesOK
<1>12. RingOK
  <2>1. ASSUME NEW c \in Contexts PROVE ~(Age(c) < 0 + 0)
    <3>1. c \in Nat /\ c < ThreadFrames /\ phase = 0
      BY <1>1 DEF Contexts
    <3> QED BY <1>1, <3>1 DEF Age
  <2>2. RingAt(0)
    BY <1>1, <1>5, <2>1 DEF RingAt, Turned
  <2> QED BY <1>5, <2>2 DEF RingOK
<1> QED BY <1>2, <1>6, <1>7, <1>8, <1>9, <1>10, <1>11, <1>12 DEF IInv

LEMMA NextIInv ==
  ASSUME ~BRefBeforeIdr, IInv, [Next]_vars PROVE IInv'
<1>1. CASE UNCHANGED vars
  <2>1. UNCHANGED <<listVars, laVars, current, codeVars, callVars>> /\ encPc' = encPc
        /\ asleep' = asleep
    BY <1>1 DEF vars, listVars, laVars, codeVars, callVars
  <2> QED BY <2>1, QuietStep DEF IInv, Types, TypeOK
<1>2. CASE LaStep
  BY <1>2, LaTopStep, LaFillStep, LaWaitInputStep, LaDecideStep, LaEmitStep, LaDrainStep,
     LaFinishStep DEF LaStep
<1>3. CASE GetNothing
  BY <1>3, QuietStep DEF GetNothing, EncAt, IInv, Types, TypeOK
<1>4. CASE CloseJoin
  BY <1>4, QuietStep DEF CloseJoin, IInv, Types, TypeOK
<1>5. CASE SpuriousWakeup
  BY <1>5, QuietStep DEF SpuriousWakeup, IInv, Types, TypeOK
<1>6. CASE CallStep
  BY <1>3, <1>4, <1>6, PutStep, PutSignalStep, GetFromThreadStep, GetInlineStep, TakeFrameStep,
     TakeNothingStep, EndFrameStep DEF CallStep
<1>7. CASE EncodeCall \/ FlushCall \/ CloseCall
  BY <1>7, EncodeCallStep, FlushCallStep, CloseCallStep
<1> QED BY <1>1, <1>2, <1>5, <1>6, <1>7 DEF Next, Terminated

(* IInv is inductive: whatever the two threads do, in whatever order, and  *)
(* whatever types are given, but for a B-ref before an IDR frame.          *)
THEOREM LookaheadInvariant ==
  ASSUME ~BRefBeforeIdr PROVE Spec => []IInv
<1> QED BY InitIInv, NextIInv, PTL DEF Spec

-----------------------------------------------------------------------------
(* What follows from it.                                                   *)

(* Every variable has its type.                                            *)
THEOREM TypeCorrect ==
  ASSUME ~BRefBeforeIdr PROVE Spec => []TypeOK
<1>1. IInv => TypeOK
  BY DEF IInv, Types
<1> QED BY <1>1, LookaheadInvariant, PTL

(* x264_encoder_encode takes a frame from frames.current without a check   *)
(* (line 3302): it is only empty when every list is.                       *)
THEOREM TakesAFrame ==
  ASSUME ~BRefBeforeIdr PROVE Spec => []NeverStarves
<1>1. IInv => NeverStarves
  BY DEF IInv, CallOK, NeverStarves, IsEmpty
<1> QED BY <1>1, LookaheadInvariant, PTL

(* The asserts of x264_lookahead_shift: the early return of line 3277      *)
(* keeps at most Delay + 2 - ThreadFrames frames before the ring, fewer    *)
(* than ofbuf or next has room for.                                        *)
THEOREM RoomForShifts ==
  ASSUME ~BRefBeforeIdr PROVE Spec => []ShiftsFit
<1>1. ASSUME IInv PROVE ShiftsFit
  <2>1. /\ Len(coded) \in Nat /\ Len(current) \in Nat /\ Len(ofbuf) \in Nat
        /\ Len(next) \in Nat /\ Len(ifbuf) \in Nat /\ Len(Waiting) \in Nat
        /\ Len(Deciding) \in Nat /\ input \in Nat
        /\ Len(Order) = Len(coded) + Len(current) + Len(ofbuf) + Len(Deciding)
        /\ Len(next) = Len(Deciding) + Len(Waiting)
        /\ input = Len(Order) + Len(Waiting) + Len(ifbuf) + (IF encPc = "put" THEN 1 ELSE 0)
    BY <1>1, Lengths
  <2>2. input - Len(coded) <= Delay + 2 - ThreadFrames
    BY <1>1, <2>1, ConstantFacts DEF IInv, CallOK
  <2>3. Delay + 2 - ThreadFrames < OfbufMax /\ Delay + 2 - ThreadFrames < NextMax
    BY ConstantFacts
  <2>4. Len(ofbuf) + Len(Deciding) <= input - Len(coded)
    BY <2>1
  <2>5. Len(next) + Len(ifbuf) <= input - Len(coded)
    BY <2>1
  <2>6. Delay \in Nat /\ ThreadFrames \in Nat /\ OfbufMax \in Nat /\ NextMax \in Nat
    BY ConstantFacts
  <2>7. LaAt("emit") => /\ Len(ofbuf) + GopSize(next) <= OfbufMax
                        /\ Len(next) >= GopSize(next)
    <3>1. ASSUME LaAt("emit") PROVE Len(Deciding) = GopSize(next) /\ GopSize(next) \in 1..Len(next)
      BY <1>1, <3>1, Facts DEF LaAt
    <3> QED BY <2>1, <2>2, <2>3, <2>4, <2>6, <3>1
  <2>8. Len(next) + Len(ifbuf) <= NextMax
    BY <2>1, <2>2, <2>3, <2>5, <2>6
  <2> QED BY <2>7, <2>8 DEF ShiftsFit
<1> QED BY <1>1, LookaheadInvariant, PTL

(* The contexts that are not free, by the age of their calls.              *)
LEMMA HeldCount ==
  ASSUME IInv
  PROVE  /\ Cardinality(Held) = Len(coded) - Len(output)
         /\ {slot[c] : c \in Held} = {coded[i] : i \in (Len(output) + 1)..Len(coded)}
<1> DEFINE n == Len(coded)
           h == Len(coded) - Len(output)
<1>1. PICK gap \in Nat : RingAt(gap)
  BY DEF IInv, RingOK
<1>2. /\ n \in Nat /\ Len(output) \in Nat /\ Len(output) <= n /\ h \in Nat
      /\ coded \in Seq(Frames) /\ ThreadFrames \in Nat /\ n = Len(output) + h
      /\ phase \in Nat /\ phase < ThreadFrames
  BY Lengths, Ring DEF IInv, RingOK, Types
<1>3. /\ gap + h <= ThreadFrames
      /\ \A c \in Contexts : slot[c] = IF gap <= Age(c) /\ Age(c) < gap + h
                                       THEN coded[n - (Age(c) - gap)] ELSE NoFrame
  BY <1>1 DEF RingAt
<1> HIDE DEF n, h
<1> DEFINE S == gap..(gap + h - 1)
           Of(a) == IF a <= phase THEN phase - a ELSE phase - a + ThreadFrames
<1>4. ASSUME NEW a \in S
      PROVE  Of(a) \in Contexts /\ Age(Of(a)) = a /\ n - (a - gap) \in (Len(output) + 1)..n
  <2>1. a \in Nat /\ a < ThreadFrames /\ gap <= a /\ a < gap + h
    BY <1>2, <1>3
  <2>2. Of(a) \in Nat /\ Of(a) < ThreadFrames
    BY <1>2, <2>1
  <2>3. Age(Of(a)) = a
    <3>1. Age(Of(a)) = IF Of(a) <= phase THEN phase - Of(a) ELSE phase - Of(a) + ThreadFrames
      BY DEF Age
    <3> QED BY <1>2, <2>1, <3>1
  <2>4. n - (a - gap) \in (Len(output) + 1)..n
    BY <1>2, <2>1
  <2> QED BY <1>2, <2>2, <2>3, <2>4 DEF Contexts
<1>5. ASSUME NEW c \in Contexts
      PROVE  /\ c \in Held <=> Age(c) \in S
             /\ c = Of(Age(c))
             /\ Age(c) \in S => slot[c] = coded[n - (Age(c) - gap)]
  <2>1. Age(c) \in Nat /\ Age(c) < ThreadFrames
    BY Ring
  <2>2. Age(c) \in S <=> gap <= Age(c) /\ Age(c) < gap + h
    BY <1>2, <2>1
  <2>3. Age(c) \in S => slot[c] = coded[n - (Age(c) - gap)] /\ slot[c] \in Frames
    <3>1. ASSUME Age(c) \in S PROVE coded[n - (Age(c) - gap)] \in Frames
      <4>1. n - (Age(c) - gap) \in 1..n
        BY <1>2, <1>4, <3>1
      <4> QED BY <1>2, <4>1 DEF n
    <3> QED BY <1>3, <2>2, <3>1
  <2>4. Age(c) \notin S => slot[c] = NoFrame
    BY <1>3, <2>2
  <2>5. c = Of(Age(c))
    <3>1. Age(c) = IF c <= phase THEN phase - c ELSE phase - c + ThreadFrames
      BY DEF Age
    <3>2. c \in Nat /\ c < ThreadFrames
      BY <1>2 DEF Contexts
    <3> QED BY <1>2, <3>1, <3>2
  <2> QED BY <2>3, <2>4, <2>5, FrameFacts DEF Held
<1> HIDE DEF S, Of
<1>6. Cardinality(Held) = h
  <2> DEFINE g == [a \in S |-> Of(a)]
  <2>1. \A a \in S : Of(a) \in Held
    BY <1>4, <1>5
  <2>2. g \in [S -> Held]
    BY <2>1
  <2>3. \A a, b \in S : g[a] = g[b] => a = b
    BY <1>4
  <2>4. \A c \in Held : \E a \in S : g[a] = c
    BY <1>5 DEF Held
  <2>5. ExistsBijection(S, Held)
    BY <2>2, <2>3, <2>4 DEF ExistsBijection, Bijection, Injection, Surjection, IsInjective
  <2>6. IsFiniteSet(S) /\ Cardinality(S) = h
    <3>1. gap \in Int /\ gap + h - 1 \in Int
      BY <1>2
    <3>2. IsFiniteSet(S) /\ Cardinality(S) = IF gap > gap + h - 1 THEN 0 ELSE (gap + h - 1) - gap + 1
      BY <3>1, FS_Interval DEF S
    <3> QED BY <1>2, <3>2
  <2> QED BY <2>5, <2>6, FS_Bijection
<1>7. {slot[c] : c \in Held} = {coded[i] : i \in (Len(output) + 1)..n}
  <2>1. ASSUME NEW c \in Held PROVE \E i \in (Len(output) + 1)..n : slot[c] = coded[i]
    <3>1. c \in Contexts
      BY DEF Held
    <3>2. Age(c) \in S /\ slot[c] = coded[n - (Age(c) - gap)]
      BY <1>5, <3>1
    <3> QED BY <1>4, <3>2
  <2>2. ASSUME NEW i \in (Len(output) + 1)..n PROVE \E c \in Held : slot[c] = coded[i]
    <3> DEFINE a == gap + (n - i)
    <3>1. a \in S /\ n - (a - gap) = i
      BY <1>2 DEF S
    <3> HIDE DEF a
    <3>2. Of(a) \in Contexts /\ Age(Of(a)) = a
      BY <1>4, <3>1
    <3>3. Of(a) \in Held /\ slot[Of(a)] = coded[n - (a - gap)]
      BY <1>5, <3>1, <3>2
    <3> QED BY <3>1, <3>3
  <2> QED BY <2>1, <2>2
<1> QED BY <1>6, <1>7 DEF n, h

(* Between two calls at most maximum_delayed_frames are delayed: what      *)
(* waits before the ring and what the ring holds.                          *)
THEOREM DelayKept ==
  ASSUME ~BRefBeforeIdr PROVE Spec => []DelayBounded
<1>1. ASSUME IInv PROVE DelayBounded
  <2> SUFFICES ASSUME encPc = "idle" PROVE Delayed <= Delay
    BY DEF DelayBounded
  <2>1. /\ Len(coded) \in Nat /\ Len(current) \in Nat /\ Len(ofbuf) \in Nat
        /\ Len(next) \in Nat /\ Len(ifbuf) \in Nat /\ Len(Waiting) \in Nat
        /\ Len(Deciding) \in Nat /\ input \in Nat /\ Len(output) \in Nat
        /\ Len(Order) = Len(coded) + Len(current) + Len(ofbuf) + Len(Deciding)
        /\ Len(next) = Len(Deciding) + Len(Waiting)
        /\ input = Len(Order) + Len(Waiting) + Len(ifbuf)
    BY <1>1, Lengths
  <2>2. Delayed = (Len(coded) - Len(output)) + Len(current) + Len(ofbuf) + Len(ifbuf) + Len(next)
    BY <1>1, HeldCount DEF Delayed, Held
  <2>3. input - Len(coded) <= Delay + 1 - ThreadFrames
    BY <1>1, <2>1, ConstantFacts DEF IInv, CallOK, Turned
  <2>4. Len(coded) - Len(output) < ThreadFrames
    <3>1. PICK gap \in Nat : RingAt(gap)
      BY <1>1 DEF IInv, RingOK
    <3>2. gap + (Len(coded) - Len(output)) < ThreadFrames /\ ThreadFrames \in Nat
      BY <3>1, ConstantFacts DEF RingAt
    <3> QED BY <2>1, <3>2
  <2>5. Delay \in Nat /\ ThreadFrames \in Nat
    BY ConstantFacts
  <2> QED BY <2>1, <2>2, <2>3, <2>4, <2>5
<1> QED BY <1>1, LookaheadInvariant, PTL

(* Frames come out in the order they were coded.                           *)
THEOREM CodedOrderOut ==
  ASSUME ~BRefBeforeIdr PROVE Spec => []OutputInCodedOrder
<1>1. ASSUME IInv PROVE OutputInCodedOrder
  <2>1. /\ coded \in Seq(Frames) /\ output \in Seq(Frames) /\ Len(output) \in 0..Len(coded)
        /\ \A i \in 1..Len(output) : output[i] = coded[i]
    BY <1>1 DEF IInv, Types, RingOK
  <2>2. Len(output) + Cardinality(Held) = Len(coded)
    BY <1>1, <2>1, HeldCount
  <2>3. FirstOf(coded, Len(output)) = output
    <3>1. /\ FirstOf(coded, Len(output)) \in Seq(Frames)
          /\ Len(FirstOf(coded, Len(output))) = Len(output)
          /\ \A i \in 1..Len(output) : FirstOf(coded, Len(output))[i] = coded[i]
      BY <2>1, Parts
    <3> QED BY <2>1, <3>1, SeqEqual
  <2> QED BY <2>2, <2>3 DEF OutputInCodedOrder, FirstOf
<1> QED BY <1>1, LookaheadInvariant, PTL

LEMMA Monotone ==
  ASSUME NEW f \in Frames, NEW g \in Frames
  PROVE  /\ Pts[f] \in Nat /\ Pts[g] \in Nat
         /\ f < g => Pts[f] < Pts[g]
         /\ f <= g => Pts[f] <= Pts[g]
<1>1. f \in Nat /\ g \in Nat
  BY FrameFacts
<1>2. Pts[f] \in Nat /\ Pts[g] \in Nat /\ (f < g => Pts[f] < Pts[g])
  BY ConstantFacts
<1>3. f <= g => f < g \/ f = g
  BY <1>1
<1> QED BY <1>2, <1>3

(* The decoding time of a frame: BFrameDelay frames early at the beginning, *)
(* then the time of the frame coded BFrameDelay places before.  The times  *)
(* increase, and that of a frame coded at most BFrameDelay places before   *)
(* its own place is not after its presentation.                            *)
LEMMA Times ==
  ASSUME IInv, NEW i \in 1..Len(coded)
  PROVE  /\ dts[i] <= Pts[coded[i]] \/ Late(coded[i])
         /\ i > 1 => dts[i - 1] < dts[i]
         /\ Len(dts) = Len(coded)
<1>1. IInv
  OBVIOUS
<1>2. Len(dts) = Len(coded)
  BY DEF IInv, TimesOK
<1>3. /\ dts[i] <= Pts[coded[i]] \/ Late(coded[i])
      /\ i > 1 => dts[i - 1] < dts[i]
  <2> DEFINE B == BFrameDelay
  <2>1. /\ i \in Nat /\ i >= 1 /\ i <= input /\ input \in Nat /\ input <= MaxFrames
        /\ B \in {0, 1, 2} /\ MaxFrames \in Nat /\ Len(coded) \in Nat /\ i <= Len(coded)
        /\ Len(Order) \in Nat /\ i \in 1..Len(Order)
    <3>1. /\ Len(coded) \in Nat /\ Len(Order) \in Nat /\ input \in Nat /\ input <= MaxFrames
          /\ Len(coded) <= Len(Order) /\ Len(Order) <= input /\ MaxFrames \in Nat
      BY <1>1, Lengths
    <3>2. B \in {0, 1, 2}
      BY ConstantFacts
    <3> QED BY <3>1, <3>2
  <2>2. coded[i] = Order[i] /\ coded[i] \in Frames
    BY <1>1, <2>1, Facts DEF IInv, Types
  <2>3. /\ coded[i] >= i - 1 - B \/ Behind(ftype, coded[i])
        /\ coded[i] \in Nat
        /\ i = 1 => coded[i] = 0
        /\ i > 1 => coded[i] # 0
    <3>1. coded[i] >= i - 1 - B \/ Behind(ftype, coded[i])
      BY <1>1, <2>1, <2>2 DEF IInv, OrderOK
    <3>2. Order[1] = 0
      BY <1>1, <2>1 DEF IInv, OrderOK
    <3>3. i > 1 => Order[i] # Order[1]
      <4>1. 1 \in 1..Len(Order)
        BY <2>1
      <4>2. \A j, k \in 1..Len(Order) : Order[j] = Order[k] => j = k
        BY <1>1 DEF IInv, OrderOK
      <4> QED BY <2>1, <4>1, <4>2
    <3> QED BY <2>2, <3>1, <3>2, <3>3, FrameFacts
  <2>4. /\ dts[i] = DtsAt(i - 1)
        /\ i > 1 => dts[i - 1] = DtsAt((i - 1) - 1)
    <3>1. i > 1 => i - 1 \in 1..Len(coded)
      BY <2>1
    <3> QED BY <1>1, <3>1 DEF IInv, TimesOK
  <2>5. delayTime = IF B > 0 /\ input > B THEN Pts[B] - Pts[0] ELSE 0
    BY <1>1 DEF IInv, TimesOK
  <2>6. i - 1 \in Frames /\ 0 \in Frames
    BY <2>1, FrameFacts
  <2>7. ASSUME ~Late(coded[i]) PROVE dts[i] <= Pts[coded[i]]
    <3>0. coded[i] >= i - 1 - B
      BY <2>3, <2>7 DEF Behind, Late
    <3>1. CASE B = 0
      <4>1. i - 1 <= coded[i]
        BY <2>1, <2>3, <3>0, <3>1
      <4> QED BY <2>2, <2>4, <2>6, <3>1, <4>1, Monotone DEF DtsAt
    <3>2. CASE B > 0 /\ i - 1 > B
      <4>1. i - 1 - B \in Frames
        BY <2>1, <3>2, FrameFacts
      <4>2. Pts[i - 1 - B] <= Pts[coded[i]]
        BY <2>2, <2>3, <3>0, <4>1, Monotone
      <4> QED BY <2>4, <3>2, <4>2 DEF DtsAt
    <3>3. CASE B > 0 /\ ~(i - 1 > B)
      <4>1. dts[i] = Pts[i - 1] - delayTime
        BY <2>4, <3>3 DEF DtsAt
      <4>2. CASE input > B
        <5>1. B \in Frames /\ B \in Nat
          BY <2>1, <4>2, FrameFacts
        <5>2. Pts[i - 1] <= Pts[B] /\ Pts[i - 1] \in Nat /\ Pts[B] \in Nat
          BY <2>1, <2>6, <3>3, <5>1, Monotone
        <5>3. Pts[0] <= Pts[coded[i]] /\ Pts[0] \in Nat /\ Pts[coded[i]] \in Nat
          BY <2>2, <2>3, <2>6, Monotone
        <5>4. delayTime = Pts[B] - Pts[0]
          BY <2>5, <3>3, <4>2
        <5> QED BY <4>1, <5>2, <5>3, <5>4
      <4>3. CASE ~(input > B)
        <5>1. i - 1 <= coded[i] /\ delayTime = 0
          BY <2>1, <2>3, <2>5, <3>0, <4>3
        <5>2. Pts[i - 1] <= Pts[coded[i]] /\ Pts[i - 1] \in Nat
          BY <2>2, <2>6, <5>1, Monotone
        <5> QED BY <4>1, <5>1, <5>2
      <4> QED BY <4>2, <4>3
    <3> QED BY <2>1, <3>1, <3>2, <3>3
  <2>8. ASSUME i > 1 PROVE dts[i - 1] < dts[i]
    <3> DEFINE n == i - 1
    <3>0. /\ n \in Nat /\ n >= 1 /\ n \in Frames /\ n - 1 \in Frames /\ n < input
          /\ dts[i - 1] = DtsAt(n - 1) /\ dts[i] = DtsAt(n)
      BY <2>1, <2>4, <2>8, FrameFacts
    <3> HIDE DEF n
    <3>1. CASE B = 0
      BY <3>0, <3>1, Monotone DEF DtsAt
    <3>2. CASE B > 0 /\ n > B + 1
      <4>1. n - B \in Frames /\ (n - 1) - B \in Frames /\ (n - 1) - B < n - B /\ n - 1 > B /\ n > B
        BY <2>1, <3>0, <3>2, FrameFacts
      <4>2. dts[i] = Pts[n - B] /\ dts[i - 1] = Pts[(n - 1) - B]
        BY <3>0, <3>2, <4>1 DEF DtsAt
      <4>3. Pts[(n - 1) - B] < Pts[n - B]
        BY <4>1, Monotone
      <4> QED BY <4>2, <4>3
    <3>3. CASE B > 0 /\ n = B + 1
      <4>1. n - B = 1 /\ n - 1 = B /\ ~(n - 1 > B) /\ n > B /\ input > B /\ 1 \in Frames
        BY <2>1, <3>0, <3>3, FrameFacts
      <4>2. dts[i] = Pts[1] /\ dts[i - 1] = Pts[B] - delayTime
        BY <3>0, <3>3, <4>1 DEF DtsAt
      <4>3. delayTime = Pts[B] - Pts[0]
        BY <2>5, <3>3, <4>1
      <4>4. Pts[0] < Pts[1] /\ Pts[0] \in Nat /\ Pts[1] \in Nat
        BY <2>6, <4>1, Monotone
      <4>5. Pts[B] \in Nat
        BY <3>0, <4>1, Monotone
      <4> QED BY <4>2, <4>3, <4>4, <4>5
    <3>4. CASE B > 0 /\ n <= B
      <4>1. dts[i] = Pts[n] - delayTime /\ dts[i - 1] = Pts[n - 1] - delayTime
        BY <2>1, <3>0, <3>4 DEF DtsAt
      <4>2. Pts[n - 1] < Pts[n] /\ Pts[n - 1] \in Nat /\ Pts[n] \in Nat
        BY <3>0, Monotone
      <4>3. delayTime \in Int
        BY <1>1 DEF IInv, Types
      <4> QED BY <4>1, <4>2, <4>3
    <3>5. B = 0 \/ (B > 0 /\ n > B + 1) \/ (B > 0 /\ n = B + 1) \/ (B > 0 /\ n <= B)
      BY <2>1, <3>0
    <3> QED BY <3>1, <3>2, <3>3, <3>4, <3>5
  <2> QED BY <2>7, <2>8
<1> QED BY <1>2, <1>3

(* Decoding times increase, and only the one of a frame with two B-refs    *)
(* behind it in its mini-GOP may be after its presentation.                *)
THEOREM TimesInOrder ==
  ASSUME ~BRefBeforeIdr PROVE Spec => []TimestampsOK
<1>1. IInv => TimestampsOK
  <2> SUFFICES ASSUME IInv PROVE TimestampsOK
    OBVIOUS
  <2>1. ASSUME NEW i \in 2..Len(dts) PROVE dts[i - 1] < dts[i]
    <3>1. Len(dts) = Len(coded)
      BY DEF IInv, TimesOK
    <3>2. i \in 1..Len(coded) /\ i > 1
      BY <3>1
    <3> QED BY <3>2, Times
  <2> QED BY <2>1, Times DEF TimestampsOK, Increasing
<1> QED BY <1>1, LookaheadInvariant, PTL

(* When the encoder decides the types itself, or one B-ref to a mini-GOP   *)
(* is all that may be given, no frame is shown before it is decoded.       *)
THEOREM TimesInOrderAlways ==
  ASSUME ~GivenTypes \/ MaxBRefs <= 1, ~BRefBeforeIdr
  PROVE  Spec => []DecodedBeforeShown
<1>1. \A f : ~Late(f)
  BY MaxBRefsFacts DEF Late
<1>2. TimestampsOK => DecodedBeforeShown
  BY <1>1 DEF TimestampsOK, DecodedBeforeShown
<1> QED BY <1>2, TimesInOrder, PTL

LEMMA Elements ==
  ASSUME NEW S, NEW s \in Seq(S), NEW t \in Seq(S)
  PROVE  ToSet(s \o t) = ToSet(s) \cup ToSet(t) /\ s \o t \in Seq(S)
<1>1. /\ s \o t \in Seq(S) /\ Len(s \o t) = Len(s) + Len(t)
      /\ \A i \in 1..Len(s) : (s \o t)[i] = s[i]
      /\ \A i \in 1..Len(t) : (s \o t)[Len(s) + i] = t[i]
  BY Concat
<1>2. Len(s) \in Nat /\ Len(t) \in Nat
  OBVIOUS
<1> DEFINE u == s \o t
<1> HIDE DEF u
<1>3. /\ u \in Seq(S) /\ Len(u) = Len(s) + Len(t)
      /\ \A i \in 1..Len(s) : u[i] = s[i]
      /\ \A i \in 1..Len(t) : u[Len(s) + i] = t[i]
  BY <1>1 DEF u
<1>4. DOMAIN u = 1..Len(u) /\ DOMAIN s = 1..Len(s) /\ DOMAIN t = 1..Len(t)
  BY <1>3
<1>5. ASSUME NEW i \in 1..Len(t) PROVE Len(s) + i \in 1..Len(u) /\ u[Len(s) + i] = t[i]
  <2>1. u[Len(s) + i] = t[i]
    BY <1>3
  <2>2. Len(u) = Len(s) + Len(t)
    BY <1>3
  <2> QED BY <1>2, <2>1, <2>2
<1>6. ASSUME NEW i \in 1..Len(u) PROVE u[i] \in ToSet(s) \cup ToSet(t)
  <2>1. CASE i <= Len(s)
    BY <1>2, <1>3, <1>4, <2>1 DEF ToSet
  <2>2. CASE i > Len(s)
    <3>1. i - Len(s) \in 1..Len(t) /\ Len(s) + (i - Len(s)) = i
      BY <1>2, <1>3, <2>2
    <3>2. u[Len(s) + (i - Len(s))] = t[i - Len(s)]
      BY <1>5, <3>1
    <3> QED BY <1>4, <3>1, <3>2 DEF ToSet
  <2>3. i <= Len(s) \/ i > Len(s)
    BY <1>2
  <2> QED BY <2>1, <2>2, <2>3
<1>7. ASSUME NEW i \in 1..Len(s) PROVE s[i] \in ToSet(u)
  <2>1. i \in 1..Len(u) /\ u[i] = s[i]
    BY <1>2, <1>3
  <2> QED BY <1>4, <2>1 DEF ToSet
<1>8. ASSUME NEW i \in 1..Len(t) PROVE t[i] \in ToSet(u)
  BY <1>4, <1>5 DEF ToSet
<1>9. ToSet(u) = ToSet(s) \cup ToSet(t)
  BY <1>6, <1>7, <1>8, <1>4 DEF ToSet
<1> QED BY <1>3, <1>9 DEF u

(* Two lists one after the other: the elements of both, as many as in both. *)
LEMMA Joined ==
  ASSUME NEW S, NEW s \in Seq(S), NEW t \in Seq(S)
  PROVE  /\ s \o t \in Seq(S)
         /\ ToSet(s \o t) = ToSet(s) \cup ToSet(t)
         /\ Len(s \o t) = Len(s) + Len(t)
<1>1. ToSet(s \o t) = ToSet(s) \cup ToSet(t) /\ s \o t \in Seq(S)
  BY Elements
<1>2. Len(s \o t) = Len(s) + Len(t)
  BY Concat
<1> QED BY <1>1, <1>2

(* Every frame put in is in exactly one place: in the caller's hand, in a  *)
(* list of either thread, in a context, or output.                         *)
THEOREM NoFrameLost ==
  ASSUME ~BRefBeforeIdr PROVE Spec => []FramesConserved
<1>1. ASSUME IInv PROVE FramesConserved
  <2> DEFINE a == InHand
             ab == a \o ifbuf
             ac == ab \o next
             ad == ac \o ofbuf
             ae == ad \o current
             lists == ae \o output
             held == {slot[c] : c \in Held}
             w == Len(Order) + Len(Waiting)
  <2>1. /\ Len(coded) \in Nat /\ Len(current) \in Nat /\ Len(ofbuf) \in Nat
        /\ Len(next) \in Nat /\ Len(ifbuf) \in Nat /\ Len(output) \in Nat
        /\ Len(Order) \in Nat /\ Len(Waiting) \in Nat /\ Len(Deciding) \in Nat
        /\ input \in Nat /\ input <= MaxFrames /\ MaxFrames \in Nat
        /\ Len(Order) = Len(coded) + Len(current) + Len(ofbuf) + Len(Deciding)
        /\ Len(next) = Len(Deciding) + Len(Waiting)
        /\ input = w + Len(ifbuf) + (IF encPc = "put" THEN 1 ELSE 0)
    BY <1>1, Lengths
  <2>2. /\ ifbuf \in Seq(Frames) /\ next \in Seq(Frames) /\ ofbuf \in Seq(Frames)
        /\ current \in Seq(Frames) /\ output \in Seq(Frames) /\ coded \in Seq(Frames)
        /\ Deciding \in Seq(Frames) /\ Waiting \in Seq(Frames) /\ Order \in Seq(Frames)
    BY <1>1, Facts DEF IInv, Types, TypeOK
  <2>3. /\ a \in Seq(Frames) /\ Len(a) = (IF encPc = "put" THEN 1 ELSE 0)
        /\ ToSet(a) = IF encPc = "put" THEN {input - 1} ELSE {}
    <3>1. encPc = "put" => input - 1 \in Frames
      <4>1. encPc = "put" => input - 1 \in Nat /\ input - 1 < MaxFrames
        BY <2>1
      <4> QED BY <4>1, FrameFacts
    <3> QED BY <3>1 DEF InHand, ToSet
  <2> HIDE DEF a, w
  <2>4. /\ ToSet(lists) = ToSet(a) \cup ToSet(ifbuf) \cup ToSet(next) \cup ToSet(ofbuf)
                          \cup ToSet(current) \cup ToSet(output)
        /\ Len(lists) = Len(a) + Len(ifbuf) + Len(next) + Len(ofbuf) + Len(current) + Len(output)
    <3>0. /\ ifbuf \in Seq(Frames) /\ next \in Seq(Frames) /\ ofbuf \in Seq(Frames)
          /\ current \in Seq(Frames) /\ output \in Seq(Frames)
      BY <2>2
    <3> HIDE DEF ab, ac, ad, ae, lists
    <3>1. /\ ab \in Seq(Frames) /\ ToSet(ab) = ToSet(a) \cup ToSet(ifbuf)
          /\ Len(ab) = Len(a) + Len(ifbuf)
      <4>1. a \in Seq(Frames)
        BY <2>3
      <4> QED BY <3>0, <4>1, Joined DEF ab
    <3>2. /\ ac \in Seq(Frames) /\ ToSet(ac) = ToSet(ab) \cup ToSet(next)
          /\ Len(ac) = Len(ab) + Len(next)
      <4>1. ab \in Seq(Frames)
        BY <3>1
      <4> QED BY <3>0, <4>1, Joined DEF ac
    <3>3. /\ ad \in Seq(Frames) /\ ToSet(ad) = ToSet(ac) \cup ToSet(ofbuf)
          /\ Len(ad) = Len(ac) + Len(ofbuf)
      <4>1. ac \in Seq(Frames)
        BY <3>2
      <4> QED BY <3>0, <4>1, Joined DEF ad
    <3>4. /\ ae \in Seq(Frames) /\ ToSet(ae) = ToSet(ad) \cup ToSet(current)
          /\ Len(ae) = Len(ad) + Len(current)
      <4>1. ad \in Seq(Frames)
        BY <3>3
      <4> QED BY <3>0, <4>1, Joined DEF ae
    <3>5. /\ lists \in Seq(Frames) /\ ToSet(lists) = ToSet(ae) \cup ToSet(output)
          /\ Len(lists) = Len(ae) + Len(output)
      <4>1. ae \in Seq(Frames)
        BY <3>4
      <4> QED BY <3>0, <4>1, Joined DEF lists
    <3> QED BY <3>1, <3>2, <3>3, <3>4, <3>5
  <2>5. Len(lists) + Cardinality(Held) = input
    <3>1. Cardinality(Held) = Len(coded) - Len(output)
      BY <1>1, HeldCount
    <3> HIDE DEF lists
    <3>2. /\ Len(a) = (IF encPc = "put" THEN 1 ELSE 0)
          /\ Len(lists) = Len(a) + Len(ifbuf) + Len(next) + Len(ofbuf) + Len(current)
                          + Len(output)
      BY <2>3, <2>4
    <3>3. input = Len(Order) + Len(Waiting) + Len(ifbuf) + (IF encPc = "put" THEN 1 ELSE 0)
      BY <2>1 DEF w
    <3>4. /\ Len(Order) = Len(coded) + Len(current) + Len(ofbuf) + Len(Deciding)
          /\ Len(next) = Len(Deciding) + Len(Waiting)
      BY <2>1
    <3>5. /\ Len(coded) \in Nat /\ Len(current) \in Nat /\ Len(ofbuf) \in Nat
          /\ Len(next) \in Nat /\ Len(ifbuf) \in Nat /\ Len(output) \in Nat
          /\ Len(Order) \in Nat /\ Len(Waiting) \in Nat /\ Len(Deciding) \in Nat
      BY <2>1
    <3>6. Len(lists) = Len(a) + Len(ifbuf) + Len(next) + Len(ofbuf) + Len(current) + Len(output)
      BY <3>2
    <3>7. CASE encPc = "put"
      <4>1. Len(a) = 1 /\ input = Len(Order) + Len(Waiting) + Len(ifbuf) + 1
        BY <3>2, <3>3, <3>7
      <4> QED BY <3>1, <3>4, <3>5, <3>6, <4>1
    <3>8. CASE encPc # "put"
      <4>1. Len(a) = 0 /\ input = Len(Order) + Len(Waiting) + Len(ifbuf) + 0
        BY <3>2, <3>3, <3>8
      <4> QED BY <3>1, <3>4, <3>5, <3>6, <4>1
    <3> QED BY <3>7, <3>8
  <2>6. ToSet(next) = ToSet(Deciding) \cup ToSet(Waiting)
    <3>1. Deciding \o Waiting = next
      <4>1. CASE laPc = "emit"
        <5>1. GopSize(next) \in 0..Len(next)
          BY <1>1, <2>1, <4>1, Facts
        <5> QED BY <2>2, <4>1, <5>1, Whole DEF Deciding, Waiting
      <4>2. CASE laPc # "emit"
        BY <2>2, <4>2, NothingFirst DEF Deciding, Waiting
      <4> QED BY <4>1, <4>2
    <3> QED BY <2>2, <3>1, Elements
  <2>7. ToSet(coded) = ToSet(output) \cup held
    <3>1. held = {coded[i] : i \in (Len(output) + 1)..Len(coded)}
      BY <1>1, HeldCount
    <3>2. /\ Len(output) <= Len(coded)
          /\ \A i \in 1..Len(output) : output[i] = coded[i]
      BY <1>1 DEF IInv, RingOK
    <3>3. DOMAIN coded = 1..Len(coded) /\ DOMAIN output = 1..Len(output)
      BY <2>2
    <3>4. \A i \in 1..Len(coded) : i \in 1..Len(output) \/ i \in (Len(output) + 1)..Len(coded)
      BY <2>1
    <3>5. \A i \in 1..Len(output) : i \in 1..Len(coded)
      BY <2>1, <3>2
    <3>6. \A i \in (Len(output) + 1)..Len(coded) : i \in 1..Len(coded)
      BY <2>1
    <3> HIDE DEF held
    <3> QED BY <3>1, <3>2, <3>3, <3>4, <3>5, <3>6 DEF ToSet
  <2>8. ToSet(Order) = ToSet(coded) \cup ToSet(current) \cup ToSet(ofbuf) \cup ToSet(Deciding)
    <3> DEFINE t == coded \o current
               u == t \o ofbuf
    <3>1. t \in Seq(Frames) /\ ToSet(t) = ToSet(coded) \cup ToSet(current)
      BY <2>2, Elements
    <3> HIDE DEF t
    <3>2. u \in Seq(Frames) /\ ToSet(u) = ToSet(t) \cup ToSet(ofbuf)
      BY <2>2, <3>1, Elements
    <3> HIDE DEF u
    <3>3. ToSet(u \o Deciding) = ToSet(u) \cup ToSet(Deciding)
      BY <2>2, <3>2, Elements
    <3>4. Order = u \o Deciding
      BY DEF Order, u, t
    <3> QED BY <3>1, <3>2, <3>3, <3>4
  <2>9. ToSet(Order) = 0..(Len(Order) - 1)
    <3>1. DOMAIN Order = 1..Len(Order)
      BY <2>2
    <3>2. ASSUME NEW i \in 1..Len(Order) PROVE Order[i] \in 0..(Len(Order) - 1)
      <4>1. Order[i] \in Frames /\ Order[i] < Len(Order)
        BY <1>1, <2>2 DEF IInv, OrderOK
      <4> QED BY <2>1, <4>1, FrameFacts
    <3>3. \A f \in 0..(Len(Order) - 1) : \E i \in 1..Len(Order) : Order[i] = f
      BY <1>1 DEF IInv, OrderOK
    <3> QED BY <3>1, <3>2, <3>3 DEF ToSet
  <2>10. ToSet(Waiting) = Len(Order)..(w - 1)
    <3>1. DOMAIN Waiting = 1..Len(Waiting)
      BY <2>2
    <3>2. \A i \in 1..Len(Waiting) : Waiting[i] = Len(Order) + i - 1
      BY <1>1 DEF IInv, WaitingOK
    <3>3. ASSUME NEW i \in 1..Len(Waiting) PROVE Waiting[i] \in Len(Order)..(w - 1)
      BY <2>1, <3>2 DEF w
    <3>4. ASSUME NEW f \in Len(Order)..(w - 1) PROVE \E i \in 1..Len(Waiting) : Waiting[i] = f
      <4>1. f - Len(Order) + 1 \in 1..Len(Waiting) /\ Len(Order) + (f - Len(Order) + 1) - 1 = f
        BY <2>1 DEF w
      <4> QED BY <3>2, <4>1
    <3> QED BY <3>1, <3>3, <3>4 DEF ToSet
  <2>11. ToSet(ifbuf) = w..(w + Len(ifbuf) - 1)
    <3>1. DOMAIN ifbuf = 1..Len(ifbuf)
      BY <2>2
    <3>2. \A i \in 1..Len(ifbuf) : ifbuf[i] = w + i - 1
      BY <1>1 DEF IInv, WaitingOK, w
    <3>0. w \in Nat
      BY <2>1 DEF w
    <3>3. ASSUME NEW i \in 1..Len(ifbuf) PROVE ifbuf[i] \in w..(w + Len(ifbuf) - 1)
      BY <2>1, <3>0, <3>2
    <3>4. ASSUME NEW f \in w..(w + Len(ifbuf) - 1) PROVE \E i \in 1..Len(ifbuf) : ifbuf[i] = f
      <4>1. f - w + 1 \in 1..Len(ifbuf) /\ w + (f - w + 1) - 1 = f
        BY <2>1, <3>0
      <4> QED BY <3>2, <4>1
    <3> QED BY <3>1, <3>3, <3>4 DEF ToSet
  <2>12. ToSet(lists) \cup held = 0..(input - 1)
    <3> HIDE DEF lists, held
    <3>1. ToSet(lists) \cup held
            = ToSet(a) \cup ToSet(ifbuf) \cup ToSet(Waiting) \cup ToSet(Order)
      BY <2>4, <2>6, <2>7, <2>8
    <3>2. w \in Nat /\ w >= Len(Order)
      BY <2>1 DEF w
    <3>3. ToSet(Waiting) \cup ToSet(Order) = 0..(w - 1)
      BY <2>1, <2>9, <2>10, <3>2
    <3>4. ToSet(ifbuf) \cup (0..(w - 1)) = 0..(w + Len(ifbuf) - 1)
      BY <2>1, <2>11, <3>2
    <3>5. ToSet(a) \cup (0..(w + Len(ifbuf) - 1)) = 0..(input - 1)
      <4>0. w \in Nat /\ Len(ifbuf) \in Nat
        BY <2>1, <3>2
      <4>1. CASE encPc = "put"
        <5>1. ToSet(a) = {input - 1} /\ input = w + Len(ifbuf) + 1
          BY <2>1, <2>3, <4>1
        <5> QED BY <4>0, <5>1
      <4>2. CASE encPc # "put"
        <5>1. ToSet(a) = {} /\ input = w + Len(ifbuf) + 0
          BY <2>1, <2>3, <4>2
        <5> QED BY <4>0, <5>1
      <4> QED BY <4>1, <4>2
    <3> QED BY <3>1, <3>3, <3>4, <3>5
  <2> QED BY <2>5, <2>12 DEF FramesConserved, a
<1> QED BY <1>1, LookaheadInvariant, PTL

(* All of this holds in particular of a lookahead without a thread.        *)
THEOREM InlineKept ==
  ASSUME ~BRefBeforeIdr PROVE Spec => []InlineGuarantees
<1> QED BY NoFrameLost, DelayKept, TimesInOrder, PTL DEF InlineGuarantees
=============================================================================
