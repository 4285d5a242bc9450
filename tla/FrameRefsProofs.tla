--------------------------- MODULE FrameRefsProofs ---------------------------
(***************************************************************************)
(* What is proved of FrameRefs for any number of frame threads, pictures   *)
(* and B-frames, in a build that loads a count once to decrement and to    *)
(* compare it: however the two threads get into each other in the unlocked *)
(* counts and in unused[0], no picture goes into a frame that is still in  *)
(* use.  In a build that reads the count again this is not so.             *)
(*                                                                         *)
(* IInv follows where a frame is.  Stream is the frames that carry a       *)
(* picture, from x264_encoder_encode to the push of encoder_frame_end;     *)
(* Nonb is the one the lookahead counts for last_nonb; Pushed and Popped   *)
(* are on their way into and out of the list.  A lost decrement leaves a   *)
(* frame in none of these, and a frame in none of these never comes back.  *)
(***************************************************************************)
EXTENDS FrameRefs, SequenceTheorems, FiniteSetTheorems, TLAPS

ApiSteps == {"idle", "pop", "last", "read", "clear", "count", "put", "get", "end",
             "load", "store", "scan", "write", "join", "closed"}
LaSteps  == {"idle", "update", "load", "store", "scan", "write", "set", "hold", "shift", "done"}
Popping  == {"pop", "last", "read", "clear", "count", "put"}
Pushing  == {"load", "store", "scan", "write"}
Some     == Frames \cup {NoFrame}
ApiTypes == [pc : ApiSteps, f : Some, i : Slots, n : Int, after : {"idle", "closed"}, b : Int]
LaTypes  == [pc : LaSteps, f : Some, i : Slots, n : Int, after : {"idle", "set"}, b : Int]

Typed ==
  /\ count \in [Frames -> Int]
  /\ unused \in [Slots -> Some]
  /\ made \in Nat /\ input \in Nat /\ exit \in BOOLEAN
  /\ waiting \in Seq(Frames) /\ ready \in Seq(Frames)
  /\ lastNonb \in Some
  /\ slot \in [Contexts -> Some]
  /\ turn \in Contexts
  /\ api \in ApiTypes /\ la \in LaTypes

(* What a thread at a step knows.                                          *)
Control ==
  /\ api.pc \in Popping => input < MaxPictures /\ ~exit
  /\ api.pc \in {"pop", "get", "end"} => api.i = 0
  /\ api.pc \in {"last", "read"} => unused[api.i] # NoFrame
  /\ api.pc \in {"clear", "count", "put"} \cup Pushing => api.f \in Frames
  /\ api.pc = "closed" \/ (api.pc \in Pushing /\ api.after = "closed")
       => la.pc = "done" /\ lastNonb = NoFrame
  /\ la.pc \in Pushing => la.f \in Frames /\ la.f = lastNonb /\ la.after = "set"
  /\ la.pc \notin {"idle", "done"} => la.b >= 0 /\ la.b + 1 <= Len(waiting)
  /\ la.pc = "hold" => lastNonb = waiting[1]

(* The context that a call turns to is empty.                              *)
Empty(c) == slot[c] = NoFrame
Ring ==
  /\ api.pc = "get" => exit \/ input > SlicetypeLength + SyncLookahead
  /\ ~exit /\ input <= SlicetypeLength + SyncLookahead => \A c \in Contexts : Empty(c)
  /\ api.pc \in Popping \cup {"get"} => Empty(turn)
  /\ api.pc = "idle" \/ (api.pc \in Pushing /\ api.after = "idle") => Empty(Oldest)

(* A frame carries one picture.                                            *)
Distinct(s) == \A i, j \in 1..Len(s) : s[i] = s[j] => i = j
OneSlot     == \A c, d \in Contexts : slot[c] = slot[d] /\ slot[c] # NoFrame => c = d

Carried == IF api.pc = "put" \/ (api.pc \in {"load", "store"} /\ api.after = "idle")
           THEN {api.f} ELSE {}
Once ==
  /\ Distinct(waiting) /\ Distinct(ready) /\ OneSlot
  /\ ToSet(waiting) \cap ToSet(ready) = {}
  /\ Working \cap (ToSet(waiting) \cup ToSet(ready)) = {}
  /\ Carried \cap (ToSet(waiting) \cup ToSet(ready) \cup Working) = {}

Stream == ToSet(waiting) \cup ToSet(ready) \cup Working \cup Carried
Nonb ==
  (IF la.pc \in {"idle", "update", "shift", "done", "load", "store"} THEN {lastNonb} \ {NoFrame} ELSE {})
    \cup (IF api.pc \in {"load", "store"} /\ api.after = "closed" THEN {api.f} ELSE {})
Pushed(t) == IF t.pc \in {"scan", "write"} THEN {t.f} ELSE {}
Popped    == IF api.pc \in {"clear", "count"} THEN {api.f} ELSE {}
Cleared   == IF api.pc = "clear" THEN {api.i} ELSE {}   \* the slot still to be cleared

(* The entries un of unused[0], the frames used, on their way into the     *)
(* list (pa, pl) and out of it (po, whose slot may still be hole).         *)
PlacesOf(un, used, pa, pl, po, hole, m) ==
  /\ \A i, j \in Slots : un[i] = un[j] /\ un[i] # NoFrame => i = j
  /\ \A i \in Slots : un[i] # NoFrame =>
        /\ un[i] \notin used /\ un[i] \notin pa /\ un[i] \notin pl
        /\ un[i] \in po => i \in hole
        /\ un[i] <= m
  /\ pa \cap used = {} /\ pa \cap pl = {} /\ po \cap used = {} /\ po \cap pl = {}
  /\ pl \cap used = {}
  /\ \A f \in used \cup po \cup pl \cup pa : f <= m
Used   == Stream \cup Nonb
Places == PlacesOf(unused, Used, Pushed(api), Pushed(la), Popped, Cleared, made)

CountsOf(cnt, stream, nonb) ==
  /\ \A f \in stream : cnt[f] = IF f \in nonb THEN 2 ELSE 1
  /\ \A f \in nonb : f \notin stream => cnt[f] = 1
Counts ==
  /\ CountsOf(count, Stream, Nonb)
  /\ api.pc = "put" => api.f \notin Nonb

(* A count that was loaded is the count, or the other thread has taken its *)
(* own reference away since.                                               *)
Loaded ==
  /\ api.pc = "store" => \/ api.n = count[api.f]
                         \/ api.n = 2 /\ count[api.f] = 1 /\ api.after = "idle" /\ api.f \notin Nonb
  /\ la.pc = "store" => \/ la.n = count[la.f]
                        \/ la.n = 2 /\ count[la.f] = 1 /\ la.f \notin Stream
  /\ la.pc = "hold" => la.n = 1

(* The free slots below the one a thread scans are pops that happened      *)
(* since, and the frames popped and not yet counted as input are few.      *)
Extra == IF api.pc \in {"count", "put"} THEN 1 ELSE 0
Gap   == input + Extra - made
Filled(un, i)  == {j \in 0..(i - 1) : un[j] # NoFrame}
Near(un, i, d) == i <= Cardinality(Filled(un, i)) + d
Index ==
  /\ Gap >= 0 /\ input <= MaxPictures /\ made <= MaxPictures
  /\ unused[MaxPictures] = NoFrame
  /\ api.pc \in {"scan", "write"} => Near(unused, api.i, Gap)
  /\ la.pc \in {"scan", "write"} => Near(unused, la.i, Gap)
  /\ api.pc = "write" => api.i < MaxPictures
  /\ la.pc = "write" => la.i < MaxPictures

IInv == Typed /\ Control /\ Ring /\ Once /\ Places /\ Counts /\ Loaded /\ Index

-----------------------------------------------------------------------------
(* Lists without repetitions                                               *)

LEMMA Ranges ==
  ASSUME NEW s \in Seq(Frames)
  PROVE  /\ DOMAIN s = 1..Len(s) /\ Len(s) \in Nat
         /\ ToSet(s) = {s[i] : i \in 1..Len(s)}
         /\ ToSet(s) \subseteq Frames
BY DEF ToSet

LEMMA Joined ==
  ASSUME NEW a \in Seq(Frames), Distinct(a), NEW b \in Seq(Frames), Distinct(b),
         ToSet(a) \cap ToSet(b) = {}
  PROVE  /\ a \o b \in Seq(Frames) /\ Len(a \o b) = Len(a) + Len(b)
         /\ Distinct(a \o b) /\ ToSet(a \o b) = ToSet(a) \cup ToSet(b)
<1> DEFINE r == a \o b
<1>1. r \in Seq(Frames)
  OBVIOUS
<1>2. /\ Len(r) = Len(a) + Len(b) /\ Len(a) \in Nat /\ Len(b) \in Nat
      /\ \A k \in 1..(Len(a) + Len(b)) : r[k] = IF k <= Len(a) THEN a[k] ELSE b[k - Len(a)]
  BY ConcatProperties
<1> HIDE DEF r
<1>3. /\ ToSet(a) = {a[i] : i \in 1..Len(a)} /\ ToSet(b) = {b[i] : i \in 1..Len(b)}
      /\ ToSet(r) = {r[i] : i \in 1..Len(r)}
  BY <1>1, Ranges
<1>4. ToSet(r) \subseteq ToSet(a) \cup ToSet(b)
  <2>1. ASSUME NEW k \in 1..Len(r) PROVE r[k] \in ToSet(a) \cup ToSet(b)
    <3>1. CASE k <= Len(a)
      <4>1. k \in 1..Len(a) /\ r[k] = a[k]
        BY <1>2, <3>1
      <4> QED BY <1>3, <4>1
    <3>2. CASE ~(k <= Len(a))
      <4>1. k - Len(a) \in 1..Len(b) /\ r[k] = b[k - Len(a)]
        BY <1>2, <3>2
      <4> QED BY <1>3, <4>1
    <3> QED BY <3>1, <3>2
  <2> QED BY <1>3, <2>1
<1>5. ToSet(a) \cup ToSet(b) \subseteq ToSet(r)
  <2>1. ASSUME NEW k \in 1..Len(a) PROVE a[k] \in ToSet(r)
    <3>1. k \in 1..Len(r) /\ r[k] = a[k]
      BY <1>2
    <3> QED BY <1>3, <3>1
  <2>2. ASSUME NEW k \in 1..Len(b) PROVE b[k] \in ToSet(r)
    <3>1. k + Len(a) \in 1..Len(r) /\ r[k + Len(a)] = b[k]
      BY <1>2
    <3> QED BY <1>3, <3>1
  <2> QED BY <1>3, <2>1, <2>2
<1>6. ASSUME NEW i \in 1..Len(r), NEW j \in 1..Len(r), r[i] = r[j] PROVE i = j
  <2> DEFINE n == Len(a)
  <2>1. \A k \in 1..Len(r) :
           \/ k \in 1..n /\ r[k] = a[k] /\ r[k] \in ToSet(a)
           \/ k - n \in 1..Len(b) /\ ~(k <= n) /\ r[k] = b[k - n] /\ r[k] \in ToSet(b)
    <3>1. \A k \in 1..Len(r) : \/ k \in 1..n /\ r[k] = a[k]
                               \/ k - n \in 1..Len(b) /\ ~(k <= n) /\ r[k] = b[k - n]
      BY <1>2
    <3> HIDE DEF n
    <3>2. (\A k \in 1..n : a[k] \in ToSet(a)) /\ (\A k \in 1..Len(b) : b[k] \in ToSet(b))
      BY <1>3 DEF n
    <3> QED BY <3>1, <3>2
  <2>2. CASE r[i] \in ToSet(a)
    <3>1. i \in 1..n /\ j \in 1..n /\ a[i] = a[j]
      BY <1>6, <2>1, <2>2
    <3> QED BY <3>1 DEF Distinct
  <2>3. CASE r[i] \in ToSet(b)
    <3>1. i - n \in 1..Len(b) /\ j - n \in 1..Len(b) /\ b[i - n] = b[j - n]
      BY <1>6, <2>1, <2>3
    <3>2. i - n = j - n
      BY <3>1 DEF Distinct
    <3> QED BY <1>2, <3>2
  <2> QED BY <2>1, <2>2, <2>3
<1> QED BY <1>1, <1>2, <1>4, <1>5, <1>6 DEF Distinct, r

LEMMA Single ==
  ASSUME NEW e \in Frames
  PROVE  <<e>> \in Seq(Frames) /\ Distinct(<<e>>) /\ ToSet(<<e>>) = {e}
<1>1. <<e>> \in Seq(Frames) /\ Len(<<e>>) = 1 /\ <<e>>[1] = e
  OBVIOUS
<1>2. ToSet(<<e>>) = {<<e>>[i] : i \in 1..1}
  BY <1>1, Ranges
<1> QED BY <1>1, <1>2 DEF Distinct

LEMMA Appended ==
  ASSUME NEW s \in Seq(Frames), Distinct(s), NEW e \in Frames, e \notin ToSet(s)
  PROVE  /\ Append(s, e) \in Seq(Frames) /\ Len(Append(s, e)) = Len(s) + 1
         /\ Distinct(Append(s, e)) /\ ToSet(Append(s, e)) = ToSet(s) \cup {e}
         /\ Len(s) > 0 => Append(s, e)[1] = s[1]
<1>1. Append(s, e) = s \o <<e>>
  OBVIOUS
<1>2. <<e>> \in Seq(Frames) /\ Distinct(<<e>>) /\ ToSet(<<e>>) = {e} /\ Len(<<e>>) = 1
  BY Single
<1>3. ToSet(s) \cap ToSet(<<e>>) = {}
  BY <1>2
<1>4. /\ s \o <<e>> \in Seq(Frames) /\ Len(s \o <<e>>) = Len(s) + Len(<<e>>)
      /\ Distinct(s \o <<e>>) /\ ToSet(s \o <<e>>) = ToSet(s) \cup ToSet(<<e>>)
  BY <1>2, <1>3, Joined
<1>5. Len(s) > 0 => Append(s, e)[1] = s[1]
  OBVIOUS
<1> QED BY <1>1, <1>2, <1>4, <1>5

(* SubSeq cuts a list into two.                                            *)
LEMMA Cut ==
  ASSUME NEW s \in Seq(Frames), Distinct(s), NEW k \in 0..Len(s)
  PROVE  LET a == SubSeq(s, 1, k)
             b == SubSeq(s, k + 1, Len(s))
         IN  /\ a \in Seq(Frames) /\ Distinct(a) /\ Len(a) = k
             /\ b \in Seq(Frames) /\ Distinct(b) /\ Len(b) = Len(s) - k
             /\ ToSet(a) \cap ToSet(b) = {} /\ ToSet(a) \cup ToSet(b) = ToSet(s)
<1> DEFINE a == SubSeq(s, 1, k)
           b == SubSeq(s, k + 1, Len(s))
<1>1. a \in Seq(Frames) /\ Len(a) = k /\ \A i \in 1..k : a[i] = s[i]
  OBVIOUS
<1>2. b \in Seq(Frames) /\ Len(b) = Len(s) - k /\ \A i \in 1..(Len(s) - k) : b[i] = s[i + k]
  OBVIOUS
<1> HIDE DEF a, b
<1>3. /\ ToSet(s) = {s[i] : i \in 1..Len(s)} /\ Len(s) \in Nat
      /\ ToSet(a) = {a[i] : i \in 1..k} /\ ToSet(b) = {b[i] : i \in 1..(Len(s) - k)}
  BY <1>1, <1>2, Ranges
<1>4. Distinct(a)
  BY <1>1, <1>3 DEF Distinct
<1>5. Distinct(b)
  <2>1. ASSUME NEW i \in 1..Len(b), NEW j \in 1..Len(b), b[i] = b[j] PROVE i = j
    <3>1. i + k \in 1..Len(s) /\ j + k \in 1..Len(s) /\ s[i + k] = s[j + k]
      BY <1>2, <1>3, <2>1
    <3>2. i + k = j + k
      BY <3>1 DEF Distinct
    <3> QED BY <1>2, <1>3, <3>2
  <2> QED BY <2>1 DEF Distinct
<1>6. ToSet(a) \cap ToSet(b) = {}
  <2>1. ASSUME NEW i \in 1..k, NEW j \in 1..(Len(s) - k), a[i] = b[j] PROVE FALSE
    <3>1. i \in 1..Len(s) /\ j + k \in 1..Len(s) /\ s[i] = s[j + k]
      BY <1>1, <1>2, <1>3, <2>1
    <3>2. i = j + k
      BY <3>1 DEF Distinct
    <3> QED BY <1>3, <3>2
  <2> QED BY <1>3, <2>1
<1>7. ToSet(a) \cup ToSet(b) \subseteq ToSet(s)
  <2>1. \A i \in 1..k : i \in 1..Len(s) /\ a[i] = s[i]
    BY <1>1, <1>3
  <2>2. \A i \in 1..(Len(s) - k) : i + k \in 1..Len(s) /\ b[i] = s[i + k]
    BY <1>2, <1>3
  <2> QED BY <1>3, <2>1, <2>2
<1>8. ToSet(s) \subseteq ToSet(a) \cup ToSet(b)
  <2>1. ASSUME NEW i \in 1..Len(s) PROVE s[i] \in ToSet(a) \cup ToSet(b)
    <3>1. CASE i <= k
      <4>1. i \in 1..k /\ a[i] = s[i]
        BY <1>1, <1>3, <3>1
      <4> QED BY <1>3, <4>1
    <3>2. CASE ~(i <= k)
      <4>1. i - k \in 1..(Len(s) - k) /\ b[i - k] = s[i]
        BY <1>2, <1>3, <3>2
      <4> QED BY <1>3, <4>1
    <3> QED BY <3>1, <3>2
  <2> QED BY <1>3, <2>1
<1> QED BY <1>1, <1>2, <1>4, <1>5, <1>6, <1>7, <1>8 DEF a, b

LEMMA Tailed ==
  ASSUME NEW s \in Seq(Frames), Distinct(s), s # <<>>
  PROVE  /\ Head(s) \in Frames /\ Head(s) \in ToSet(s)
         /\ Tail(s) \in Seq(Frames) /\ Distinct(Tail(s)) /\ ToSet(Tail(s)) = ToSet(s) \ {Head(s)}
<1>1. 1 \in 0..Len(s) /\ Len(s) \in Nat /\ Head(s) = s[1] /\ 1 \in 1..Len(s)
  OBVIOUS
<1>2. /\ Tail(s) = SubSeq(s, 1 + 1, Len(s))
      /\ SubSeq(s, 1, 1) = <<Head(s)>>
  <2>1. SubSeq(s, 1, 1) = <<Head(s)>>
    <3> DEFINE a == SubSeq(s, 1, 1)
               h == Head(s)
    <3>1. a \in Seq(Frames) /\ Len(a) = 1 /\ a[1] = h
      BY <1>1
    <3>2. <<h>> \in Seq(Frames) /\ Len(<<h>>) = 1 /\ <<h>>[1] = h
      OBVIOUS
    <3> HIDE DEF a, h
    <3>3. \A i \in 1..Len(a) : a[i] = <<h>>[i]
      BY <3>1, <3>2
    <3>4. a = <<h>>
      BY <3>1, <3>2, <3>3, SeqEqual
    <3> QED BY <3>4 DEF a, h
  <2>2. Tail(s) = SubSeq(s, 1 + 1, Len(s))
    BY <1>1
  <2> QED BY <2>1, <2>2
<1>3. Head(s) \in ToSet(s) /\ Head(s) \in Frames
  BY <1>1, Ranges
<1>4. ToSet(<<Head(s)>>) = {Head(s)}
  BY <1>3, Single
<1>5. LET a == SubSeq(s, 1, 1)
          b == SubSeq(s, 1 + 1, Len(s))
      IN  /\ a \in Seq(Frames) /\ Distinct(a) /\ Len(a) = 1
          /\ b \in Seq(Frames) /\ Distinct(b) /\ Len(b) = Len(s) - 1
          /\ ToSet(a) \cap ToSet(b) = {} /\ ToSet(a) \cup ToSet(b) = ToSet(s)
  BY <1>1, Cut
<1> QED BY <1>2, <1>3, <1>4, <1>5

(* The frame that becomes last_nonb is put before those that it skips.     *)
LEMMA Led ==
  ASSUME NEW s \in Seq(Frames), Distinct(s), NEW b \in Nat, b < Len(s)
  PROVE  LET r == <<s[b + 1]>> \o RemoveAt(s, b + 1)
         IN  r \in Seq(Frames) /\ Distinct(r) /\ ToSet(r) = ToSet(s) /\ Len(r) = Len(s)
<1> DEFINE L == Len(s)
           x == SubSeq(s, 1, b)
           y == SubSeq(s, b + 2, L)
           r == <<s[b + 1]>> \o (x \o y)
<1>1. L \in Nat /\ b + 1 \in 1..L
  OBVIOUS
<1>2. x \in Seq(Frames) /\ Len(x) = b /\ \A i \in 1..b : x[i] = s[i]
  OBVIOUS
<1>3. y \in Seq(Frames) /\ Len(y) = L - b - 1 /\ \A i \in 1..(L - b - 1) : y[i] = s[i + b + 1]
  OBVIOUS
<1>4. /\ (b + 1) - 1 = b /\ (b + 1) + 1 = b + 2
      /\ RemoveAt(s, b + 1) = SubSeq(s, 1, (b + 1) - 1) \o SubSeq(s, (b + 1) + 1, L)
  BY <1>1 DEF RemoveAt
<1>5. RemoveAt(s, b + 1) = x \o y
  BY <1>4
<1> HIDE DEF x, y
<1> DEFINE z == x \o y
           e == s[b + 1]
<1>6. /\ z \in Seq(Frames) /\ Len(z) = L - 1
      /\ \A k \in 1..(L - 1) : z[k] = IF k <= b THEN s[k] ELSE s[k + 1]
  <2>1. z \in Seq(Frames)
    BY <1>2, <1>3
  <2>2. /\ Len(z) = Len(x) + Len(y)
        /\ \A k \in 1..(Len(x) + Len(y)) : z[k] = IF k <= Len(x) THEN x[k] ELSE y[k - Len(x)]
    <3>1. x \in Seq(Frames) /\ y \in Seq(Frames)
      BY <1>2, <1>3
    <3> QED BY ONLY <3>1, ConcatProperties
  <2>3. ASSUME NEW k \in 1..(L - 1) PROVE z[k] = IF k <= b THEN s[k] ELSE s[k + 1]
    <3>1. CASE k <= b
      BY <1>1, <1>2, <1>3, <2>2, <3>1
    <3>2. CASE ~(k <= b)
      <4>1. k - b \in 1..(L - b - 1) /\ k - b + b + 1 = k + 1
        BY <1>1, <3>2
      <4>2. z[k] = y[k - b]
        BY <1>1, <1>2, <1>3, <2>2, <3>2
      <4> QED BY <1>3, <3>2, <4>1, <4>2
    <3> QED BY <3>1, <3>2
  <2> QED BY <1>1, <1>2, <1>3, <2>1, <2>2, <2>3
<1> HIDE DEF z
<1>7. e \in Frames /\ <<e>> \in Seq(Frames) /\ Len(<<e>>) = 1 /\ <<e>>[1] = e
  BY <1>1
<1>8. /\ r = <<e>> \o z /\ r \in Seq(Frames) /\ Len(r) = L
      /\ \A k \in 1..L : r[k] = IF k = 1 THEN e ELSE z[k - 1]
  <2>1. r = <<e>> \o z
    BY DEF z
  <2> HIDE DEF r, e
  <2>2. r \in Seq(Frames)
    BY <1>6, <1>7, <2>1
  <2>3. /\ Len(r) = Len(<<e>>) + Len(z)
        /\ \A k \in 1..(Len(<<e>>) + Len(z)) :
              r[k] = IF k <= Len(<<e>>) THEN <<e>>[k] ELSE z[k - Len(<<e>>)]
    BY <1>6, <1>7, <2>1, ConcatProperties
  <2> QED BY <1>1, <1>6, <1>7, <2>1, <2>2, <2>3
<1> HIDE DEF r, e
<1> DEFINE old == [k \in 1..L |-> IF k = 1 THEN b + 1 ELSE IF k <= b + 1 THEN k - 1 ELSE k]
           at  == [k \in 1..L |-> IF k = b + 1 THEN 1 ELSE IF k <= b THEN k + 1 ELSE k]
<1>9. old \in [1..L -> 1..L] /\ at \in [1..L -> 1..L]
  BY <1>1
<1>10. \A k \in 1..L : old[at[k]] = k /\ at[old[k]] = k
  BY <1>1
<1>11. \A k \in 1..L : r[k] = s[old[k]]
  BY <1>1, <1>6, <1>8 DEF e
<1> HIDE DEF old, at
<1>12. Distinct(r)
  <2>1. ASSUME NEW i \in 1..L, NEW j \in 1..L, r[i] = r[j] PROVE i = j
    <3>1. old[i] \in 1..L /\ old[j] \in 1..L /\ s[old[i]] = s[old[j]]
      BY <1>9, <1>11, <2>1
    <3>2. old[i] = old[j]
      BY <3>1 DEF Distinct
    <3> QED BY <1>10, <3>2
  <2> QED BY <1>8, <2>1 DEF Distinct
<1>13. ToSet(r) = ToSet(s)
  <2>1. ToSet(s) = {s[i] : i \in 1..L} /\ ToSet(r) = {r[i] : i \in 1..L}
    BY <1>8, Ranges
  <2>2. ASSUME NEW k \in 1..L PROVE r[k] \in ToSet(s)
    <3>1. old[k] \in 1..L /\ r[k] = s[old[k]]
      BY <1>9, <1>11
    <3> QED BY <2>1, <3>1
  <2>3. ASSUME NEW k \in 1..L PROVE s[k] \in ToSet(r)
    <3>1. at[k] \in 1..L /\ old[at[k]] = k
      BY <1>9, <1>10
    <3>2. s[k] = r[at[k]]
      BY <1>11, <3>1
    <3> QED BY <2>1, <3>1, <3>2
  <2> QED BY <2>1, <2>2, <2>3
<1> QED BY <1>5, <1>8, <1>12, <1>13 DEF r

-----------------------------------------------------------------------------
(* Numbers and contexts                                                    *)

LEMMA Params ==
  /\ SlicetypeLength \in Nat /\ SyncLookahead \in Nat /\ MaxPictures \in Nat
  /\ ThreadFrames \in Nat /\ ThreadFrames > 1 /\ BFrames \in Nat
  /\ NoFrame \notin Frames /\ Frames \subseteq Nat /\ NoFrame \in Some /\ Some \subseteq Nat
  /\ 0 \in Slots /\ MaxPictures \in Slots /\ Slots \subseteq Nat
BY FrameRefsAssumption DEF Frames, NoFrame, Some, Slots

LEMMA Turned == turn \in Contexts => Oldest \in Contexts
<1>1. ThreadFrames \in Nat /\ ThreadFrames > 1
  BY Params
<1>2. \A k \in Int : k % ThreadFrames \in 0..(ThreadFrames - 1)
  BY <1>1
<1> QED BY <1>1, <1>2 DEF Oldest, Contexts

(* The fields of a thread that goes on to pc.                              *)
LEMMA ApiGoes ==
  ASSUME NEW t \in ApiTypes, NEW pc \in ApiSteps, NoFrame \in Some, 0 \in Slots
  PROVE  Go(t, pc) \in ApiTypes
<1> DEFINE t1 == [t EXCEPT !.pc = pc]
           t2 == [t1 EXCEPT !.f = NoFrame]
           t3 == [t2 EXCEPT !.i = 0]
           t4 == [t3 EXCEPT !.n = 0]
<1>1. Go(t, pc) = t4
  BY DEF Go, ApiTypes
<1>2. t1 \in ApiTypes
  BY DEF ApiTypes
<1> HIDE DEF t1
<1>3. t2 \in ApiTypes
  BY <1>2 DEF ApiTypes
<1> HIDE DEF t2
<1>4. t3 \in ApiTypes
  BY <1>3 DEF ApiTypes
<1> HIDE DEF t3
<1>5. t4 \in ApiTypes
  BY <1>4 DEF ApiTypes
<1> QED BY <1>1, <1>5

LEMMA LaGoes ==
  ASSUME NEW t \in LaTypes, NEW pc \in LaSteps, NoFrame \in Some, 0 \in Slots
  PROVE  Go(t, pc) \in LaTypes
<1> DEFINE t1 == [t EXCEPT !.pc = pc]
           t2 == [t1 EXCEPT !.f = NoFrame]
           t3 == [t2 EXCEPT !.i = 0]
           t4 == [t3 EXCEPT !.n = 0]
<1>1. Go(t, pc) = t4
  BY DEF Go, LaTypes
<1>2. t1 \in LaTypes
  BY DEF LaTypes
<1> HIDE DEF t1
<1>3. t2 \in LaTypes
  BY <1>2 DEF LaTypes
<1> HIDE DEF t2
<1>4. t3 \in LaTypes
  BY <1>3 DEF LaTypes
<1> HIDE DEF t3
<1>5. t4 \in LaTypes
  BY <1>4 DEF LaTypes
<1> QED BY <1>1, <1>5

LEMMA Fields ==
  ASSUME NEW t, NEW pc, t \in ApiTypes \/ t \in LaTypes
  PROVE  /\ Go(t, pc).pc = pc /\ Go(t, pc).f = NoFrame /\ Go(t, pc).i = 0
         /\ Go(t, pc).after = t.after /\ Go(t, pc).b = t.b
<1>1. Go(t, pc).pc = pc /\ Go(t, pc).f = NoFrame
  BY DEF ApiTypes, LaTypes, Go
<1>2. Go(t, pc).i = 0 /\ Go(t, pc).after = t.after
  BY DEF ApiTypes, LaTypes, Go
<1>3. Go(t, pc).b = t.b
  BY DEF ApiTypes, LaTypes, Go
<1> QED BY <1>1, <1>2, <1>3

LEMMA Goes ==
  /\ \A t \in ApiTypes, pc \in ApiSteps :
        /\ Go(t, pc) \in ApiTypes /\ Go(t, pc).pc = pc /\ Go(t, pc).f = NoFrame
        /\ Go(t, pc).i = 0 /\ Go(t, pc).after = t.after
  /\ \A t \in LaTypes, pc \in LaSteps :
        /\ Go(t, pc) \in LaTypes /\ Go(t, pc).pc = pc /\ Go(t, pc).f = NoFrame
        /\ Go(t, pc).i = 0 /\ Go(t, pc).after = t.after /\ Go(t, pc).b = t.b
BY Params, ApiGoes, LaGoes, Fields

-----------------------------------------------------------------------------
(* Steps after which every frame is where it was.                          *)

Still ==
  /\ UNCHANGED memory
  /\ Stream' = Stream /\ Nonb' = Nonb /\ Popped' = Popped /\ Cleared' = Cleared
  /\ Pushed(api)' = Pushed(api) /\ Pushed(la)' = Pushed(la)

LEMMA StillKeeps ==
  ASSUME Places, Counts, Still
  PROVE  Places' /\ CountsOf(count, Stream, Nonb)'
<1>1. unused' = unused /\ count' = count /\ made' = made /\ Used' = Used
  BY DEF Still, memory, Used
<1>2. /\ Stream' = Stream /\ Nonb' = Nonb /\ Popped' = Popped /\ Cleared' = Cleared
      /\ Pushed(api)' = Pushed(api) /\ Pushed(la)' = Pushed(la)
  BY DEF Still
<1>3. Places'
  BY <1>1, <1>2 DEF Places
<1> QED BY <1>1, <1>2, <1>3 DEF Counts

LEMMA EncodeCallStep ==
  ASSUME IInv, EncodeCall
  PROVE  IInv'
<1>1. /\ UNCHANGED <<count, unused, made, waiting, ready, lastNonb, exit, slot, input, la>>
      /\ turn' = Oldest /\ api.pc = "idle" /\ ~exit /\ input < MaxPictures
      /\ api' = Go(api, "pop")
  BY DEF EncodeCall, memory, ApiAt, Oldest
<1>2. api' \in ApiTypes /\ api'.pc = "pop" /\ api'.i = 0 /\ api'.f = NoFrame
  BY <1>1, Goes DEF IInv, Typed, ApiSteps
<1>3. Typed'
  BY <1>1, <1>2, Turned DEF IInv, Typed
<1>4. Control'
  BY <1>1, <1>2 DEF IInv, Control, Popping, Pushing
<1>5. Ring'
  BY <1>1, <1>2 DEF IInv, Ring, Popping, Pushing, Empty
<1>6. Carried = {} /\ Carried' = {} /\ Working' = Working
  BY <1>1, <1>2 DEF Carried, Working
<1>7. Once'
  BY <1>1, <1>6 DEF IInv, Once, OneSlot
<1>8. Still
  BY <1>1, <1>2, <1>6 DEF Still, memory, Stream, Nonb, Pushed, Popped, Cleared
<1>9. Places' /\ Counts'
  BY <1>2, <1>8, StillKeeps DEF IInv, Counts
<1>10. Loaded'
  BY <1>1, <1>2, <1>8 DEF IInv, Loaded, Still
<1>11. Index'
  BY <1>1, <1>2 DEF IInv, Index, Gap, Extra
<1> QED BY <1>3, <1>4, <1>5, <1>7, <1>9, <1>10, <1>11 DEF IInv

LEMMA PopFoundStep ==
  ASSUME IInv, PopFound
  PROVE  IInv'
<1>1. /\ UNCHANGED <<memory, lists, la>>
      /\ api.pc = "pop" /\ unused[0] # NoFrame /\ api' = [api EXCEPT !.pc = "last"]
  BY DEF PopFound, ApiAt
<1>2. UNCHANGED <<count, unused, made, waiting, ready, lastNonb, exit, slot, turn, input, la>>
  BY <1>1 DEF memory, lists
<1>3. Typed'
  BY <1>1, <1>2 DEF IInv, Typed, ApiTypes, ApiSteps
<1>4. api'.pc = "last" /\ api'.i = api.i /\ api.i = 0 /\ Oldest' = Oldest
  BY <1>1, <1>2 DEF IInv, Typed, ApiTypes, Control, Oldest
<1>5. Control'
  BY <1>1, <1>2, <1>4 DEF IInv, Control, Popping, Pushing
<1>6. Ring'
  BY <1>1, <1>2, <1>4 DEF IInv, Ring, Popping, Pushing, Empty
<1>7. Carried = {} /\ Carried' = {} /\ Working' = Working
  BY <1>1, <1>2, <1>4 DEF Carried, Working
<1>8. Once'
  BY <1>2, <1>7 DEF IInv, Once, OneSlot
<1>9. Still
  BY <1>1, <1>2, <1>4, <1>7 DEF Still, memory, Stream, Nonb, Pushed, Popped, Cleared
<1>10. Places' /\ Counts'
  BY <1>4, <1>9, StillKeeps DEF IInv, Counts
<1>11. Loaded'
  BY <1>2, <1>4, <1>9 DEF IInv, Loaded, Still
<1>12. Index'
  BY <1>1, <1>2, <1>4 DEF IInv, Index, Gap, Extra
<1> QED BY <1>3, <1>5, <1>6, <1>8, <1>10, <1>11, <1>12 DEF IInv

LEMMA PopScanStep ==
  ASSUME IInv, PopScan
  PROVE  IInv'
<1>1. /\ UNCHANGED <<memory, lists, la>>
      /\ api.pc = "last"
      /\ \/ unused[api.i + 1] # NoFrame /\ api' = [api EXCEPT !.i = @ + 1]
         \/ api' = [api EXCEPT !.pc = "read"]
  BY DEF PopScan, ApiAt
<1>2. UNCHANGED <<count, unused, made, waiting, ready, lastNonb, exit, slot, turn, input, la>>
  BY <1>1 DEF memory, lists
<1>3. api.i \in Slots /\ api.i + 1 \in Slots
  <2>1. /\ api.i \in 0..MaxPictures /\ MaxPictures \in Nat
        /\ unused[api.i] # NoFrame /\ unused[MaxPictures] = NoFrame
    BY <1>1, Params DEF IInv, Typed, ApiTypes, Control, Index, Slots
  <2> QED BY <2>1 DEF Slots
<1>4. Typed'
  BY <1>1, <1>2, <1>3 DEF IInv, Typed, ApiTypes, ApiSteps
<1>5. api'.pc \in {"last", "read"} /\ unused[api'.i] # NoFrame /\ Oldest' = Oldest
  BY <1>1, <1>2 DEF IInv, Typed, ApiTypes, Control, Oldest
<1>6. Control'
  BY <1>1, <1>2, <1>5 DEF IInv, Control, Popping, Pushing
<1>7. Ring'
  BY <1>1, <1>2, <1>5 DEF IInv, Ring, Popping, Pushing, Empty
<1>8. Carried = {} /\ Carried' = {} /\ Working' = Working
  BY <1>1, <1>2, <1>5 DEF Carried, Working
<1>9. Once'
  BY <1>2, <1>8 DEF IInv, Once, OneSlot
<1>10. Still
  BY <1>1, <1>2, <1>5, <1>8 DEF Still, memory, Stream, Nonb, Pushed, Popped, Cleared
<1>11. Places' /\ Counts'
  BY <1>5, <1>10, StillKeeps DEF IInv, Counts
<1>12. Loaded'
  BY <1>2, <1>5, <1>10 DEF IInv, Loaded, Still
<1>13. Index'
  BY <1>1, <1>2, <1>5 DEF IInv, Index, Gap, Extra
<1> QED BY <1>4, <1>6, <1>7, <1>9, <1>11, <1>12, <1>13 DEF IInv

LEMMA FlushCallStep ==
  ASSUME IInv, FlushCall
  PROVE  IInv'
<1>1. /\ UNCHANGED <<count, unused, made, waiting, ready, lastNonb, slot, input, la>>
      /\ turn' = Oldest /\ api.pc = "idle" /\ exit' = TRUE
      /\ api' = Go(api, "get")
  BY DEF FlushCall, memory, ApiAt, Oldest
<1>2. api' \in ApiTypes /\ api'.pc = "get" /\ api'.i = 0 /\ api'.f = NoFrame
  BY <1>1, Goes DEF IInv, Typed, ApiSteps
<1>3. Typed'
  BY <1>1, <1>2, Turned DEF IInv, Typed
<1>4. Control'
  BY <1>1, <1>2 DEF IInv, Control, Popping, Pushing
<1>5. Ring'
  BY <1>1, <1>2 DEF IInv, Ring, Popping, Pushing, Empty
<1>6. Carried = {} /\ Carried' = {} /\ Working' = Working
  BY <1>1, <1>2 DEF Carried, Working
<1>7. Once'
  BY <1>1, <1>6 DEF IInv, Once, OneSlot
<1>8. Still
  BY <1>1, <1>2, <1>6 DEF Still, memory, Stream, Nonb, Pushed, Popped, Cleared
<1>9. Places' /\ Counts'
  BY <1>2, <1>8, StillKeeps DEF IInv, Counts
<1>10. Loaded'
  BY <1>1, <1>2, <1>8 DEF IInv, Loaded, Still
<1>11. Index'
  BY <1>1, <1>2 DEF IInv, Index, Gap, Extra
<1> QED BY <1>3, <1>4, <1>5, <1>7, <1>9, <1>10, <1>11 DEF IInv

LEMMA CloseCallStep ==
  ASSUME IInv, CloseCall
  PROVE  IInv'
<1>1. /\ UNCHANGED <<count, unused, made, waiting, ready, lastNonb, slot, turn, input, la>>
      /\ api.pc = "idle" /\ exit' = TRUE
      /\ api' = Go(api, "join")
  BY DEF CloseCall, memory, ApiAt
<1>2. api' \in ApiTypes /\ api'.pc = "join" /\ api'.i = 0 /\ api'.f = NoFrame
  BY <1>1, Goes DEF IInv, Typed, ApiSteps
<1>3. Typed'
  BY <1>1, <1>2 DEF IInv, Typed
<1>4. Control'
  BY <1>1, <1>2 DEF IInv, Control, Popping, Pushing
<1>5. Ring'
  BY <1>1, <1>2 DEF IInv, Ring, Popping, Pushing, Empty
<1>6. Carried = {} /\ Carried' = {} /\ Working' = Working
  BY <1>1, <1>2 DEF Carried, Working
<1>7. Once'
  BY <1>1, <1>6 DEF IInv, Once, OneSlot
<1>8. Still
  BY <1>1, <1>2, <1>6 DEF Still, memory, Stream, Nonb, Pushed, Popped, Cleared
<1>9. Places' /\ Counts'
  BY <1>2, <1>8, StillKeeps DEF IInv, Counts
<1>10. Loaded'
  BY <1>1, <1>2, <1>8 DEF IInv, Loaded, Still
<1>11. Index'
  BY <1>1, <1>2 DEF IInv, Index, Gap, Extra
<1> QED BY <1>3, <1>4, <1>5, <1>7, <1>9, <1>10, <1>11 DEF IInv

-----------------------------------------------------------------------------
(* x264_frame_pop_unused                                                   *)

LEMMA PopEmptyStep ==
  ASSUME IInv, PopEmpty
  PROVE  IInv'
<1>1. /\ UNCHANGED <<count, unused, lists, la>>
      /\ api.pc = "pop" /\ made' = made + 1
      /\ api' = [api EXCEPT !.pc = "count", !.f = made + 1]
  BY DEF PopEmpty, ApiAt
<1>2. UNCHANGED <<waiting, ready, lastNonb, exit, slot, turn, input>> /\ Oldest' = Oldest
  BY <1>1 DEF lists, Oldest
<1>3. /\ made \in Nat /\ input \in Nat /\ made + 1 <= MaxPictures
      /\ made + 1 \in Frames /\ made + 1 \in Some
  <2>1. made \in Nat /\ input \in Nat /\ input < MaxPictures /\ input + 0 - made >= 0
    BY <1>1 DEF IInv, Typed, Control, Popping, Index, Gap, Extra
  <2> QED BY <2>1, Params DEF Frames, Some
<1>4. api' \in ApiTypes /\ api'.pc = "count" /\ api'.f = made + 1
  BY <1>1, <1>3 DEF IInv, Typed, ApiTypes, ApiSteps
<1>5. Typed'
  BY <1>1, <1>2, <1>3, <1>4 DEF IInv, Typed
<1>6. Control'
  BY <1>1, <1>2, <1>3, <1>4 DEF IInv, Control, Popping, Pushing
<1>7. Ring'
  BY <1>1, <1>2, <1>4 DEF IInv, Ring, Popping, Pushing, Empty
<1>8. Carried = {} /\ Carried' = {} /\ Working' = Working
  BY <1>1, <1>2, <1>4 DEF Carried, Working
<1>9. Once'
  BY <1>2, <1>8 DEF IInv, Once, OneSlot
<1>10. /\ Stream' = Stream /\ Nonb' = Nonb /\ Used' = Used
       /\ Popped = {} /\ Popped' = {made + 1} /\ Cleared = {} /\ Cleared' = {}
       /\ Pushed(api) = {} /\ Pushed(api)' = {} /\ Pushed(la)' = Pushed(la)
  BY <1>1, <1>2, <1>4, <1>8 DEF Used, Stream, Nonb, Pushed, Popped, Cleared
<1>11. Places'
  <2>1. PlacesOf(unused, Used, {}, Pushed(la), {}, {}, made)
    BY <1>10 DEF IInv, Places
  <2>2. /\ \A f \in Used \cup Pushed(la) : f \in Nat
        /\ \A i \in Slots : unused[i] \in Nat
    <3>1. Used \subseteq Some /\ Pushed(la) \subseteq Some
      BY <1>1, <1>8 DEF IInv, Typed, LaTypes, Used, Stream, Nonb, Pushed, Working, ToSet, Some
    <3> QED BY <3>1, Params DEF IInv, Typed
  <2>3. PlacesOf(unused, Used, {}, Pushed(la), {made + 1}, {}, made + 1)
    BY <1>3, <2>1, <2>2 DEF PlacesOf
  <2> QED BY <1>1, <1>10, <2>3 DEF Places
<1>12. Counts'
  BY <1>1, <1>4, <1>10 DEF IInv, Counts
<1>13. Loaded'
  BY <1>1, <1>4, <1>10 DEF IInv, Loaded
<1>14. Index'
  <2>1. Gap' = Gap
    BY <1>1, <1>2, <1>3, <1>4 DEF Gap, Extra
  <2> QED BY <1>1, <1>2, <1>3, <1>4, <2>1 DEF IInv, Index
<1> QED BY <1>5, <1>6, <1>7, <1>9, <1>11, <1>12, <1>13, <1>14 DEF IInv

LEMMA PopReadStep ==
  ASSUME IInv, PopRead
  PROVE  IInv'
<1>1. /\ UNCHANGED <<memory, lists, la>>
      /\ api.pc = "read" /\ api' = [api EXCEPT !.pc = "clear", !.f = unused[api.i]]
  BY DEF PopRead, ApiAt
<1>2. /\ UNCHANGED <<count, unused, made, waiting, ready, lastNonb, exit, slot, turn, input>>
      /\ Oldest' = Oldest
  BY <1>1 DEF memory, lists, Oldest
<1>3. api.i \in Slots /\ unused[api.i] \in Frames /\ unused[api.i] # NoFrame
  BY <1>1 DEF IInv, Typed, ApiTypes, Control, Some
<1>4. /\ api' \in ApiTypes /\ api'.pc = "clear" /\ api'.i = api.i /\ api'.f = unused[api.i]
  BY <1>1, <1>3 DEF IInv, Typed, ApiTypes, ApiSteps, Some
<1>5. Typed'
  BY <1>1, <1>2, <1>4 DEF IInv, Typed
<1>6. Control'
  BY <1>1, <1>2, <1>3, <1>4 DEF IInv, Control, Popping, Pushing
<1>7. Ring'
  BY <1>1, <1>2, <1>4 DEF IInv, Ring, Popping, Pushing, Empty
<1>8. Carried = {} /\ Carried' = {} /\ Working' = Working
  BY <1>1, <1>2, <1>4 DEF Carried, Working
<1>9. Once'
  BY <1>2, <1>8 DEF IInv, Once, OneSlot
<1>10. /\ Stream' = Stream /\ Nonb' = Nonb /\ Used' = Used
       /\ Popped = {} /\ Popped' = {unused[api.i]} /\ Cleared = {} /\ Cleared' = {api.i}
       /\ Pushed(api) = {} /\ Pushed(api)' = {} /\ Pushed(la)' = Pushed(la)
  BY <1>1, <1>2, <1>4, <1>8 DEF Used, Stream, Nonb, Pushed, Popped, Cleared
<1>11. Places'
  <2>1. PlacesOf(unused, Used, {}, Pushed(la), {}, {}, made)
    BY <1>10 DEF IInv, Places
  <2>2. PlacesOf(unused, Used, {}, Pushed(la), {unused[api.i]}, {api.i}, made)
    BY <1>3, <2>1 DEF PlacesOf
  <2> QED BY <1>2, <1>10, <2>2 DEF Places
<1>12. Counts'
  BY <1>2, <1>4, <1>10 DEF IInv, Counts
<1>13. Loaded'
  BY <1>1, <1>2, <1>4, <1>10 DEF IInv, Loaded
<1>14. Index'
  BY <1>1, <1>2, <1>4 DEF IInv, Index, Gap, Extra
<1> QED BY <1>5, <1>6, <1>7, <1>9, <1>11, <1>12, <1>13, <1>14 DEF IInv

(* An entry of the list changes: the number of entries below k, and the    *)
(* bound on k.                                                             *)
LEMMA FilledFacts ==
  ASSUME NEW un, NEW k \in Slots
  PROVE  IsFiniteSet(Filled(un, k)) /\ Cardinality(Filled(un, k)) \in Nat
<1>1. k \in Nat
  BY Params
<1>2. IsFiniteSet(0..(k - 1))
  BY <1>1, FS_Interval
<1>3. Filled(un, k) \subseteq 0..(k - 1)
  BY DEF Filled
<1>4. IsFiniteSet(Filled(un, k))
  BY <1>2, <1>3, FS_Subset
<1> QED BY <1>4, FS_CardinalityType

LEMMA Emptied ==
  ASSUME NEW un \in [Slots -> Some], NEW i \in Slots, NEW k \in Slots, NEW d \in Int,
         Near(un, k, d)
  PROVE  Near([un EXCEPT ![i] = NoFrame], k, d + 1)
<1> DEFINE v == [un EXCEPT ![i] = NoFrame]
           A == Filled(un, k)
           B == Filled(v, k)
<1>1. k \in Nat /\ Slots = 0..MaxPictures /\ MaxPictures \in Nat
  BY Params DEF Slots
<1>2. B = A \ {i}
  BY <1>1 DEF Filled
<1>3. IsFiniteSet(A) /\ Cardinality(A) \in Nat /\ Cardinality(B) \in Nat
  BY FilledFacts
<1>4. Cardinality(B) = Cardinality(A) \/ Cardinality(B) = Cardinality(A) - 1
  BY <1>2, <1>3, FS_RemoveElement
<1>5. k <= Cardinality(A) + d
  BY DEF Near
<1> HIDE DEF A, B
<1>6. k <= Cardinality(B) + (d + 1)
  BY <1>1, <1>3, <1>4, <1>5
<1> QED BY <1>6 DEF Near, B

LEMMA FilledUp ==
  ASSUME NEW un \in [Slots -> Some], NEW i \in Slots, NEW k \in Slots, NEW d \in Int,
         NEW f \in Frames, Near(un, k, d)
  PROVE  Near([un EXCEPT ![i] = f], k, d)
<1> DEFINE v == [un EXCEPT ![i] = f]
           A == Filled(un, k)
           B == Filled(v, k)
<1>1. k \in Nat /\ Slots = 0..MaxPictures /\ MaxPictures \in Nat /\ f # NoFrame
  BY Params DEF Slots
<1>2. A \subseteq B
  BY <1>1 DEF Filled
<1>3. IsFiniteSet(A) /\ IsFiniteSet(B) /\ Cardinality(A) \in Nat /\ Cardinality(B) \in Nat
  BY FilledFacts
<1>4. Cardinality(A) <= Cardinality(B)
  BY <1>2, <1>3, FS_Subset
<1>5. k <= Cardinality(A) + d
  BY DEF Near
<1> HIDE DEF A, B
<1>6. k <= Cardinality(B) + d
  BY <1>1, <1>3, <1>4, <1>5
<1> QED BY <1>6 DEF Near, B

LEMMA PopClearStep ==
  ASSUME IInv, PopClear
  PROVE  IInv'
<1>1. /\ UNCHANGED <<count, made, lists, la>>
      /\ api.pc = "clear" /\ api' = [api EXCEPT !.pc = "count"]
      /\ unused' = [unused EXCEPT ![api.i] = NoFrame]
  BY DEF PopClear, ApiAt
<1>2. /\ UNCHANGED <<waiting, ready, lastNonb, exit, slot, turn, input>>
      /\ Oldest' = Oldest
  BY <1>1 DEF lists, Oldest
<1>3. api.i \in Slots /\ api.f \in Frames
  BY <1>1 DEF IInv, Typed, ApiTypes, Control
<1>4. /\ api' \in ApiTypes /\ api'.pc = "count" /\ api'.i = api.i /\ api'.f = api.f
  BY <1>1, <1>3 DEF IInv, Typed, ApiTypes, ApiSteps, Some
<1>5. Typed'
  BY <1>1, <1>2, <1>4, Params DEF IInv, Typed
<1>6. Control'
  BY <1>1, <1>2, <1>3, <1>4 DEF IInv, Control, Popping, Pushing
<1>7. Ring'
  BY <1>1, <1>2, <1>4 DEF IInv, Ring, Popping, Pushing, Empty
<1>8. Carried = {} /\ Carried' = {} /\ Working' = Working
  BY <1>1, <1>2, <1>4 DEF Carried, Working
<1>9. Once'
  BY <1>2, <1>8 DEF IInv, Once, OneSlot
<1>10. /\ Stream' = Stream /\ Nonb' = Nonb /\ Used' = Used
       /\ Popped = {api.f} /\ Popped' = {api.f} /\ Cleared = {api.i} /\ Cleared' = {}
       /\ Pushed(api) = {} /\ Pushed(api)' = {} /\ Pushed(la)' = Pushed(la)
  BY <1>1, <1>2, <1>4, <1>8 DEF Used, Stream, Nonb, Pushed, Popped, Cleared
<1>11. Places'
  <2>1. PlacesOf(unused, Used, {}, Pushed(la), {api.f}, {api.i}, made)
    BY <1>10 DEF IInv, Places
  <2> DEFINE v == [unused EXCEPT ![api.i] = NoFrame]
  <2>2. \A j \in Slots : v[j] # NoFrame => v[j] = unused[j] /\ j # api.i
    BY <1>3 DEF IInv, Typed
  <2> HIDE DEF v
  <2>3. PlacesOf(v, Used, {}, Pushed(la), {api.f}, {}, made)
    BY <2>1, <2>2 DEF PlacesOf
  <2> QED BY <1>1, <1>10, <2>3 DEF Places, v
<1>12. Counts'
  BY <1>1, <1>4, <1>10 DEF IInv, Counts
<1>13. Loaded'
  BY <1>1, <1>4, <1>10 DEF IInv, Loaded
<1>14. Index'
  <2>1. /\ Gap \in Int /\ Gap' = Gap + 1
        /\ input \in Nat /\ made \in Nat
    BY <1>1, <1>2, <1>4 DEF IInv, Typed, Gap, Extra
  <2>2. la.i \in Slots /\ unused \in [Slots -> Some]
    BY DEF IInv, Typed, LaTypes
  <2>3. ASSUME la.pc \in {"scan", "write"} PROVE Near(unused, la.i, Gap)'
    <3>1. Near(unused, la.i, Gap)
      BY <2>3 DEF IInv, Index
    <3> DEFINE u == unused
               n == la.i
               g == Gap
    <3>2. Near([u EXCEPT ![api.i] = NoFrame], n, g + 1)
      BY <1>3, <2>1, <2>2, <3>1, Emptied
    <3> QED BY <1>1, <2>1, <3>2
  <2>4. unused'[MaxPictures] = NoFrame
    BY <1>1, <1>3, <2>2, Params DEF IInv, Index
  <2> QED BY <1>1, <1>2, <1>4, <2>1, <2>3, <2>4 DEF IInv, Index
<1> QED BY <1>5, <1>6, <1>7, <1>9, <1>11, <1>12, <1>13, <1>14 DEF IInv

LEMMA PopCountStep ==
  ASSUME IInv, PopCount
  PROVE  IInv'
<1>1. /\ UNCHANGED <<unused, made, lists, la>>
      /\ api.pc = "count" /\ api' = [api EXCEPT !.pc = "put"]
      /\ count' = [count EXCEPT ![api.f] = 1]
  BY DEF PopCount, ApiAt
<1>2. /\ UNCHANGED <<waiting, ready, lastNonb, exit, slot, turn, input>>
      /\ Oldest' = Oldest
  BY <1>1 DEF lists, Oldest
<1>3. api.f \in Frames /\ count \in [Frames -> Int]
  BY <1>1 DEF IInv, Typed, Control
<1>4. /\ api' \in ApiTypes /\ api'.pc = "put" /\ api'.i = api.i /\ api'.f = api.f
  BY <1>1 DEF IInv, Typed, ApiTypes, ApiSteps
<1>5. Typed'
  <2>1. count' \in [Frames -> Int]
    BY <1>1, <1>3
  <2> QED BY <1>1, <1>2, <1>4, <2>1 DEF IInv, Typed
<1>6. Control'
  BY <1>1, <1>2, <1>3, <1>4 DEF IInv, Control, Popping, Pushing
<1>7. Ring'
  BY <1>1, <1>2, <1>4 DEF IInv, Ring, Popping, Pushing, Empty
<1>8. Carried = {} /\ Carried' = {api.f} /\ Working' = Working
  BY <1>1, <1>2, <1>4 DEF Carried, Working
<1>9. /\ Stream' = Stream \cup {api.f} /\ Nonb' = Nonb /\ Used' = Used \cup {api.f}
      /\ Popped = {api.f} /\ Popped' = {} /\ Cleared = {} /\ Cleared' = {}
      /\ Pushed(api) = {} /\ Pushed(api)' = {} /\ Pushed(la)' = Pushed(la)
  <2>1. Stream' = Stream \cup {api.f}
    BY <1>2, <1>8 DEF Stream
  <2>2. Nonb' = Nonb
    BY <1>1, <1>2, <1>4 DEF Nonb
  <2> QED BY <1>1, <1>4, <2>1, <2>2 DEF Used, Pushed, Popped, Cleared
<1>10. PlacesOf(unused, Used, {}, Pushed(la), {api.f}, {}, made)
  BY <1>9 DEF IInv, Places
<1>11. api.f \notin Used /\ api.f \notin Stream /\ api.f \notin Nonb
  BY <1>10 DEF PlacesOf, Used
<1>12. Once'
  BY <1>2, <1>8, <1>11 DEF IInv, Once, OneSlot, Stream
<1>13. Places'
  <2>1. PlacesOf(unused, Used \cup {api.f}, {}, Pushed(la), {}, {}, made)
    BY <1>10 DEF PlacesOf
  <2> QED BY <1>1, <1>9, <2>1 DEF Places
<1>14. Counts'
  <2>1. /\ \A f \in Stream : count'[f] = count[f]
        /\ \A f \in Nonb : count'[f] = count[f]
        /\ count'[api.f] = 1
    <3>1. Stream \subseteq Frames /\ Nonb \subseteq Frames
      BY <1>1, <1>8 DEF IInv, Typed, Stream, Nonb, Working, ToSet, Some
    <3> QED BY <1>1, <1>3, <1>11, <3>1
  <2>2. CountsOf(count', Stream \cup {api.f}, Nonb)
    BY <1>11, <2>1 DEF IInv, Counts, CountsOf
  <2> QED BY <1>4, <1>9, <1>11, <2>2 DEF Counts
<1>15. Loaded'
  <2>1. la.pc = "store" => la.f \in Nonb /\ la.f \in Frames
    BY DEF IInv, Control, Pushing, Nonb, Frames, NoFrame
  <2>2. la.pc = "store" => count'[la.f] = count[la.f]
    BY <1>1, <1>3, <1>11, <2>1
  <2>3. la.pc = "store" /\ la.f \notin Stream => la.f \notin Stream'
    BY <1>9, <1>11, <2>1
  <2> QED BY <1>1, <1>4, <2>2, <2>3 DEF IInv, Loaded
<1>16. Index'
  <2>1. Gap' = Gap
    BY <1>1, <1>2, <1>4 DEF Gap, Extra
  <2> QED BY <1>1, <1>2, <1>4, <2>1 DEF IInv, Index
<1> QED BY <1>5, <1>6, <1>7, <1>12, <1>13, <1>14, <1>15, <1>16 DEF IInv

-----------------------------------------------------------------------------
(* A picture goes through the lookahead and the contexts.                  *)

LEMMA PutStep ==
  ASSUME IInv, Put
  PROVE  IInv'
<1> DEFINE next == IF input + 1 <= SlicetypeLength + SyncLookahead THEN "idle" ELSE "get"
<1>1. /\ UNCHANGED <<count, unused, made, ready, lastNonb, exit, slot, turn, la>>
      /\ api.pc = "put" /\ waiting' = Append(waiting, api.f) /\ input' = input + 1
      /\ api' = Go(api, next)
      /\ Oldest' = Oldest
  BY DEF Put, ApiAt, memory, Oldest
<1>2. next \in {"idle", "get"}
  OBVIOUS
<1>3. /\ input \in Nat /\ input < MaxPictures /\ ~exit /\ api.f \in Frames
      /\ waiting \in Seq(Frames) /\ Distinct(waiting) /\ api \in ApiTypes /\ made \in Nat
  BY <1>1 DEF IInv, Typed, Control, Popping, Once
<1>4. api' \in ApiTypes /\ api'.pc = next /\ api'.i = 0 /\ api'.f = NoFrame
  BY <1>1, <1>2, <1>3, Goes DEF ApiSteps
<1>5. api.f \notin ToSet(waiting) /\ api.f \notin ToSet(ready) /\ api.f \notin Working
  BY <1>1 DEF IInv, Once, Carried
<1>6. /\ waiting' \in Seq(Frames) /\ Len(waiting') = Len(waiting) + 1 /\ Distinct(waiting')
      /\ ToSet(waiting') = ToSet(waiting) \cup {api.f}
      /\ Len(waiting) > 0 => waiting'[1] = waiting[1]
      /\ Len(waiting) \in Nat
  BY <1>1, <1>3, <1>5, Appended, Ranges
<1>7. Typed'
  BY <1>1, <1>3, <1>4, <1>6 DEF IInv, Typed
<1>8. Control'
  <2>1. la.pc \notin {"idle", "done"} => la.b \in Int /\ la.b >= 0 /\ la.b + 1 <= Len(waiting)
    BY DEF IInv, Typed, LaTypes, Control
  <2>2. la.pc \notin {"idle", "done"} => la.b >= 0 /\ la.b + 1 <= Len(waiting')
    BY <1>6, <2>1
  <2>3. la.pc = "hold" => lastNonb = waiting'[1]
    BY <1>6, <2>1 DEF IInv, Control
  <2> QED BY <1>1, <1>2, <1>4, <2>2, <2>3 DEF IInv, Control, Popping, Pushing
<1>9. Ring'
  <2>1. turn \in Contexts /\ Oldest \in Contexts
    BY Turned DEF IInv, Typed
  <2>2. SlicetypeLength + SyncLookahead \in Nat
    BY Params
  <2> HIDE DEF next
  <2>3. /\ next = "get" => ~(input + 1 <= SlicetypeLength + SyncLookahead)
        /\ next = "idle" => input + 1 <= SlicetypeLength + SyncLookahead
    BY DEF next
  <2>4. Empty(turn)
    BY <1>1 DEF IInv, Ring, Popping
  <2>5. input + 1 <= SlicetypeLength + SyncLookahead => \A c \in Contexts : Empty(c)
    BY <1>3, <2>2 DEF IInv, Ring
  <2> QED BY <1>1, <1>2, <1>3, <1>4, <2>1, <2>2, <2>3, <2>4, <2>5 DEF Ring, Popping, Pushing, Empty
<1> HIDE DEF next
<1>10. Carried = {api.f} /\ Carried' = {} /\ Working' = Working
  BY <1>1, <1>2, <1>4 DEF Carried, Working
<1>11. Once'
  BY <1>1, <1>5, <1>6, <1>10 DEF IInv, Once, OneSlot
<1>12. Still
  <2>1. Stream' = Stream
    BY <1>1, <1>6, <1>10 DEF Stream
  <2> QED BY <1>1, <1>2, <1>4, <2>1 DEF Still, memory, Nonb, Pushed, Popped, Cleared
<1>13. Places' /\ Counts'
  BY <1>2, <1>4, <1>12, StillKeeps DEF IInv, Counts
<1>14. Loaded'
  BY <1>1, <1>2, <1>4, <1>12 DEF IInv, Loaded, Still
<1>15. Index'
  <2>1. Gap' = Gap
    BY <1>1, <1>2, <1>3, <1>4 DEF Gap, Extra
  <2>2. input' <= MaxPictures
    BY <1>1, <1>3, Params
  <2> QED BY <1>1, <1>2, <1>4, <2>1, <2>2 DEF IInv, Index
<1> QED BY <1>7, <1>8, <1>9, <1>11, <1>13, <1>14, <1>15 DEF IInv

LEMMA GetStep ==
  ASSUME IInv, Get
  PROVE  IInv'
<1>1. /\ UNCHANGED <<memory, waiting, lastNonb, exit, turn, input, la>>
      /\ api.pc = "get" /\ api' = Go(api, "end") /\ Oldest' = Oldest
      /\ \/ UNCHANGED <<ready, slot>>
         \/ /\ ready # <<>> /\ slot' = [slot EXCEPT ![turn] = Head(ready)] /\ ready' = Tail(ready)
  BY DEF Get, ApiAt, Oldest
<1>2. UNCHANGED <<count, unused, made>>
  BY <1>1 DEF memory
<1>3. /\ ready \in Seq(Frames) /\ Distinct(ready) /\ slot \in [Contexts -> Some]
      /\ turn \in Contexts /\ api \in ApiTypes /\ slot[turn] = NoFrame
  BY <1>1 DEF IInv, Typed, Once, Ring, Empty
<1>4. api' \in ApiTypes /\ api'.pc = "end" /\ api'.i = 0 /\ api'.f = NoFrame
  BY <1>1, <1>3, Goes DEF ApiSteps
<1>5. /\ ready' \in Seq(Frames) /\ Distinct(ready') /\ slot' \in [Contexts -> Some]
      /\ Working' \cup ToSet(ready') = Working \cup ToSet(ready)
      /\ Working' \cap ToSet(ready') = {}
      /\ OneSlot'
  <2>1. CASE UNCHANGED <<ready, slot>>
    BY <1>3, <2>1 DEF IInv, Once, Working, OneSlot
  <2>2. CASE ready # <<>> /\ slot' = [slot EXCEPT ![turn] = Head(ready)] /\ ready' = Tail(ready)
    <3> DEFINE h == Head(ready)
    <3>1. /\ h \in Frames /\ h \in ToSet(ready) /\ ready' \in Seq(Frames) /\ Distinct(ready')
          /\ ToSet(ready') = ToSet(ready) \ {h}
      BY <1>3, <2>2, Tailed
    <3> HIDE DEF h
    <3>2. slot' = [slot EXCEPT ![turn] = h] /\ h # NoFrame /\ h \in Some
      BY <2>2, <3>1, Params DEF h, Some
    <3>3. Working' = Working \cup {h}
      <4>1. \A c \in Contexts : slot'[c] = IF c = turn THEN h ELSE slot[c]
        BY <1>3, <3>2
      <4>2. Working' \subseteq Working \cup {h}
        BY <4>1 DEF Working
      <4>3. Working \subseteq Working'
        BY <1>3, <4>1 DEF Working
      <4>4. h \in Working'
        BY <1>3, <3>2, <4>1 DEF Working
      <4> QED BY <4>2, <4>3, <4>4
    <3>4. h \notin Working /\ Working \cap ToSet(ready) = {}
      BY <3>1 DEF IInv, Once
    <3>5. OneSlot'
      <4>1. ASSUME NEW c \in Contexts, NEW d \in Contexts, slot'[c] = slot'[d], slot'[c] # NoFrame
            PROVE  c = d
        <5>1. \A e \in Contexts : e # turn /\ slot[e] # NoFrame => slot[e] # h
          BY <3>4 DEF Working
        <5> QED BY <1>3, <3>2, <4>1, <5>1 DEF IInv, Once, OneSlot
      <4> QED BY <1>1, <4>1 DEF OneSlot
    <3> QED BY <1>3, <3>1, <3>2, <3>3, <3>4, <3>5
  <2> QED BY <1>1, <2>1, <2>2
<1>6. Typed'
  BY <1>1, <1>2, <1>4, <1>5 DEF IInv, Typed
<1>7. Control'
  BY <1>1, <1>2, <1>4 DEF IInv, Control, Popping, Pushing
<1>8. Ring'
  <2>1. exit \/ input > SlicetypeLength + SyncLookahead
    BY <1>1 DEF IInv, Ring
  <2>2. input \in Nat /\ SlicetypeLength + SyncLookahead \in Nat
    BY Params DEF IInv, Typed
  <2>3. ~(~exit /\ input <= SlicetypeLength + SyncLookahead)
    BY <2>1, <2>2
  <2> QED BY <1>1, <1>4, <2>3 DEF Ring, Popping, Pushing
<1>9. Carried = {} /\ Carried' = {}
  BY <1>1, <1>4 DEF Carried
<1>10. Once'
  BY <1>1, <1>5, <1>9 DEF IInv, Once
<1>11. Still
  <2>1. Stream' = Stream
    BY <1>1, <1>5, <1>9 DEF Stream
  <2> QED BY <1>1, <1>4, <2>1 DEF Still, Nonb, Pushed, Popped, Cleared
<1>12. Places' /\ Counts'
  BY <1>4, <1>11, StillKeeps DEF IInv, Counts
<1>13. Loaded'
  BY <1>1, <1>2, <1>4, <1>11 DEF IInv, Loaded, Still
<1>14. Index'
  BY <1>1, <1>2, <1>4 DEF IInv, Index, Gap, Extra
<1> QED BY <1>6, <1>7, <1>8, <1>10, <1>12, <1>13, <1>14 DEF IInv

(* The fields of a thread that begins to push f.                           *)
LEMMA ApiReleases ==
  ASSUME NEW t \in ApiTypes, NEW f \in Frames, NEW then \in {"idle", "closed"}
  PROVE  /\ Release(t, f, then) \in ApiTypes
         /\ Release(t, f, then).pc = "load" /\ Release(t, f, then).f = f
         /\ Release(t, f, then).after = then
<1> DEFINE t1 == [t EXCEPT !.pc = "load"]
           t2 == [t1 EXCEPT !.f = f]
           t3 == [t2 EXCEPT !.after = then]
<1>1. Release(t, f, then) = t3
  BY DEF Release, ApiTypes
<1>2. t1 \in ApiTypes /\ t1.pc = "load"
  BY DEF ApiTypes, ApiSteps
<1> HIDE DEF t1
<1>3. t2 \in ApiTypes /\ t2.pc = "load" /\ t2.f = f
  BY <1>2 DEF ApiTypes, Some
<1> HIDE DEF t2
<1>4. t3 \in ApiTypes /\ t3.pc = "load" /\ t3.f = f /\ t3.after = then
  BY <1>3 DEF ApiTypes
<1> QED BY <1>1, <1>4

LEMMA LaReleases ==
  ASSUME NEW t \in LaTypes, NEW f \in Frames
  PROVE  /\ Release(t, f, "set") \in LaTypes
         /\ Release(t, f, "set").pc = "load" /\ Release(t, f, "set").f = f
         /\ Release(t, f, "set").after = "set" /\ Release(t, f, "set").b = t.b
<1> DEFINE t1 == [t EXCEPT !.pc = "load"]
           t2 == [t1 EXCEPT !.f = f]
           t3 == [t2 EXCEPT !.after = "set"]
<1>1. Release(t, f, "set") = t3
  BY DEF Release, LaTypes
<1>2. t1 \in LaTypes /\ t1.pc = "load" /\ t1.b = t.b
  BY DEF LaTypes, LaSteps
<1> HIDE DEF t1
<1>3. t2 \in LaTypes /\ t2.pc = "load" /\ t2.f = f /\ t2.b = t.b
  BY <1>2 DEF LaTypes, Some
<1> HIDE DEF t2
<1>4. t3 \in LaTypes /\ t3.pc = "load" /\ t3.f = f /\ t3.after = "set" /\ t3.b = t.b
  BY <1>3 DEF LaTypes
<1> QED BY <1>1, <1>4

LEMMA EndStep ==
  ASSUME IInv, End
  PROVE  IInv'
<1>1. /\ UNCHANGED <<memory, waiting, ready, lastNonb, exit, turn, input, la>>
      /\ api.pc = "end" /\ Oldest' = Oldest
      /\ slot' = [slot EXCEPT ![Oldest] = NoFrame]
      /\ \/ slot[Oldest] = NoFrame /\ api' = Go(api, "idle")
         \/ slot[Oldest] # NoFrame /\ api' = Release(api, slot[Oldest], "idle")
  BY DEF End, ApiAt, Oldest
<1>2. UNCHANGED <<count, unused, made>>
  BY <1>1 DEF memory
<1>3. /\ Oldest \in Contexts /\ slot \in [Contexts -> Some] /\ api \in ApiTypes
  BY Turned DEF IInv, Typed
<1> DEFINE o == Oldest
           g == slot[o]
<1>4. g \in Some /\ (g # NoFrame => g \in Frames)
  BY <1>3 DEF Some
<1>5. /\ api' \in ApiTypes
      /\ \/ g = NoFrame /\ api'.pc = "idle"
         \/ g # NoFrame /\ api'.pc = "load" /\ api'.f = g /\ api'.after = "idle"
  <2>1. CASE g = NoFrame
    BY <1>1, <1>3, <2>1, Goes DEF ApiSteps
  <2>2. CASE g # NoFrame
    <3>1. api' = Release(api, g, "idle") /\ g \in Frames
      BY <1>1, <1>4, <2>2
    <3> HIDE DEF g
    <3>2. /\ api' \in ApiTypes /\ api'.pc = "load" /\ api'.f = g /\ api'.after = "idle"
      BY <1>3, <3>1, ApiReleases
    <3> QED BY <2>2, <3>2
  <2> QED BY <2>1, <2>2
<1> HIDE DEF o
<1>6. \A c \in Contexts : slot'[c] = IF c = o THEN NoFrame ELSE slot[c]
  BY <1>1, <1>3 DEF o
<1>7. Working' = Working \ {g}
  <2>1. ASSUME NEW c \in Contexts, slot'[c] # NoFrame
        PROVE  slot'[c] \in Working /\ slot'[c] # g
    BY <1>3, <1>6, <2>1 DEF IInv, Once, OneSlot, Working, o
  <2>2. ASSUME NEW c \in Contexts, slot[c] # NoFrame, slot[c] # g
        PROVE  slot[c] \in Working'
    BY <1>6, <2>2 DEF Working
  <2>3. Working' \subseteq Working \ {g}
    BY <2>1 DEF Working
  <2>4. Working \ {g} \subseteq Working'
    BY <2>2 DEF Working
  <2> QED BY <2>3, <2>4
<1>8. g # NoFrame => g \in Working
  BY <1>3 DEF Working, o
<1>9. NoFrame \notin Working
  BY DEF Working
<1>10. Carried = {} /\ Carried' = IF g = NoFrame THEN {} ELSE {g}
  BY <1>1, <1>5 DEF Carried
<1>11. Working = Working' \cup Carried' /\ Working' \cap Carried' = {}
  BY <1>7, <1>8, <1>9, <1>10
<1>12. OneSlot'
  BY <1>6 DEF IInv, Once, OneSlot
<1>13. Once'
  BY <1>1, <1>10, <1>11, <1>12 DEF IInv, Once
<1>14. slot' \in [Contexts -> Some]
  BY <1>1, <1>3, Params
<1>15. Typed'
  BY <1>1, <1>2, <1>5, <1>14 DEF IInv, Typed
<1>16. Control'
  BY <1>1, <1>2, <1>4, <1>5 DEF IInv, Control, Popping, Pushing
<1>17. Ring'
  BY <1>1, <1>3, <1>5, <1>6 DEF IInv, Ring, Popping, Pushing, Empty, o
<1>18. Still
  <2>1. Stream' = Stream
    BY <1>1, <1>10, <1>11 DEF Stream
  <2>2. Nonb' = Nonb
    BY <1>1, <1>5 DEF Nonb
  <2> QED BY <1>1, <1>5, <2>1, <2>2 DEF Still, Pushed, Popped, Cleared
<1>19. Places' /\ Counts'
  BY <1>5, <1>18, StillKeeps DEF IInv, Counts
<1>20. Loaded'
  BY <1>1, <1>2, <1>5, <1>18 DEF IInv, Loaded, Still
<1>21. Index'
  BY <1>1, <1>2, <1>5 DEF IInv, Index, Gap, Extra
<1> QED BY <1>13, <1>15, <1>16, <1>17, <1>19, <1>20, <1>21 DEF IInv

LEMMA CloseJoinStep ==
  ASSUME IInv, CloseJoin
  PROVE  IInv'
<1>1. /\ UNCHANGED <<memory, waiting, ready, exit, slot, turn, input, la>>
      /\ api.pc = "join" /\ la.pc = "done" /\ lastNonb' = NoFrame
      /\ \/ lastNonb = NoFrame /\ api' = Go(api, "closed")
         \/ lastNonb # NoFrame /\ api' = Release(api, lastNonb, "closed")
  BY DEF CloseJoin, ApiAt
<1>2. UNCHANGED <<count, unused, made>> /\ Oldest' = Oldest
  BY <1>1 DEF memory, Oldest
<1>3. /\ lastNonb \in Some /\ (lastNonb # NoFrame => lastNonb \in Frames) /\ api \in ApiTypes
  BY DEF IInv, Typed, Some
<1>4. /\ api' \in ApiTypes
      /\ \/ lastNonb = NoFrame /\ api'.pc = "closed"
         \/ /\ lastNonb # NoFrame /\ api'.pc = "load" /\ api'.f = lastNonb
            /\ api'.after = "closed"
  <2>1. CASE lastNonb = NoFrame
    BY <1>1, <1>3, <2>1, Goes DEF ApiSteps
  <2>2. CASE lastNonb # NoFrame
    <3>1. api' = Release(api, lastNonb, "closed") /\ lastNonb \in Frames
      BY <1>1, <1>3, <2>2
    <3>2. /\ api' \in ApiTypes /\ api'.pc = "load" /\ api'.f = lastNonb /\ api'.after = "closed"
      BY <1>3, <3>1, ApiReleases
    <3> QED BY <2>2, <3>2
  <2> QED BY <2>1, <2>2
<1>5. Typed'
  BY <1>1, <1>2, <1>4, Params DEF IInv, Typed
<1>6. Control'
  BY <1>1, <1>2, <1>3, <1>4 DEF IInv, Control, Popping, Pushing
<1>7. Ring'
  BY <1>1, <1>2, <1>4 DEF IInv, Ring, Popping, Pushing, Empty
<1>8. Carried = {} /\ Carried' = {} /\ Working' = Working
  BY <1>1, <1>4 DEF Carried, Working
<1>9. Once'
  BY <1>1, <1>8 DEF IInv, Once, OneSlot
<1>10. Still
  <2>1. Stream' = Stream
    BY <1>1, <1>8 DEF Stream
  <2>2. Nonb' = Nonb
    BY <1>1, <1>4 DEF Nonb
  <2> QED BY <1>1, <1>4, <2>1, <2>2 DEF Still, Pushed, Popped, Cleared
<1>11. Places' /\ Counts'
  BY <1>4, <1>10, StillKeeps DEF IInv, Counts
<1>12. Loaded'
  BY <1>1, <1>2, <1>4, <1>10 DEF IInv, Loaded, Still
<1>13. Index'
  BY <1>1, <1>2, <1>4 DEF IInv, Index, Gap, Extra
<1> QED BY <1>5, <1>6, <1>7, <1>9, <1>11, <1>12, <1>13 DEF IInv

-----------------------------------------------------------------------------
(* x264_frame_push_unused: the slot that a thread writes                   *)

LEMMA Passed ==
  ASSUME NEW un, NEW k \in Slots, NEW d \in Int, Near(un, k, d), un[k] # NoFrame
  PROVE  Near(un, k + 1, d)
<1> DEFINE A == Filled(un, k)
           B == Filled(un, k + 1)
<1>1. k \in Nat
  BY Params
<1>2. B = A \cup {k} /\ k \notin A
  BY <1>1 DEF Filled
<1>3. IsFiniteSet(A) /\ Cardinality(A) \in Nat
  BY FilledFacts
<1>4. Cardinality(B) = Cardinality(A) + 1
  BY <1>2, <1>3, FS_AddElement
<1>5. k <= Cardinality(A) + d
  BY DEF Near
<1> HIDE DEF A, B
<1>6. k + 1 <= Cardinality(B) + d
  BY <1>1, <1>3, <1>4, <1>5
<1> QED BY <1>6 DEF Near, B

(* A frame on its way into the list is not in it: the entries below the    *)
(* slot are fewer than the frames made.                                    *)
LEMMA Below ==
  ASSUME IInv, NEW f \in Frames, f \in Pushed(api) \cup Pushed(la),
         NEW k \in Slots, Near(unused, k, Gap)
  PROVE  k < MaxPictures
<1> DEFINE A == Filled(unused, k)
           B == (1..made) \ {f}
           F == [j \in A |-> unused[j]]
<1>1. k \in Nat /\ MaxPictures \in Nat /\ Slots = 0..MaxPictures
  BY Params DEF Slots
<1>2. A \subseteq Slots /\ \A j \in A : unused[j] # NoFrame
  BY <1>1 DEF Filled
<1>3. /\ \A i, j \in Slots : unused[i] = unused[j] /\ unused[i] # NoFrame => i = j
      /\ \A i \in Slots : unused[i] # NoFrame => unused[i] # f /\ unused[i] <= made
      /\ f <= made
  BY DEF IInv, Places, PlacesOf
<1>4. /\ unused \in [Slots -> Some] /\ made \in Nat /\ input \in Nat
      /\ f \in Nat /\ f >= 1
  BY Params DEF IInv, Typed, Frames
<1>5. \A j \in A : unused[j] \in B
  BY <1>2, <1>3, <1>4 DEF Some, Frames, NoFrame
<1>6. F \in Injection(A, B)
  BY <1>2, <1>3, <1>5 DEF Injection, IsInjective
<1>7. IsFiniteSet(B) /\ Cardinality(B) = made - 1
  <2>1. IsFiniteSet(1..made) /\ Cardinality(1..made) = made
    BY <1>4, FS_Interval
  <2>2. f \in 1..made
    BY <1>3, <1>4
  <2> QED BY <2>1, <2>2, FS_RemoveElement
<1>8. Cardinality(A) <= Cardinality(B)
  BY <1>6, <1>7, FS_Injection DEF ExistsInjection
<1>9. IsFiniteSet(A) /\ Cardinality(A) \in Nat
  BY FilledFacts
<1>10. k <= Cardinality(A) + Gap
  BY DEF Near
<1>11. input + Extra <= MaxPictures /\ Extra \in Int
  BY <1>1, <1>4 DEF IInv, Index, Control, Popping, Extra
<1> HIDE DEF A, B
<1> QED BY <1>1, <1>4, <1>7, <1>8, <1>9, <1>10, <1>11 DEF Gap

-----------------------------------------------------------------------------
(* x264_frame_push_unused by the API thread                                *)

LEMMA ApiLoadStep ==
  ASSUME IInv, ApiPush, api.pc = "load"
  PROVE  IInv'
<1>1. /\ UNCHANGED <<memory, lists, la>>
      /\ api' = [api EXCEPT !.n = count[api.f], !.pc = "store"]
  BY DEF ApiPush, PushUnused
<1>2. /\ UNCHANGED <<count, unused, made, waiting, ready, lastNonb, exit, slot, turn, input, la>>
      /\ Oldest' = Oldest
  BY <1>1 DEF memory, lists, Oldest
<1>3. api.f \in Frames /\ count[api.f] \in Int /\ api \in ApiTypes
  BY DEF IInv, Typed, Control, Pushing
<1>4. /\ api' \in ApiTypes /\ api'.pc = "store" /\ api'.f = api.f /\ api'.after = api.after
      /\ api'.n = count[api.f]
  BY <1>1, <1>3 DEF ApiTypes, ApiSteps
<1>5. Typed'
  BY <1>2, <1>4 DEF IInv, Typed
<1>6. Control'
  BY <1>2, <1>4 DEF IInv, Control, Popping, Pushing
<1>7. Ring'
  BY <1>2, <1>4 DEF IInv, Ring, Popping, Pushing, Empty
<1>8. Carried' = Carried /\ Working' = Working
  BY <1>2, <1>4 DEF Carried, Working
<1>9. Once'
  BY <1>2, <1>8 DEF IInv, Once, OneSlot
<1>10. Still
  <2>1. Stream' = Stream
    BY <1>2, <1>8 DEF Stream
  <2>2. Nonb' = Nonb
    BY <1>2, <1>4 DEF Nonb
  <2> QED BY <1>1, <1>4, <2>1, <2>2 DEF Still, Pushed, Popped, Cleared
<1>11. Places' /\ Counts'
  BY <1>4, <1>10, StillKeeps DEF IInv, Counts
<1>12. Loaded'
  BY <1>2, <1>4, <1>10 DEF IInv, Loaded, Still
<1>13. Index'
  BY <1>2, <1>4 DEF IInv, Index, Gap, Extra
<1> QED BY <1>5, <1>6, <1>7, <1>9, <1>11, <1>12, <1>13 DEF IInv

LEMMA ApiStoreStep ==
  ASSUME ~ReadsAgain, IInv, ApiPush, api.pc = "store"
  PROVE  IInv'
<1> DEFINE f == api.f
           n == api.n
<1>1. /\ UNCHANGED <<unused, made, lists, la>>
      /\ count' = [count EXCEPT ![f] = n - 1]
      /\ api' = IF n = 1 THEN [api EXCEPT !.pc = "scan", !.i = 0] ELSE Go(api, api.after)
  <2>1. /\ UNCHANGED <<unused, made, lists, la>>
        /\ count' = [count EXCEPT ![f] = n - 1]
        /\ api' = Tested(api, n - 1)
    BY DEF ApiPush, PushUnused
  <2>2. n \in Int
    BY DEF IInv, Typed, ApiTypes
  <2>3. n - 1 = 0 <=> n = 1
    BY <2>2
  <2> QED BY <2>1, <2>3 DEF Tested
<1>2. /\ UNCHANGED <<waiting, ready, lastNonb, exit, slot, turn, input>>
      /\ Oldest' = Oldest
  BY <1>1 DEF lists, Oldest
<1>3. /\ f \in Frames /\ api \in ApiTypes /\ n \in Int /\ count \in [Frames -> Int]
      /\ api.after \in {"idle", "closed"}
  BY DEF IInv, Typed, ApiTypes, Control, Pushing
<1>4. /\ api' \in ApiTypes /\ api'.after = api.after
      /\ n = 1 => api'.pc = "scan" /\ api'.i = 0 /\ api'.f = f
      /\ n # 1 => api'.pc = api.after
  <2>1. CASE n = 1
    <3> DEFINE a == [api EXCEPT !.pc = "scan"]
               t == [a EXCEPT !.i = 0]
    <3>1. api' = t
      BY <1>1, <1>3, <2>1 DEF ApiTypes
    <3>2. a \in ApiTypes /\ a.pc = "scan" /\ a.f = f /\ a.after = api.after
      BY <1>3 DEF ApiTypes, ApiSteps
    <3> HIDE DEF a
    <3>3. t \in ApiTypes /\ t.pc = "scan" /\ t.i = 0 /\ t.f = f /\ t.after = api.after
      BY <3>2, Params DEF ApiTypes
    <3> HIDE DEF t
    <3> QED BY <2>1, <3>1, <3>3
  <2>2. CASE n # 1
    <3>1. api' = Go(api, api.after) /\ api.after \in ApiSteps
      BY <1>1, <1>3, <2>2 DEF ApiSteps
    <3> QED BY <1>3, <2>2, <3>1, Goes
  <2> QED BY <2>1, <2>2
<1> HIDE DEF f, n
<1>5. Typed'
  <2>1. count' \in [Frames -> Int]
    BY <1>1, <1>3
  <2> QED BY <1>1, <1>2, <1>4, <2>1 DEF IInv, Typed
<1>6. Control'
  BY <1>1, <1>2, <1>3, <1>4 DEF IInv, Control, Popping, Pushing, f
<1>7. Ring'
  BY <1>1, <1>2, <1>3, <1>4 DEF IInv, Ring, Popping, Pushing, Empty
<1>8. Carried' = {} /\ Working' = Working
  BY <1>2, <1>3, <1>4 DEF Carried, Working
<1>9. Once'
  BY <1>2, <1>8 DEF IInv, Once, OneSlot
<1>10. /\ Stream \subseteq Frames /\ Nonb \subseteq Frames
       /\ \A g \in Frames : g # f => count'[g] = count[g]
       /\ count'[f] = n - 1
  <2>1. Stream \subseteq Frames
    BY <1>3 DEF IInv, Typed, Stream, Working, ToSet, Some, Carried, f
  <2>2. Nonb \subseteq Frames
    BY <1>3 DEF IInv, Typed, Nonb, Some, f
  <2> QED BY <1>1, <1>3, <2>1, <2>2
<1>11. /\ Popped = {} /\ Popped' = {} /\ Cleared = {} /\ Cleared' = {}
       /\ Pushed(api) = {} /\ Pushed(la)' = Pushed(la)
       /\ Pushed(api)' = IF n = 1 THEN {f} ELSE {}
  BY <1>1, <1>3, <1>4 DEF Popped, Cleared, Pushed
<1>12. /\ f \in Used /\ Used' \subseteq Used
       /\ n = 1 => f \notin Used'
       /\ CountsOf(count, Stream, Nonb)'
       /\ la.pc = "store" => \/ la.n = count'[la.f]
                             \/ la.n = 2 /\ count'[la.f] = 1 /\ la.f \notin Stream'
  <2>1. CASE api.after = "idle"
    <3>1. Carried = {f} /\ Stream' = Stream \ {f} /\ f \in Stream
      <4>1. Carried = {f}
        BY <2>1 DEF Carried, f
      <4> QED BY <1>2, <1>8, <4>1 DEF IInv, Once, Stream
    <3>2. Nonb' = Nonb
      BY <1>1, <1>2, <1>3, <1>4, <2>1 DEF Nonb
    <3>3. /\ f \in Nonb => count[f] = 2 /\ n = 2
          /\ f \notin Nonb => count[f] = 1 /\ n \in {1, 2}
      BY <3>1 DEF IInv, Counts, CountsOf, Loaded, f, n
    <3>4. CountsOf(count', Stream \ {f}, Nonb)
      BY <1>10, <3>1, <3>3 DEF IInv, Counts, CountsOf
    <3>5. la.pc = "store" => \/ la.n = count'[la.f]
                             \/ la.n = 2 /\ count'[la.f] = 1 /\ la.f \notin Stream'
      <4>1. CASE la.f # f
        <5>1. la.pc = "store" => la.f \in Frames
          BY DEF IInv, Control, Pushing
        <5> QED BY <1>10, <3>1, <4>1, <5>1 DEF IInv, Loaded
      <4>2. CASE la.f = f
        <5>1. la.pc = "store" => la.f \in Nonb
          BY DEF IInv, Control, Pushing, Nonb, Frames, NoFrame
        <5> QED BY <1>10, <3>1, <3>3, <4>2, <5>1 DEF IInv, Loaded
      <4> QED BY <4>1, <4>2
    <3> QED BY <3>1, <3>2, <3>3, <3>4, <3>5 DEF Used
  <2>2. CASE api.after = "closed"
    <3>1. la.pc = "done" /\ lastNonb = NoFrame
      BY <2>2 DEF IInv, Control, Pushing
    <3>2. Nonb = {f} /\ Nonb' = {}
      BY <1>1, <1>2, <1>3, <1>4, <2>2, <3>1 DEF Nonb, f
    <3>3. Carried = {} /\ Stream' = Stream
      <4>1. Carried = {}
        BY <2>2 DEF Carried
      <4> QED BY <1>2, <1>8, <4>1 DEF Stream
    <3>4. /\ f \in Stream => count[f] = 2 /\ n = 2
          /\ f \notin Stream => count[f] = 1 /\ n = 1
      BY <2>2, <3>2 DEF IInv, Counts, CountsOf, Loaded, f, n
    <3>5. CountsOf(count', Stream, {})
      BY <1>10, <3>2, <3>4 DEF IInv, Counts, CountsOf
    <3> QED BY <3>1, <3>2, <3>3, <3>4, <3>5 DEF Used
  <2> QED BY <1>3, <2>1, <2>2
<1>13. Places'
  <2>1. PlacesOf(unused, Used, {}, Pushed(la), {}, {}, made)
    BY <1>11 DEF IInv, Places
  <2>2. n = 1 => PlacesOf(unused, Used', {f}, Pushed(la), {}, {}, made)
    BY <1>12, <2>1 DEF PlacesOf
  <2>3. n # 1 => PlacesOf(unused, Used', {}, Pushed(la), {}, {}, made)
    BY <1>12, <2>1 DEF PlacesOf
  <2> QED BY <1>1, <1>11, <2>2, <2>3 DEF Places
<1>14. Counts'
  BY <1>3, <1>4, <1>12 DEF Counts
<1>15. Loaded'
  BY <1>1, <1>3, <1>4, <1>12 DEF IInv, Loaded
<1>16. Index'
  <2>1. Gap' = Gap /\ Gap \in Int /\ Gap >= 0
    BY <1>1, <1>2, <1>3, <1>4 DEF IInv, Typed, Index, Gap, Extra
  <2>2. Near(unused, 0, Gap)
    BY <2>1, FilledFacts, Params DEF Near
  <2> QED BY <1>1, <1>2, <1>3, <1>4, <2>1, <2>2 DEF IInv, Index
<1> QED BY <1>5, <1>6, <1>7, <1>9, <1>13, <1>14, <1>15, <1>16 DEF IInv


LEMMA ApiScanStep ==
  ASSUME IInv, ApiPush, api.pc = "scan"
  PROVE  IInv'
<1>1. /\ UNCHANGED <<memory, lists, la>>
      /\ \/ unused[api.i] = NoFrame /\ api' = [api EXCEPT !.pc = "write"]
         \/ unused[api.i] # NoFrame /\ api' = [api EXCEPT !.i = @ + 1]
  BY DEF ApiPush, PushUnused
<1>2. /\ UNCHANGED <<count, unused, made, waiting, ready, lastNonb, exit, slot, turn, input, la>>
      /\ Oldest' = Oldest
  BY <1>1 DEF memory, lists, Oldest
<1>3. /\ api.f \in Frames /\ api.i \in Slots /\ api \in ApiTypes /\ Gap \in Int
      /\ Near(unused, api.i, Gap)
  BY DEF IInv, Typed, ApiTypes, Control, Pushing, Index, Gap, Extra
<1>4. api.i < MaxPictures /\ api.i + 1 \in Slots
  <2>1. api.f \in Pushed(api)
    BY DEF Pushed
  <2>2. api.i < MaxPictures
    BY <1>3, <2>1, Below
  <2> QED BY <1>3, <2>2, Params DEF Slots
<1>5. /\ api' \in ApiTypes /\ api'.f = api.f /\ api'.after = api.after
      /\ \/ api'.pc = "write" /\ api'.i = api.i
         \/ api'.pc = "scan" /\ api'.i = api.i + 1 /\ unused[api.i] # NoFrame
  BY <1>1, <1>3, <1>4 DEF ApiTypes, ApiSteps
<1>6. Typed'
  BY <1>2, <1>5 DEF IInv, Typed
<1>7. Control'
  BY <1>2, <1>3, <1>5 DEF IInv, Control, Popping, Pushing
<1>8. Ring'
  BY <1>2, <1>5 DEF IInv, Ring, Popping, Pushing, Empty
<1>9. Carried = {} /\ Carried' = {} /\ Working' = Working
  BY <1>2, <1>5 DEF Carried, Working
<1>10. Once'
  BY <1>2, <1>9 DEF IInv, Once, OneSlot
<1>11. Still
  <2>1. Stream' = Stream
    BY <1>2, <1>9 DEF Stream
  <2>2. Nonb' = Nonb
    BY <1>2, <1>5 DEF Nonb
  <2> QED BY <1>1, <1>2, <1>5, <2>1, <2>2 DEF Still, Pushed, Popped, Cleared
<1>12. Places' /\ Counts'
  BY <1>5, <1>11, StillKeeps DEF IInv, Counts
<1>13. Loaded'
  BY <1>2, <1>5, <1>11 DEF IInv, Loaded, Still
<1>14. Index'
  <2>1. Gap' = Gap
    BY <1>2, <1>5 DEF Gap, Extra
  <2>2. unused[api.i] # NoFrame => Near(unused, api.i + 1, Gap)
    BY <1>3, Passed
  <2> QED BY <1>2, <1>3, <1>4, <1>5, <2>1, <2>2 DEF IInv, Index
<1> QED BY <1>6, <1>7, <1>8, <1>10, <1>12, <1>13, <1>14 DEF IInv

LEMMA ApiWriteStep ==
  ASSUME IInv, ApiPush, api.pc = "write"
  PROVE  IInv'
<1> DEFINE f == api.f
           k == api.i
<1>1. /\ UNCHANGED <<count, made, lists, la>>
      /\ unused' = [unused EXCEPT ![k] = f] /\ api' = Go(api, api.after)
  BY DEF ApiPush, PushUnused
<1>2. /\ UNCHANGED <<waiting, ready, lastNonb, exit, slot, turn, input>>
      /\ Oldest' = Oldest
  BY <1>1 DEF lists, Oldest
<1>3. /\ f \in Frames /\ k \in Slots /\ api \in ApiTypes /\ Gap \in Int /\ k < MaxPictures
      /\ api.after \in {"idle", "closed"} /\ unused \in [Slots -> Some] /\ f # NoFrame
  BY Params DEF IInv, Typed, ApiTypes, Control, Pushing, Index, Gap, Extra
<1>4. api' \in ApiTypes /\ api'.after = api.after /\ api'.pc = api.after
  BY <1>1, <1>3, Goes DEF ApiSteps
<1> HIDE DEF f, k
<1>5. Typed'
  <2>1. unused' \in [Slots -> Some]
    BY <1>1, <1>3 DEF Some
  <2> QED BY <1>1, <1>2, <1>4, <2>1 DEF IInv, Typed
<1>6. Control'
  BY <1>1, <1>2, <1>3, <1>4 DEF IInv, Control, Popping, Pushing
<1>7. Ring'
  BY <1>1, <1>2, <1>3, <1>4 DEF IInv, Ring, Popping, Pushing, Empty
<1>8. Carried = {} /\ Carried' = {} /\ Working' = Working
  BY <1>1, <1>2, <1>3, <1>4 DEF Carried, Working
<1>9. Once'
  BY <1>2, <1>8 DEF IInv, Once, OneSlot
<1>10. /\ Stream' = Stream /\ Nonb' = Nonb /\ Used' = Used
       /\ Popped = {} /\ Popped' = {} /\ Cleared = {} /\ Cleared' = {}
       /\ Pushed(api) = {f} /\ Pushed(api)' = {} /\ Pushed(la)' = Pushed(la)
  <2>1. Stream' = Stream
    BY <1>2, <1>8 DEF Stream
  <2>2. Nonb' = Nonb
    BY <1>1, <1>2, <1>3, <1>4 DEF Nonb
  <2> QED BY <1>1, <1>3, <1>4, <2>1, <2>2 DEF Used, Popped, Cleared, Pushed, f
<1>11. Places'
  <2>1. PlacesOf(unused, Used, {f}, Pushed(la), {}, {}, made)
    BY <1>10 DEF IInv, Places
  <2> DEFINE v == [unused EXCEPT ![k] = f]
  <2>2. \A j \in Slots : v[j] = IF j = k THEN f ELSE unused[j]
    BY <1>3
  <2> HIDE DEF v
  <2>3. PlacesOf(v, Used, {}, Pushed(la), {}, {}, made)
    BY <2>1, <2>2 DEF PlacesOf
  <2> QED BY <1>1, <1>10, <2>3 DEF Places, v
<1>12. Counts'
  BY <1>1, <1>3, <1>4, <1>10 DEF IInv, Counts
<1>13. Loaded'
  BY <1>1, <1>3, <1>4, <1>10 DEF IInv, Loaded
<1>14. Index'
  <2>1. Gap' = Gap
    BY <1>1, <1>2, <1>3, <1>4 DEF Gap, Extra
  <2>2. unused'[MaxPictures] = NoFrame
    BY <1>1, <1>3, Params DEF IInv, Index
  <2>3. ASSUME la.pc \in {"scan", "write"} PROVE Near(unused, la.i, Gap)'
    <3> DEFINE u == unused
               j == la.i
               g == Gap
    <3>1. Near(u, j, g) /\ u \in [Slots -> Some] /\ j \in Slots /\ g \in Int
      BY <1>3, <2>3 DEF IInv, Index, Typed, LaTypes
    <3> HIDE DEF u, j, g
    <3>2. Near([u EXCEPT ![k] = f], j, g)
      BY <1>3, <3>1, FilledUp
    <3> QED BY <1>1, <2>1, <3>2 DEF u, j, g
  <2> QED BY <1>1, <1>2, <1>3, <1>4, <2>1, <2>2, <2>3 DEF IInv, Index
<1> QED BY <1>5, <1>6, <1>7, <1>9, <1>11, <1>12, <1>13, <1>14 DEF IInv

LEMMA ApiPushStep ==
  ASSUME ~ReadsAgain, IInv, ApiPush
  PROVE  IInv'
<1>1. api.pc \in {"load", "store", "scan", "write"}
  <2>1. api.pc # "test"
    BY DEF IInv, Typed, ApiTypes, ApiSteps
  <2> QED BY <2>1 DEF ApiPush, PushUnused
<1> QED BY <1>1, ApiLoadStep, ApiStoreStep, ApiScanStep, ApiWriteStep

-----------------------------------------------------------------------------
(* x264_frame_push_unused by the lookahead thread                          *)

LEMMA LaLoadStep ==
  ASSUME IInv, LaPush, la.pc = "load"
  PROVE  IInv'
<1>1. /\ UNCHANGED <<memory, lists, api>>
      /\ la' = [la EXCEPT !.n = count[la.f], !.pc = "store"]
  BY DEF LaPush, PushUnused
<1>2. /\ UNCHANGED <<count, unused, made, waiting, ready, lastNonb, exit, slot, turn, input, api>>
      /\ Oldest' = Oldest
  BY <1>1 DEF memory, lists, Oldest
<1>3. la.f \in Frames /\ count[la.f] \in Int /\ la \in LaTypes
  BY DEF IInv, Typed, Control, Pushing
<1>4. /\ la' \in LaTypes /\ la'.pc = "store" /\ la'.f = la.f /\ la'.after = la.after
      /\ la'.n = count[la.f] /\ la'.b = la.b
  BY <1>1, <1>3 DEF LaTypes, LaSteps
<1>5. Typed'
  BY <1>2, <1>4 DEF IInv, Typed
<1>6. Control'
  BY <1>2, <1>4 DEF IInv, Control, Popping, Pushing
<1>7. Ring'
  BY <1>2 DEF IInv, Ring, Popping, Pushing, Empty
<1>8. Carried' = Carried /\ Working' = Working
  BY <1>2 DEF Carried, Working
<1>9. Once'
  BY <1>2, <1>8 DEF IInv, Once, OneSlot
<1>10. Still
  <2>1. Stream' = Stream
    BY <1>2, <1>8 DEF Stream
  <2>2. Nonb' = Nonb
    BY <1>2, <1>4 DEF Nonb
  <2> QED BY <1>1, <1>2, <1>4, <2>1, <2>2 DEF Still, Pushed, Popped, Cleared
<1>11. Places' /\ Counts'
  BY <1>2, <1>10, StillKeeps DEF IInv, Counts, Still
<1>12. Loaded'
  BY <1>2, <1>4, <1>10 DEF IInv, Loaded, Still
<1>13. Index'
  BY <1>2, <1>4 DEF IInv, Index, Gap, Extra
<1> QED BY <1>5, <1>6, <1>7, <1>9, <1>11, <1>12, <1>13 DEF IInv

LEMMA LaStoreStep ==
  ASSUME ~ReadsAgain, IInv, LaPush, la.pc = "store"
  PROVE  IInv'
<1> DEFINE f == la.f
           n == la.n
<1>1. /\ UNCHANGED <<unused, made, lists, api>>
      /\ count' = [count EXCEPT ![f] = n - 1]
      /\ la' = IF n = 1 THEN [la EXCEPT !.pc = "scan", !.i = 0] ELSE Go(la, la.after)
  <2>1. /\ UNCHANGED <<unused, made, lists, api>>
        /\ count' = [count EXCEPT ![f] = n - 1]
        /\ la' = Tested(la, n - 1)
    BY DEF LaPush, PushUnused
  <2>2. n \in Int
    BY DEF IInv, Typed, LaTypes
  <2>3. n - 1 = 0 <=> n = 1
    BY <2>2
  <2> QED BY <2>1, <2>3 DEF Tested
<1>2. /\ UNCHANGED <<waiting, ready, lastNonb, exit, slot, turn, input>>
      /\ Oldest' = Oldest
  BY <1>1 DEF lists, Oldest
<1>3. /\ f \in Frames /\ la \in LaTypes /\ n \in Int /\ count \in [Frames -> Int]
      /\ la.after = "set" /\ f = lastNonb /\ f # NoFrame
      /\ api.pc \in Pushing => api.after = "idle"
      /\ api.pc # "closed"
  BY Params DEF IInv, Typed, LaTypes, ApiTypes, Control, Pushing
<1>4. /\ la' \in LaTypes /\ la'.after = "set" /\ la'.b = la.b
      /\ n = 1 => la'.pc = "scan" /\ la'.i = 0 /\ la'.f = f
      /\ n # 1 => la'.pc = "set"
  <2>1. CASE n = 1
    <3> DEFINE a == [la EXCEPT !.pc = "scan"]
               t == [a EXCEPT !.i = 0]
    <3>1. la' = t
      BY <1>1, <1>3, <2>1 DEF LaTypes
    <3>2. a \in LaTypes /\ a.pc = "scan" /\ a.f = f /\ a.after = la.after /\ a.b = la.b
      BY <1>3 DEF LaTypes, LaSteps
    <3> HIDE DEF a
    <3>3. /\ t \in LaTypes /\ t.pc = "scan" /\ t.i = 0 /\ t.f = f /\ t.after = la.after
          /\ t.b = la.b
      BY <3>2, Params DEF LaTypes
    <3> HIDE DEF t
    <3> QED BY <1>3, <2>1, <3>1, <3>3
  <2>2. CASE n # 1
    <3>1. la' = Go(la, la.after) /\ la.after \in LaSteps
      BY <1>1, <1>3, <2>2 DEF LaSteps
    <3> QED BY <1>3, <2>2, <3>1, Goes
  <2> QED BY <2>1, <2>2
<1> HIDE DEF f, n
<1>5. Typed'
  <2>1. count' \in [Frames -> Int]
    BY <1>1, <1>3
  <2> QED BY <1>1, <1>2, <1>4, <2>1 DEF IInv, Typed
<1>6. Control'
  BY <1>1, <1>2, <1>3, <1>4 DEF IInv, Control, Popping, Pushing, f
<1>7. Ring'
  BY <1>1, <1>2 DEF IInv, Ring, Popping, Pushing, Empty
<1>8. Carried' = Carried /\ Working' = Working
  BY <1>1, <1>2 DEF Carried, Working
<1>9. Once'
  BY <1>2, <1>8 DEF IInv, Once, OneSlot
<1>10. Stream' = Stream /\ Nonb = {f} /\ Nonb' = {}
  <2>1. Stream' = Stream
    BY <1>2, <1>8 DEF Stream
  <2>2. Nonb = {f}
    BY <1>3 DEF Nonb, Pushing
  <2>3. Nonb' = {}
    BY <1>1, <1>3, <1>4 DEF Nonb, Pushing
  <2> QED BY <2>1, <2>2, <2>3
<1>11. /\ Stream \subseteq Frames
       /\ \A g \in Frames : g # f => count'[g] = count[g]
       /\ count'[f] = n - 1
  <2>1. Stream \subseteq Frames
    BY DEF IInv, Typed, Control, Pushing, Stream, Working, ToSet, Some, Carried
  <2> QED BY <1>1, <1>3, <2>1
<1>12. /\ Popped' = Popped /\ Cleared' = Cleared
       /\ Pushed(la) = {} /\ Pushed(api)' = Pushed(api)
       /\ Pushed(la)' = IF n = 1 THEN {f} ELSE {}
  BY <1>1, <1>3, <1>4 DEF Popped, Cleared, Pushed
<1>13. /\ f \in Stream => count[f] = 2 /\ n = 2
       /\ f \notin Stream => count[f] = 1 /\ n \in {1, 2}
  BY <1>10 DEF IInv, Counts, CountsOf, Loaded, f, n
<1>14. f \in Used /\ Used' \subseteq Used /\ (n = 1 => f \notin Used')
  BY <1>10, <1>13 DEF Used
<1>15. Places'
  <2> DEFINE pa == Pushed(api)
             po == Popped
             hole == Cleared
  <2>1. PlacesOf(unused, Used, pa, {}, po, hole, made)
    BY <1>12 DEF IInv, Places
  <2> HIDE DEF pa, po, hole
  <2>2. n = 1 => PlacesOf(unused, Used', pa, {f}, po, hole, made)
    BY <1>14, <2>1 DEF PlacesOf
  <2>3. n # 1 => PlacesOf(unused, Used', pa, {}, po, hole, made)
    BY <1>14, <2>1 DEF PlacesOf
  <2> QED BY <1>1, <1>12, <2>2, <2>3 DEF Places, pa, po, hole
<1>16. Counts'
  <2>1. CountsOf(count', Stream, {})
    BY <1>10, <1>11, <1>13 DEF IInv, Counts, CountsOf
  <2> QED BY <1>10, <2>1 DEF Counts
<1>17. Loaded'
  <2>1. ASSUME api.pc = "store"
        PROVE  api.n = count'[api.f] \/ (api.n = 2 /\ count'[api.f] = 1 /\ api.after = "idle")
    <3>1. api.after = "idle" /\ api.f \in Stream /\ api.f \in Frames
      BY <1>3, <2>1 DEF IInv, Control, Pushing, Stream, Carried
    <3>2. CASE api.f # f
      BY <1>11, <2>1, <3>1, <3>2 DEF IInv, Loaded
    <3>3. CASE api.f = f
      BY <1>10, <1>11, <1>13, <2>1, <3>1, <3>3 DEF IInv, Loaded
    <3> QED BY <3>2, <3>3
  <2> QED BY <1>1, <1>4, <1>10, <2>1 DEF Loaded
<1>18. Index'
  <2>1. Gap' = Gap /\ Gap \in Int /\ Gap >= 0
    BY <1>1, <1>2 DEF IInv, Typed, Index, Gap, Extra
  <2>2. Near(unused, 0, Gap)
    BY <2>1, FilledFacts, Params DEF Near
  <2> QED BY <1>1, <1>2, <1>4, <2>1, <2>2 DEF IInv, Index
<1> QED BY <1>5, <1>6, <1>7, <1>9, <1>15, <1>16, <1>17, <1>18 DEF IInv

LEMMA LaScanStep ==
  ASSUME IInv, LaPush, la.pc = "scan"
  PROVE  IInv'
<1>1. /\ UNCHANGED <<memory, lists, api>>
      /\ \/ unused[la.i] = NoFrame /\ la' = [la EXCEPT !.pc = "write"]
         \/ unused[la.i] # NoFrame /\ la' = [la EXCEPT !.i = @ + 1]
  BY DEF LaPush, PushUnused
<1>2. /\ UNCHANGED <<count, unused, made, waiting, ready, lastNonb, exit, slot, turn, input, api>>
      /\ Oldest' = Oldest
  BY <1>1 DEF memory, lists, Oldest
<1>3. /\ la.f \in Frames /\ la.i \in Slots /\ la \in LaTypes /\ Gap \in Int
      /\ Near(unused, la.i, Gap)
  BY DEF IInv, Typed, LaTypes, Control, Pushing, Index, Gap, Extra
<1>4. la.i < MaxPictures /\ la.i + 1 \in Slots
  <2>1. la.f \in Pushed(la)
    BY DEF Pushed
  <2>2. la.i < MaxPictures
    BY <1>3, <2>1, Below
  <2> QED BY <1>3, <2>2, Params DEF Slots
<1>5. /\ la' \in LaTypes /\ la'.f = la.f /\ la'.after = la.after /\ la'.b = la.b
      /\ \/ la'.pc = "write" /\ la'.i = la.i
         \/ la'.pc = "scan" /\ la'.i = la.i + 1 /\ unused[la.i] # NoFrame
  BY <1>1, <1>3, <1>4 DEF LaTypes, LaSteps
<1>6. Typed'
  BY <1>2, <1>5 DEF IInv, Typed
<1>7. Control'
  BY <1>2, <1>3, <1>5 DEF IInv, Control, Popping, Pushing
<1>8. Ring'
  BY <1>2 DEF IInv, Ring, Popping, Pushing, Empty
<1>9. Carried' = Carried /\ Working' = Working
  BY <1>2 DEF Carried, Working
<1>10. Once'
  BY <1>2, <1>9 DEF IInv, Once, OneSlot
<1>11. Still
  <2>1. Stream' = Stream
    BY <1>2, <1>9 DEF Stream
  <2>2. Nonb' = Nonb
    BY <1>2, <1>5 DEF Nonb
  <2> QED BY <1>1, <1>2, <1>5, <2>1, <2>2 DEF Still, Pushed, Popped, Cleared
<1>12. Places' /\ Counts'
  BY <1>2, <1>11, StillKeeps DEF IInv, Counts, Still
<1>13. Loaded'
  BY <1>2, <1>5, <1>11 DEF IInv, Loaded, Still
<1>14. Index'
  <2>1. Gap' = Gap
    BY <1>2 DEF Gap, Extra
  <2>2. unused[la.i] # NoFrame => Near(unused, la.i + 1, Gap)
    BY <1>3, Passed
  <2> QED BY <1>2, <1>3, <1>4, <1>5, <2>1, <2>2 DEF IInv, Index
<1> QED BY <1>6, <1>7, <1>8, <1>10, <1>12, <1>13, <1>14 DEF IInv

LEMMA LaWriteStep ==
  ASSUME IInv, LaPush, la.pc = "write"
  PROVE  IInv'
<1> DEFINE f == la.f
           k == la.i
<1>1. /\ UNCHANGED <<count, made, lists, api>>
      /\ unused' = [unused EXCEPT ![k] = f] /\ la' = Go(la, la.after)
  BY DEF LaPush, PushUnused
<1>2. /\ UNCHANGED <<waiting, ready, lastNonb, exit, slot, turn, input>>
      /\ Oldest' = Oldest
  BY <1>1 DEF lists, Oldest
<1>3. /\ f \in Frames /\ k \in Slots /\ la \in LaTypes /\ Gap \in Int /\ k < MaxPictures
      /\ la.after = "set" /\ unused \in [Slots -> Some] /\ f # NoFrame
  BY Params DEF IInv, Typed, LaTypes, Control, Pushing, Index, Gap, Extra
<1>4. la' \in LaTypes /\ la'.after = "set" /\ la'.pc = "set" /\ la'.b = la.b
  BY <1>1, <1>3, Goes DEF LaSteps
<1> HIDE DEF f, k
<1>5. \A j \in Slots : unused'[j] = IF j = k THEN f ELSE unused[j]
  BY <1>1, <1>3
<1>6. Typed'
  <2>1. unused' \in [Slots -> Some]
    BY <1>1, <1>3 DEF Some
  <2> QED BY <1>1, <1>2, <1>4, <2>1 DEF IInv, Typed
<1>7. Control'
  <2>1. api.i \in Slots
    BY DEF IInv, Typed, ApiTypes
  <2>2. unused[api.i] # NoFrame => unused'[api.i] # NoFrame
    BY <1>3, <1>5, <2>1
  <2> QED BY <1>1, <1>2, <1>4, <2>2 DEF IInv, Control, Popping, Pushing
<1>8. Ring'
  BY <1>1, <1>2 DEF IInv, Ring, Popping, Pushing, Empty
<1>9. Carried' = Carried /\ Working' = Working
  BY <1>1, <1>2 DEF Carried, Working
<1>10. Once'
  BY <1>2, <1>9 DEF IInv, Once, OneSlot
<1>11. /\ Stream' = Stream /\ Nonb' = Nonb /\ Used' = Used
       /\ Popped' = Popped /\ Cleared' = Cleared
       /\ Pushed(la) = {f} /\ Pushed(la)' = {} /\ Pushed(api)' = Pushed(api)
  <2>1. Stream' = Stream
    BY <1>2, <1>9 DEF Stream
  <2>2. Nonb' = Nonb
    BY <1>1, <1>2, <1>4 DEF Nonb
  <2> QED BY <1>1, <1>4, <2>1, <2>2 DEF Used, Popped, Cleared, Pushed, f
<1>12. Places'
  <2> DEFINE pa == Pushed(api)
             po == Popped
             hole == Cleared
  <2>1. PlacesOf(unused, Used, pa, {f}, po, hole, made)
    BY <1>11 DEF IInv, Places
  <2> DEFINE v == [unused EXCEPT ![k] = f]
  <2>2. \A j \in Slots : v[j] = IF j = k THEN f ELSE unused[j]
    BY <1>3
  <2> HIDE DEF v, pa, po, hole
  <2>3. PlacesOf(v, Used, pa, {}, po, hole, made)
    BY <2>1, <2>2 DEF PlacesOf
  <2> QED BY <1>1, <1>11, <2>3 DEF Places, v, pa, po, hole
<1>13. Counts'
  BY <1>1, <1>11 DEF IInv, Counts
<1>14. Loaded'
  BY <1>1, <1>4, <1>11 DEF IInv, Loaded
<1>15. Index'
  <2>1. Gap' = Gap
    BY <1>1, <1>2 DEF Gap, Extra
  <2>2. unused'[MaxPictures] = NoFrame
    BY <1>3, <1>5, Params DEF IInv, Index
  <2>3. ASSUME api.pc \in {"scan", "write"} PROVE Near(unused, api.i, Gap)'
    <3> DEFINE u == unused
               j == api.i
               g == Gap
    <3>1. Near(u, j, g) /\ u \in [Slots -> Some] /\ j \in Slots /\ g \in Int
      BY <1>3, <2>3 DEF IInv, Index, Typed, ApiTypes
    <3> HIDE DEF u, j, g
    <3>2. Near([u EXCEPT ![k] = f], j, g)
      BY <1>3, <3>1, FilledUp
    <3> QED BY <1>1, <2>1, <3>2 DEF u, j, g
  <2> QED BY <1>1, <1>2, <1>4, <2>1, <2>2, <2>3 DEF IInv, Index
<1> QED BY <1>6, <1>7, <1>8, <1>10, <1>12, <1>13, <1>14, <1>15 DEF IInv

LEMMA LaPushStep ==
  ASSUME ~ReadsAgain, IInv, LaPush
  PROVE  IInv'
<1>1. la.pc \in {"load", "store", "scan", "write"}
  <2>1. la.pc # "test"
    BY DEF IInv, Typed, LaTypes, LaSteps
  <2> QED BY <2>1 DEF LaPush, PushUnused
<1> QED BY <1>1, LaLoadStep, LaStoreStep, LaScanStep, LaWriteStep

-----------------------------------------------------------------------------
(* The lookahead thread decides on a mini-GOP and lets it go.              *)

LEMMA DecideStep ==
  ASSUME IInv, NEW b \in 0..BFrames, Decide(b)
  PROVE  IInv'
<1>1. /\ UNCHANGED <<memory, ready, lastNonb, exit, slot, turn, input, api>>
      /\ la.pc = "idle" /\ b < Len(waiting)
      /\ waiting' = <<waiting[b + 1]>> \o RemoveAt(waiting, b + 1)
      /\ la' = [la EXCEPT !.pc = "update", !.b = b]
  BY DEF Decide
<1>2. UNCHANGED <<count, unused, made>> /\ Oldest' = Oldest
  BY <1>1 DEF memory, Oldest
<1>3. b \in Nat /\ waiting \in Seq(Frames) /\ Distinct(waiting) /\ la \in LaTypes
  BY Params DEF IInv, Typed, Once
<1>4. /\ waiting' \in Seq(Frames) /\ Distinct(waiting') /\ ToSet(waiting') = ToSet(waiting)
      /\ Len(waiting') = Len(waiting) /\ Len(waiting) \in Nat
  BY <1>1, <1>3, Led, Ranges
<1>5. la' \in LaTypes /\ la'.pc = "update" /\ la'.b = b
  <2> DEFINE a == [la EXCEPT !.pc = "update"]
             t == [a EXCEPT !.b = b]
  <2>1. la' = t
    BY <1>1, <1>3 DEF LaTypes
  <2>2. a \in LaTypes /\ a.pc = "update"
    BY <1>3 DEF LaTypes, LaSteps
  <2> HIDE DEF a
  <2>3. t \in LaTypes /\ t.pc = "update" /\ t.b = b
    BY <1>3, <2>2 DEF LaTypes
  <2> HIDE DEF t
  <2> QED BY <2>1, <2>3
<1>6. Typed'
  BY <1>1, <1>2, <1>4, <1>5 DEF IInv, Typed
<1>7. Control'
  <2>1. b >= 0 /\ b + 1 <= Len(waiting')
    BY <1>1, <1>3, <1>4
  <2> QED BY <1>1, <1>2, <1>5, <2>1 DEF IInv, Control, Popping, Pushing
<1>8. Ring'
  BY <1>1, <1>2 DEF IInv, Ring, Popping, Pushing, Empty
<1>9. Carried' = Carried /\ Working' = Working
  BY <1>1 DEF Carried, Working
<1>10. Once'
  BY <1>1, <1>4, <1>9 DEF IInv, Once, OneSlot
<1>11. Still
  <2>1. Stream' = Stream
    BY <1>1, <1>4, <1>9 DEF Stream
  <2>2. Nonb' = Nonb
    BY <1>1, <1>5 DEF Nonb
  <2> QED BY <1>1, <1>5, <2>1, <2>2 DEF Still, Pushed, Popped, Cleared
<1>12. Places' /\ Counts'
  BY <1>1, <1>11, StillKeeps DEF IInv, Counts, Still
<1>13. Loaded'
  BY <1>1, <1>2, <1>5, <1>11 DEF IInv, Loaded, Still
<1>14. Index'
  BY <1>1, <1>2, <1>5 DEF IInv, Index, Gap, Extra
<1> QED BY <1>6, <1>7, <1>8, <1>10, <1>12, <1>13, <1>14 DEF IInv

LEMMA UpdateLastNonbStep ==
  ASSUME IInv, UpdateLastNonb
  PROVE  IInv'
<1>1. /\ UNCHANGED <<memory, lists, api>>
      /\ la.pc = "update"
      /\ \/ lastNonb = NoFrame /\ la' = Go(la, "set")
         \/ lastNonb # NoFrame /\ la' = Release(la, lastNonb, "set")
  BY DEF UpdateLastNonb
<1>2. /\ UNCHANGED <<count, unused, made, waiting, ready, lastNonb, exit, slot, turn, input, api>>
      /\ Oldest' = Oldest
  BY <1>1 DEF memory, lists, Oldest
<1>3. /\ lastNonb \in Some /\ (lastNonb # NoFrame => lastNonb \in Frames) /\ la \in LaTypes
  BY DEF IInv, Typed, Some
<1>4. /\ la' \in LaTypes /\ la'.b = la.b
      /\ \/ lastNonb = NoFrame /\ la'.pc = "set"
         \/ /\ lastNonb # NoFrame /\ la'.pc = "load" /\ la'.f = lastNonb
            /\ la'.after = "set"
  <2>1. CASE lastNonb = NoFrame
    BY <1>1, <1>3, <2>1, Goes DEF LaSteps
  <2>2. CASE lastNonb # NoFrame
    <3>1. la' = Release(la, lastNonb, "set") /\ lastNonb \in Frames
      BY <1>1, <1>3, <2>2
    <3>2. /\ la' \in LaTypes /\ la'.pc = "load" /\ la'.f = lastNonb /\ la'.after = "set"
          /\ la'.b = la.b
      BY <1>3, <3>1, LaReleases
    <3> QED BY <2>2, <3>2
  <2> QED BY <2>1, <2>2
<1>5. Typed'
  BY <1>2, <1>4 DEF IInv, Typed
<1>6. Control'
  BY <1>1, <1>2, <1>3, <1>4 DEF IInv, Control, Popping, Pushing
<1>7. Ring'
  BY <1>2 DEF IInv, Ring, Popping, Pushing, Empty
<1>8. Carried' = Carried /\ Working' = Working
  BY <1>2 DEF Carried, Working
<1>9. Once'
  BY <1>2, <1>8 DEF IInv, Once, OneSlot
<1>10. Still
  <2>1. Stream' = Stream
    BY <1>2, <1>8 DEF Stream
  <2>2. Nonb' = Nonb
    BY <1>1, <1>2, <1>4 DEF Nonb
  <2> QED BY <1>1, <1>2, <1>4, <2>1, <2>2 DEF Still, Pushed, Popped, Cleared
<1>11. Places' /\ Counts'
  BY <1>2, <1>10, StillKeeps DEF IInv, Counts, Still
<1>12. Loaded'
  BY <1>2, <1>4, <1>10 DEF IInv, Loaded, Still
<1>13. Index'
  BY <1>2, <1>4 DEF IInv, Index, Gap, Extra
<1> QED BY <1>5, <1>6, <1>7, <1>9, <1>11, <1>12, <1>13 DEF IInv

LEMMA SetLastNonbStep ==
  ASSUME IInv, SetLastNonb
  PROVE  IInv'
<1>1. /\ UNCHANGED <<memory, waiting, ready, exit, slot, turn, input, api>>
      /\ la.pc = "set" /\ lastNonb' = waiting[1]
      /\ la' = [la EXCEPT !.pc = "hold", !.n = count[waiting[1]]]
  BY DEF SetLastNonb
<1>2. UNCHANGED <<count, unused, made>> /\ Oldest' = Oldest
  BY <1>1 DEF memory, Oldest
<1> DEFINE w == waiting[1]
<1>3. w \in ToSet(waiting) /\ w \in Frames /\ w \in Some /\ la \in LaTypes /\ count[w] \in Int
  <2>1. waiting \in Seq(Frames) /\ Len(waiting) \in Nat /\ 1 <= Len(waiting)
    BY <1>1, Ranges DEF IInv, Typed, LaTypes, Control
  <2>2. w \in ToSet(waiting) /\ w \in Frames
    BY <2>1, Ranges
  <2> QED BY <2>2 DEF IInv, Typed, Some
<1> HIDE DEF w
<1>4. /\ la' \in LaTypes /\ la'.pc = "hold" /\ la'.n = count[w] /\ la'.b = la.b
  <2> DEFINE a == [la EXCEPT !.pc = "hold"]
             t == [a EXCEPT !.n = count[w]]
  <2>1. la' = t
    BY <1>1, <1>3 DEF LaTypes, w
  <2>2. a \in LaTypes /\ a.pc = "hold" /\ a.b = la.b
    BY <1>3 DEF LaTypes, LaSteps
  <2> HIDE DEF a
  <2>3. t \in LaTypes /\ t.pc = "hold" /\ t.n = count[w] /\ t.b = la.b
    BY <1>3, <2>2 DEF LaTypes
  <2> HIDE DEF t
  <2> QED BY <2>1, <2>3
<1>5. Typed'
  BY <1>1, <1>2, <1>3, <1>4 DEF IInv, Typed, w
<1>6. api.pc # "closed" /\ (api.pc \in Pushing => api.after # "closed")
  BY <1>1 DEF IInv, Control
<1>7. Control'
  BY <1>1, <1>2, <1>4, <1>6 DEF IInv, Control, Popping, Pushing
<1>8. Ring'
  BY <1>1, <1>2 DEF IInv, Ring, Popping, Pushing, Empty
<1>9. Carried' = Carried /\ Working' = Working
  BY <1>1 DEF Carried, Working
<1>10. Once'
  BY <1>1, <1>9 DEF IInv, Once, OneSlot
<1>11. Nonb = {} /\ Nonb' = {}
  BY <1>1, <1>4, <1>6 DEF Nonb, Pushing
<1>12. Still
  <2>1. Stream' = Stream
    BY <1>1, <1>9 DEF Stream
  <2> QED BY <1>1, <1>4, <1>11, <2>1 DEF Still, Pushed, Popped, Cleared
<1>13. Places' /\ Counts'
  BY <1>1, <1>12, StillKeeps DEF IInv, Counts, Still
<1>14. Loaded'
  <2>1. count[w] = 1
    BY <1>3, <1>11 DEF IInv, Counts, CountsOf, Stream
  <2> QED BY <1>1, <1>2, <1>4, <1>12, <2>1 DEF IInv, Loaded, Still
<1>15. Index'
  BY <1>1, <1>2, <1>4 DEF IInv, Index, Gap, Extra
<1> QED BY <1>5, <1>7, <1>8, <1>10, <1>13, <1>14, <1>15 DEF IInv

LEMMA HoldStep ==
  ASSUME IInv, Hold
  PROVE  IInv'
<1> DEFINE w == lastNonb
<1>1. /\ UNCHANGED <<unused, made, lists, api>>
      /\ la.pc = "hold" /\ count' = [count EXCEPT ![w] = la.n + 1]
      /\ la' = Go(la, "shift")
  BY DEF Hold, Held
<1>2. /\ UNCHANGED <<waiting, ready, lastNonb, exit, slot, turn, input>>
      /\ Oldest' = Oldest
  BY <1>1 DEF lists, Oldest
<1>3. w \in ToSet(waiting) /\ w \in Frames /\ w # NoFrame /\ la \in LaTypes /\ la.n = 1
  <2>1. /\ waiting \in Seq(Frames) /\ Len(waiting) \in Nat /\ 1 <= Len(waiting)
        /\ w = waiting[1] /\ la \in LaTypes /\ la.n = 1
    BY <1>1, Ranges DEF IInv, Typed, LaTypes, Control, Loaded
  <2>2. w \in ToSet(waiting) /\ w \in Frames
    BY <2>1, Ranges
  <2> QED BY <2>1, <2>2, Params
<1>4. la' \in LaTypes /\ la'.pc = "shift" /\ la'.b = la.b
  BY <1>1, <1>3, Goes DEF LaSteps
<1>5. count \in [Frames -> Int] /\ count' \in [Frames -> Int]
  BY <1>1, <1>3 DEF IInv, Typed
<1>6. Typed'
  BY <1>1, <1>2, <1>4, <1>5 DEF IInv, Typed
<1>7. api.pc # "closed" /\ (api.pc \in Pushing => api.after # "closed")
  BY <1>1 DEF IInv, Control
<1>8. Control'
  BY <1>1, <1>2, <1>4, <1>7 DEF IInv, Control, Popping, Pushing
<1>9. Ring'
  BY <1>1, <1>2 DEF IInv, Ring, Popping, Pushing, Empty
<1>10. Carried' = Carried /\ Working' = Working
  BY <1>1, <1>2 DEF Carried, Working
<1>11. Once'
  BY <1>2, <1>10 DEF IInv, Once, OneSlot
<1>12. /\ Stream' = Stream /\ Nonb = {} /\ Nonb' = {w} /\ w \in Stream /\ Used' = Used
  <2>1. Stream' = Stream /\ w \in Stream
    BY <1>2, <1>3, <1>10 DEF Stream
  <2>2. Nonb = {}
    BY <1>1, <1>7 DEF Nonb, Pushing
  <2>3. Nonb' = {w}
    BY <1>1, <1>2, <1>3, <1>4, <1>7 DEF Nonb, Pushing
  <2> QED BY <2>1, <2>2, <2>3 DEF Used
<1>13. Places'
  <2>1. /\ Popped' = Popped /\ Cleared' = Cleared
        /\ Pushed(api)' = Pushed(api) /\ Pushed(la)' = Pushed(la)
    BY <1>1, <1>4 DEF Popped, Cleared, Pushed
  <2> QED BY <1>1, <1>12, <2>1 DEF IInv, Places
<1>14. /\ \A g \in Frames : g # w => count'[g] = count[g]
       /\ count'[w] = 2 /\ Stream \subseteq Frames
  <2>1. Stream \subseteq Frames
    BY DEF IInv, Typed, Control, Pushing, Stream, Working, ToSet, Some, Carried
  <2> QED BY <1>1, <1>3, <1>5, <2>1
<1>15. Carried \subseteq Frames /\ w \notin Carried
  BY <1>3, <1>12, <1>14 DEF IInv, Once, Stream
<1>16. Counts'
  <2>1. CountsOf(count', Stream, {w})
    BY <1>12, <1>14 DEF IInv, Counts, CountsOf
  <2>2. api.pc = "put" => api.f \notin {w}
    BY <1>15 DEF Carried
  <2> QED BY <1>1, <1>12, <2>1, <2>2 DEF Counts
<1>17. Loaded'
  <2>1. api.pc = "store" => api.f \in Carried
    BY <1>7 DEF IInv, Typed, ApiTypes, Carried, Pushing
  <2>2. api.pc = "store" => api.f # w /\ count'[api.f] = count[api.f]
    BY <1>14, <1>15, <2>1
  <2> QED BY <1>1, <1>4, <1>12, <2>2 DEF IInv, Loaded
<1>18. Index'
  BY <1>1, <1>2, <1>4 DEF IInv, Index, Gap, Extra
<1> QED BY <1>6, <1>8, <1>9, <1>11, <1>13, <1>16, <1>17, <1>18 DEF IInv

LEMMA ShiftStep ==
  ASSUME IInv, Shift
  PROVE  IInv'
<1>1. /\ UNCHANGED <<memory, lastNonb, exit, slot, turn, input, api>>
      /\ la.pc = "shift" /\ la' = Go(la, "idle")
      /\ ready' = ready \o SubSeq(waiting, 1, la.b + 1)
      /\ waiting' = SubSeq(waiting, la.b + 2, Len(waiting))
  BY DEF Shift
<1>2. UNCHANGED <<count, unused, made>> /\ Oldest' = Oldest
  BY <1>1 DEF memory, Oldest
<1>3. /\ waiting \in Seq(Frames) /\ Distinct(waiting) /\ Len(waiting) \in Nat
      /\ ready \in Seq(Frames) /\ Distinct(ready) /\ la \in LaTypes
      /\ la.b \in Int /\ la.b >= 0 /\ la.b + 1 <= Len(waiting)
      /\ ToSet(waiting) \cap ToSet(ready) = {}
  BY <1>1, Ranges DEF IInv, Typed, LaTypes, Control, Once
<1>4. la' \in LaTypes /\ la'.pc = "idle"
  BY <1>1, <1>3, Goes DEF LaSteps
<1> DEFINE k == la.b + 1
           a == SubSeq(waiting, 1, k)
           c == SubSeq(waiting, k + 1, Len(waiting))
<1>5. k \in 0..Len(waiting) /\ la.b + 2 = k + 1
  BY <1>3
<1>6. ready' = ready \o a /\ waiting' = c
  BY <1>1, <1>5
<1> HIDE DEF k
<1>7. /\ a \in Seq(Frames) /\ Distinct(a) /\ c \in Seq(Frames) /\ Distinct(c)
      /\ ToSet(a) \cap ToSet(c) = {} /\ ToSet(a) \cup ToSet(c) = ToSet(waiting)
  BY <1>3, <1>5, Cut
<1> HIDE DEF a, c
<1>8. /\ ready' \in Seq(Frames) /\ Distinct(ready') /\ ToSet(ready') = ToSet(ready) \cup ToSet(a)
  <2>1. ToSet(ready) \cap ToSet(a) = {}
    BY <1>3, <1>7
  <2> QED BY <1>3, <1>6, <1>7, <2>1, Joined
<1>9. /\ waiting' \in Seq(Frames) /\ Distinct(waiting')
      /\ ToSet(waiting') \cap ToSet(ready') = {}
      /\ ToSet(waiting') \cup ToSet(ready') = ToSet(waiting) \cup ToSet(ready)
  BY <1>3, <1>6, <1>7, <1>8
<1>10. Typed'
  BY <1>1, <1>2, <1>4, <1>8, <1>9 DEF IInv, Typed
<1>11. api.pc # "closed" /\ (api.pc \in Pushing => api.after # "closed")
  BY <1>1 DEF IInv, Control
<1>12. Control'
  BY <1>1, <1>2, <1>4, <1>11 DEF IInv, Control, Popping, Pushing
<1>13. Ring'
  BY <1>1, <1>2 DEF IInv, Ring, Popping, Pushing, Empty
<1>14. Carried' = Carried /\ Working' = Working
  BY <1>1 DEF Carried, Working
<1>15. Once'
  BY <1>1, <1>8, <1>9, <1>14 DEF IInv, Once, OneSlot
<1>16. Still
  <2>1. Stream' = Stream
    BY <1>9, <1>14 DEF Stream
  <2>2. Nonb' = Nonb
    BY <1>1, <1>4 DEF Nonb
  <2> QED BY <1>1, <1>4, <2>1, <2>2 DEF Still, Pushed, Popped, Cleared
<1>17. Places' /\ Counts'
  BY <1>1, <1>16, StillKeeps DEF IInv, Counts, Still
<1>18. Loaded'
  BY <1>1, <1>2, <1>4, <1>16 DEF IInv, Loaded, Still
<1>19. Index'
  BY <1>1, <1>2, <1>4 DEF IInv, Index, Gap, Extra
<1> QED BY <1>10, <1>12, <1>13, <1>15, <1>17, <1>18, <1>19 DEF IInv

LEMMA FinishStep ==
  ASSUME IInv, Finish
  PROVE  IInv'
<1>1. UNCHANGED <<memory, lists, api>> /\ la.pc = "idle" /\ la' = Go(la, "done")
  BY DEF Finish
<1>2. /\ UNCHANGED <<count, unused, made, waiting, ready, lastNonb, exit, slot, turn, input, api>>
      /\ Oldest' = Oldest
  BY <1>1 DEF memory, lists, Oldest
<1>3. la' \in LaTypes /\ la'.pc = "done"
  BY <1>1, Goes DEF IInv, Typed, LaSteps
<1>4. Typed'
  BY <1>2, <1>3 DEF IInv, Typed
<1>5. Control'
  BY <1>1, <1>2, <1>3 DEF IInv, Control, Popping, Pushing
<1>6. Ring'
  BY <1>2 DEF IInv, Ring, Popping, Pushing, Empty
<1>7. Carried' = Carried /\ Working' = Working
  BY <1>2 DEF Carried, Working
<1>8. Once'
  BY <1>2, <1>7 DEF IInv, Once, OneSlot
<1>9. Still
  <2>1. Stream' = Stream
    BY <1>2, <1>7 DEF Stream
  <2>2. Nonb' = Nonb
    BY <1>1, <1>2, <1>3 DEF Nonb
  <2> QED BY <1>1, <1>2, <1>3, <2>1, <2>2 DEF Still, Pushed, Popped, Cleared
<1>10. Places' /\ Counts'
  BY <1>2, <1>9, StillKeeps DEF IInv, Counts, Still
<1>11. Loaded'
  BY <1>2, <1>3, <1>9 DEF IInv, Loaded, Still
<1>12. Index'
  BY <1>2, <1>3 DEF IInv, Index, Gap, Extra
<1> QED BY <1>4, <1>5, <1>6, <1>8, <1>10, <1>11, <1>12 DEF IInv

-----------------------------------------------------------------------------
(* The theorems                                                            *)

LEMMA InitOK == Init => IInv
<1> SUFFICES ASSUME Init PROVE IInv
  OBVIOUS
<1>1. /\ api.pc = "idle" /\ la.pc = "idle" /\ api.i = 0 /\ lastNonb = NoFrame
      /\ waiting = <<>> /\ ready = <<>> /\ made = 0 /\ input = 0 /\ exit = FALSE /\ turn = 0
      /\ \A c \in Contexts : slot[c] = NoFrame
      /\ \A i \in Slots : unused[i] = NoFrame
  BY DEF Init
<1>2. Typed
  <2>1. api \in ApiTypes /\ la \in LaTypes
    BY Params DEF Init, ApiTypes, LaTypes, ApiSteps, LaSteps
  <2>2. /\ count \in [Frames -> Int] /\ unused \in [Slots -> Some] /\ slot \in [Contexts -> Some]
        /\ turn \in Contexts /\ lastNonb \in Some
    BY <1>1, Params DEF Init, Contexts
  <2>3. waiting \in Seq(Frames) /\ ready \in Seq(Frames)
    BY <1>1
  <2> QED BY <1>1, <2>1, <2>2, <2>3 DEF Typed
<1>3. Control
  BY <1>1 DEF Control, Popping, Pushing
<1>4. Ring
  BY <1>1, <1>2, Turned DEF Ring, Popping, Pushing, Empty, Typed
<1>5. ToSet(waiting) = {} /\ ToSet(ready) = {} /\ Working = {} /\ Carried = {}
  BY <1>1 DEF ToSet, Working, Carried
<1>6. Once
  BY <1>1, <1>5 DEF Once, Distinct, OneSlot
<1>7. Stream = {} /\ Nonb = {} /\ Used = {}
  BY <1>1, <1>5 DEF Stream, Nonb, Used
<1>8. Places
  BY <1>1, <1>7 DEF Places, PlacesOf, Pushed, Popped
<1>9. Counts /\ Loaded
  BY <1>1, <1>7 DEF Counts, CountsOf, Loaded
<1>10. Index
  BY <1>1, Params DEF Index, Gap, Extra
<1> QED BY <1>2, <1>3, <1>4, <1>6, <1>8, <1>9, <1>10 DEF IInv

LEMMA NextOK ==
  ASSUME ~ReadsAgain, IInv, [Next]_vars
  PROVE  IInv'
<1>1. CASE EncodeCall BY <1>1, EncodeCallStep
<1>2. CASE PopEmpty BY <1>2, PopEmptyStep
<1>3. CASE PopFound BY <1>3, PopFoundStep
<1>4. CASE PopScan BY <1>4, PopScanStep
<1>5. CASE PopRead BY <1>5, PopReadStep
<1>6. CASE PopClear BY <1>6, PopClearStep
<1>7. CASE PopCount BY <1>7, PopCountStep
<1>8. CASE Put BY <1>8, PutStep
<1>9. CASE FlushCall BY <1>9, FlushCallStep
<1>10. CASE Get BY <1>10, GetStep
<1>11. CASE ApiPush BY <1>11, ApiPushStep
<1>12. CASE End BY <1>12, EndStep
<1>13. CASE CloseCall BY <1>13, CloseCallStep
<1>14. CASE CloseJoin BY <1>14, CloseJoinStep
<1>15. CASE \E b \in 0..BFrames : Decide(b)
  BY <1>15, DecideStep
<1>16. CASE UpdateLastNonb BY <1>16, UpdateLastNonbStep
<1>17. CASE SetLastNonb BY <1>17, SetLastNonbStep
<1>18. CASE Hold BY <1>18, HoldStep
<1>19. CASE Shift BY <1>19, ShiftStep
<1>20. CASE Finish BY <1>20, FinishStep
<1>21. CASE LaPush BY <1>21, LaPushStep
<1>22. CASE UNCHANGED vars
  <2>1. /\ UNCHANGED <<count, unused, made, waiting, ready, lastNonb, exit, slot, turn, input>>
        /\ UNCHANGED <<api, la>> /\ Oldest' = Oldest
    BY <1>22 DEF vars, memory, lists, Oldest
  <2>2. Carried' = Carried /\ Working' = Working
    BY <2>1 DEF Carried, Working
  <2>3. Still
    BY <2>1, <2>2 DEF Still, memory, Stream, Nonb, Pushed, Popped, Cleared
  <2>4. Places' /\ Counts'
    BY <2>1, <2>3, StillKeeps DEF IInv, Counts, Still
  <2>5. Typed' /\ Control' /\ Ring' /\ Index'
    BY <2>1 DEF IInv, Typed, Control, Ring, Empty, Index, Gap, Extra
  <2>6. Once' /\ Loaded'
    BY <2>1, <2>2, <2>3 DEF IInv, Once, OneSlot, Loaded, Still
  <2> QED BY <2>4, <2>5, <2>6 DEF IInv
<1>23. CASE Terminated
  BY <1>22, <1>23 DEF Terminated
<1> QED BY <1>1, <1>2, <1>3, <1>4, <1>5, <1>6, <1>7, <1>8, <1>9, <1>10, <1>11, <1>12, <1>13,
           <1>14, <1>15, <1>16, <1>17, <1>18, <1>19, <1>20, <1>21, <1>22, <1>23 DEF Next

(* Where the frames are, and what their counts are, at every step of the   *)
(* two threads, in a build that loads a count once to decrement and to     *)
(* compare it (frame.c:751-752).                                           *)
THEOREM FrameRefsInvariant ==
  ASSUME ~ReadsAgain PROVE Spec => []IInv
<1> QED BY InitOK, NextOK, PTL DEF Spec

(* In such a build a picture never goes into a frame that the lookahead, a *)
(* context or last_nonb still refers to, although the counts and unused[0] *)
(* are changed by two threads with no lock; and a frame in work has one    *)
(* holder when x264_encoder_close looks (encoder.c:4023).                  *)
THEOREM NotReused ==
  ASSUME ~ReadsAgain PROVE Spec => []NotReusedInUse
<1>1. IInv => NotReusedInUse
  <2> SUFFICES ASSUME IInv PROVE NotReusedInUse
    OBVIOUS
  <2>1. ASSUME api.pc = "put" PROVE api.f \notin InUse
    <3>1. /\ api.f \notin ToSet(waiting) /\ api.f \notin ToSet(ready) /\ api.f \notin Working
      BY <2>1 DEF IInv, Once, Carried
    <3>2. api.f # NoFrame /\ api.f \notin Nonb
      BY <2>1, Params DEF IInv, Control, Counts
    <3>3. ASSUME ~LettingGo PROVE api.f # lastNonb
      <4>1. la.pc \in {"idle", "update", "hold", "shift", "done"}
        BY <3>3 DEF IInv, Typed, LaTypes, LaSteps, LettingGo
      <4>2. CASE la.pc = "hold"
        <5>1. /\ waiting \in Seq(Frames) /\ Len(waiting) \in Nat /\ 1 <= Len(waiting)
              /\ lastNonb = waiting[1]
          BY <4>2, Ranges DEF IInv, Typed, LaTypes, Control
        <5>2. lastNonb \in ToSet(waiting)
          BY <5>1, Ranges
        <5> QED BY <3>1, <5>2
      <4>3. CASE la.pc # "hold"
        BY <3>2, <4>1, <4>3 DEF Nonb
      <4> QED BY <4>2, <4>3
    <3> QED BY <3>1, <3>3 DEF InUse
  <2>2. ASSUME api.pc = "closed", NEW f \in Working PROVE count[f] = 1
    <3>1. la.pc = "done" /\ lastNonb = NoFrame
      BY <2>2 DEF IInv, Control
    <3>2. Nonb = {} /\ f \in Stream
      BY <2>2, <3>1 DEF Nonb, Stream
    <3> QED BY <3>2 DEF IInv, Counts, CountsOf
  <2> QED BY <2>1, <2>2 DEF NotReusedInUse, ApiAt
<1> QED BY <1>1, FrameRefsInvariant, PTL

(* In such a build the assertion of x264_frame_push_unused (frame.c:750)   *)
(* holds for both threads: whoever lets a frame go finds a holder counted. *)
THEOREM HeldOnRelease ==
  ASSUME ~ReadsAgain PROVE Spec => []HeldWhenReleased
<1>1. IInv => HeldWhenReleased
  <2> SUFFICES ASSUME IInv PROVE HeldWhenReleased
    OBVIOUS
  <2>1. ASSUME api.pc = "load" PROVE count[api.f] > 0
    <3>1. api.f \in Frames /\ api.after \in {"idle", "closed"}
      BY <2>1 DEF IInv, Typed, ApiTypes, Control, Pushing
    <3>2. api.f \in Stream \/ api.f \in Nonb
      BY <2>1, <3>1 DEF Stream, Carried, Nonb
    <3> QED BY <3>2 DEF IInv, Counts, CountsOf
  <2>2. ASSUME la.pc = "load" PROVE count[la.f] > 0
    <3>1. la.f \in Nonb
      BY <2>2, Params DEF IInv, Control, Pushing, Nonb
    <3> QED BY <3>1 DEF IInv, Counts, CountsOf
  <2> QED BY <2>1, <2>2 DEF HeldWhenReleased
<1> QED BY <1>1, FrameRefsInvariant, PTL

(* In such a build the unlocked list is a set of free frames: none is in   *)
(* it twice, and none of them carries a picture or is the one counted for  *)
(* last_nonb.                                                              *)
THEOREM ListedOnce ==
  ASSUME ~ReadsAgain
  PROVE  Spec => [](/\ \A i, j \in Slots : unused[i] = unused[j] /\ unused[i] # NoFrame => i = j
                    /\ \A i \in Slots : unused[i] # NoFrame => unused[i] \notin Stream \cup Nonb)
<1>1. IInv => /\ \A i, j \in Slots : unused[i] = unused[j] /\ unused[i] # NoFrame => i = j
              /\ \A i \in Slots : unused[i] # NoFrame => unused[i] \notin Stream \cup Nonb
  BY DEF IInv, Places, PlacesOf, Used
<1> QED BY <1>1, FrameRefsInvariant, PTL
=============================================================================
