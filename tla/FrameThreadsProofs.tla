------------------------- MODULE FrameThreadsProofs -------------------------
(***************************************************************************)
(* The safety of FrameThreads for any number of contexts, references and   *)
(* rows, with failing allocations and slices.                              *)
(*                                                                         *)
(* No context names a frame twice (NoRepeats), so that a count is the      *)
(* number of contexts that hold the frame (CountsOK).  What a context      *)
(* refers to was a reference, or the picture, of each context before it    *)
(* (RingOK): hence few frames are held at a time, and a frame in the lists *)
(* of a picture in work is held with it (WorkOK).  The rows of a frame     *)
(* are those of the one picture that goes to it (RowsOK).                  *)
(***************************************************************************)
EXTENDS FrameThreads, FiniteSetTheorems, SequenceTheorems, TLAPS

APIs   == {"filling", "idle", "wait", "failed", "closing", "closed"}
Phases == {"free", "queued", "started", "computed", "finished"}

Stores == [count : [Frames -> Nat], unused : SUBSET Frames, made : Frames]

Typed ==
  /\ turn \in Contexts /\ drained \in BOOLEAN /\ api \in APIs
  /\ reference \in [Contexts -> Seq(Frames)]
  /\ fdec \in [Contexts -> Frames \cup {NoFrame}]
  /\ fref \in [Contexts -> SUBSET Frames]
  /\ row \in [Contexts -> 0..Rows]
  /\ at \in [Contexts -> {"wait", "code", "end"}]
  /\ store \in Stores
  /\ kept \in [Frames -> BOOLEAN]
  /\ lines \in [Frames -> Int] /\ done \in [Frames -> 0..Rows]
  /\ phase \in [Contexts -> Phases]
  /\ queue \in Seq(Contexts)
  /\ result \in [Contexts -> Results \cup {NoResult}]
  /\ returned \in Results \cup {NoResult} /\ open \in BOOLEAN

(* The queue of the pool, and where the API thread is.                     *)
QueueOK ==
  /\ \A k \in 1..Len(queue) : phase[queue[k]] = "queued"
  /\ \A k, l \in 1..Len(queue) : queue[k] = queue[l] => k = l

ApiOK ==
  /\ open <=> api \notin {"closing", "closed"}
  /\ api = "filling" => \A c \in Contexts : phase[c] = "free"
  /\ api = "idle" => phase[Oldest] = "free"
  /\ api \in {"filling", "idle", "wait"} => \A c \in Contexts : fdec[c] # NoFrame
  /\ api = "closed" => \A c \in Contexts : phase[c] \notin {"started", "computed"}
  /\ api = "closed" => \A c \in Contexts : fdec[c] = NoFrame /\ reference[c] = <<>>
  /\ \A c \in Contexts : fdec[c] = NoFrame => phase[c] = "free" \/ api = "closed"

(* No list names a frame twice, and none names the frame that is being     *)
(* reconstructed.                                                          *)
Distinct(s) == \A i, j \in 1..Len(s) : s[i] = s[j] => i = j

NoRepeats ==
  \A c \in Contexts :
    /\ Len(reference[c]) <= NumRef
    /\ Distinct(reference[c])
    /\ fdec[c] \notin ToSet(reference[c])

(* The frames a context holds, and the contexts that hold a frame.         *)
HeldBy(c)     == ToSet(reference[c]) \cup ({fdec[c]} \ {NoFrame})
Holdings      == [c \in Contexts |-> HeldBy(c)]
Holders(H, f) == {c \in Contexts : f \in H[c]}

(* The counts and the unused frames of s are those of contexts that hold   *)
(* the frames H.                                                           *)
Accounts(s, H) ==
  /\ s \in Stores
  /\ \A f \in Frames : s.count[f] = Cardinality(Holders(H, f))
  /\ \A f \in Frames : f \in s.unused <=> f <= s.made /\ Holders(H, f) = {}
  /\ \A f \in Frames : f > s.made => Holders(H, f) = {}

CountsOK ==
  IF api = "closed" THEN \A f \in Frames : store.count[f] = 0
                    ELSE Accounts(store, Holdings)

(* The contexts between c and an older one d, this one included.           *)
Between(c, d) == {e \in Contexts : Age(c) < Age(e) /\ Age(e) <= Age(d)}

RingOK ==
  /\ \A c, d \in Contexts : Age(c) < Age(d) =>
       ToSet(reference[c]) \subseteq ToSet(reference[d]) \cup {fdec[e] : e \in Between(c, d)}
  /\ store.made <= N + NumRef

Working(c) == phase[c] \in {"queued", "started"} /\ api # "closed"

WorkOK ==
  /\ \A c \in Contexts : phase[c] \notin {"queued", "started"} => fref[c] = {}
  /\ \A c \in Contexts : Working(c) => fref[c] \subseteq ToSet(reference[c])
  /\ \A c, d \in Contexts : Busy(c) /\ Busy(d) /\ c # d =>
        /\ fdec[c] # fdec[d]
        /\ fdec[d] \in fref[c] => Age(d) > Age(c)

RowsOK ==
  /\ \A f \in Frames : lines[f] = -1 \/ (done[f] > 0 /\ lines[f] = Completed(done[f]))
  /\ \A c \in Contexts : Working(c) =>
        /\ done[fdec[c]] = row[c]
        /\ kept[fdec[c]] \/ lines[fdec[c]] = -1
        /\ at[c] # "end" => row[c] < Rows
        /\ row[c] = 0 => at[c] # "end"
        /\ phase[c] = "queued" => at[c] = "wait"
  /\ ReadsOnlyWritten

IInv == Typed /\ QueueOK /\ ApiOK /\ NoRepeats /\ CountsOK /\ RingOK /\ WorkOK /\ RowsOK

-----------------------------------------------------------------------------
(* Numbers, lists and cardinalities.                                       *)

LEMMA Params ==
  /\ N \in Nat /\ N > 1 /\ NumRef \in Nat /\ NumRef > 0 /\ Rows \in Nat /\ Rows > 0
  /\ Reach \in Nat /\ Room = N + NumRef + 3
  /\ Frames = 1..Room /\ Contexts = 0..(N - 1) /\ NoFrame \notin Frames
BY FrameThreadsAssumption DEF Room, Frames, Contexts, NoFrame

LEMMA ModN ==
  ASSUME NEW x \in 0..(2 * N - 1)
  PROVE  x % N = IF x < N THEN x ELSE x - N
<1>1. N \in Nat /\ N > 0
  BY Params
<1>2. CASE x < N
  <2>1. x \in 0..(N - 1)
    BY <1>1, <1>2
  <2> QED BY <1>1, <1>2, <2>1
<1>3. CASE x >= N
  <2>1. x - N \in 0..(N - 1) /\ x = (x - N) + N
    BY <1>1, <1>3
  <2>2. ((x - N) + N) % N = (x - N) % N
    BY <1>1, <2>1
  <2> QED BY <1>1, <2>1, <2>2
<1> QED BY <1>1, <1>2, <1>3

(* The ring: when it turns, the oldest context becomes the youngest one,   *)
(* and all others get older.                                               *)
LEMMA Ages ==
  ASSUME turn \in Contexts
  PROVE  /\ \A d \in Contexts : Age(d) \in 0..(N - 1)
         /\ \A d \in Contexts : Age(d) = IF d <= turn THEN turn - d ELSE turn - d + N
         /\ Oldest \in Contexts /\ Oldest = IF turn = N - 1 THEN 0 ELSE turn + 1
<1>1. /\ N \in Nat /\ N > 1 /\ turn \in 0..(N - 1)
      /\ \A d \in Contexts : d \in 0..(N - 1)
  BY Params
<1>2. ASSUME NEW d \in Contexts
      PROVE  /\ Age(d) = IF d <= turn THEN turn - d ELSE turn - d + N
             /\ Age(d) \in 0..(N - 1)
  <2> DEFINE x == turn - d + N
  <2>1. x \in 0..(2 * N - 1)
    BY <1>1
  <2> HIDE DEF x
  <2>2. x % N = IF x < N THEN x ELSE x - N
    BY <2>1, ModN
  <2> QED BY <1>1, <2>2 DEF Age, x
<1>3. Oldest = IF turn + 1 < N THEN turn + 1 ELSE turn + 1 - N
  <2> DEFINE x == turn + 1
  <2>1. x \in 0..(2 * N - 1)
    BY <1>1
  <2> HIDE DEF x
  <2>2. x % N = IF x < N THEN x ELSE x - N
    BY <2>1, ModN
  <2>3. Oldest = x % N
    BY DEF Oldest, After, x
  <2> QED BY <1>1, <2>2, <2>3 DEF x
<1> QED BY <1>1, <1>2, <1>3, Params

LEMMA Turned ==
  ASSUME turn \in Contexts, NEW c \in Contexts, c = Oldest, turn' = c
  PROVE  /\ c # turn
         /\ Age(c)' = 0 /\ Age(c) = N - 1 /\ Age(turn) = 0
         /\ \A d \in Contexts \ {c} : Age(d)' = Age(d) + 1 /\ Age(d) < N - 1
<1>1. /\ N \in Nat /\ N > 1 /\ turn \in 0..(N - 1) /\ c \in 0..(N - 1)
      /\ \A d \in Contexts : d \in 0..(N - 1)
  BY Params
<1>2. /\ \A d \in Contexts : Age(d) = IF d <= turn THEN turn - d ELSE turn - d + N
      /\ c = IF turn = N - 1 THEN 0 ELSE turn + 1
  BY Ages
<1>3. ASSUME NEW d \in Contexts
      PROVE  Age(d)' = IF d <= c THEN c - d ELSE c - d + N
  <2> DEFINE x == c - d + N
  <2>1. x \in 0..(2 * N - 1)
    BY <1>1
  <2> HIDE DEF x
  <2>2. x % N = IF x < N THEN x ELSE x - N
    BY <2>1, ModN
  <2>3. Age(d)' = x % N
    BY DEF Age, x
  <2> QED BY <1>1, <2>2, <2>3 DEF x
<1>4. Age(c)' = 0 /\ Age(c) = N - 1 /\ Age(turn) = 0 /\ c # turn
  BY <1>1, <1>2, <1>3
<1>5. ASSUME NEW d \in Contexts \ {c} PROVE Age(d)' = Age(d) + 1 /\ Age(d) < N - 1
  BY <1>1, <1>2, <1>3
<1> QED BY <1>4, <1>5

LEMMA FiniteContexts ==
  /\ IsFiniteSet(Contexts)
  /\ \A S \in SUBSET Contexts : /\ IsFiniteSet(S) /\ Cardinality(S) \in Nat
                                /\ Cardinality(S) = 0 <=> S = {}
<1>1. IsFiniteSet(Contexts)
  BY Params, FS_Interval
<1>2. ASSUME NEW S \in SUBSET Contexts
      PROVE  IsFiniteSet(S) /\ Cardinality(S) \in Nat /\ (Cardinality(S) = 0 <=> S = {})
  <2>1. IsFiniteSet(S)
    BY <1>1, FS_Subset
  <2> QED BY <2>1, FS_CardinalityType, FS_EmptySet
<1> QED BY <1>1, <1>2

(* A frame is at most once in a list without repetitions.                  *)
LEMMA TimesOne ==
  ASSUME NEW s \in Seq(Frames), Distinct(s), NEW f
  PROVE  Times(f, s) = IF f \in ToSet(s) THEN 1 ELSE 0
<1>1. DOMAIN s = 1..Len(s)
  OBVIOUS
<1>2. CASE f \in ToSet(s)
  <2>1. PICK i \in 1..Len(s) : s[i] = f
    BY <1>1, <1>2 DEF ToSet
  <2>2. {j \in DOMAIN s : s[j] = f} = {i}
    BY <1>1, <2>1 DEF Distinct
  <2> QED BY <1>2, <2>2, FS_Singleton DEF Times
<1>3. CASE f \notin ToSet(s)
  <2>1. {j \in DOMAIN s : s[j] = f} = {}
    BY <1>3 DEF ToSet
  <2> QED BY <1>3, <2>1, FS_EmptySet DEF Times
<1> QED BY <1>2, <1>3

(* The number of contexts that hold f, when one of them changes what it    *)
(* holds.                                                                  *)
One(f, X) == IF f \in X THEN 1 ELSE 0

LEMMA HolderChanges ==
  ASSUME NEW H \in [Contexts -> SUBSET Frames], NEW c \in Contexts,
         NEW X \in SUBSET Frames, NEW f
  PROVE  LET G == [H EXCEPT ![c] = X]
         IN  /\ Holders(G, f) = IF f \in X THEN Holders(H, f) \cup {c}
                                           ELSE Holders(H, f) \ {c}
             /\ Cardinality(Holders(G, f))
                  = Cardinality(Holders(H, f)) + One(f, X) - One(f, H[c])
             /\ Cardinality(Holders(H, f)) \in Nat /\ Cardinality(Holders(G, f)) \in Nat
<1> DEFINE G == [H EXCEPT ![c] = X]
           A == Holders(H, f)
           B == Holders(G, f)
<1>1. A \in SUBSET Contexts /\ B \in SUBSET Contexts
  BY DEF Holders
<1>2. B = IF f \in X THEN A \cup {c} ELSE A \ {c}
  BY DEF Holders
<1>3. c \in A <=> f \in H[c]
  BY DEF Holders
<1> HIDE DEF A, B
<1>4. IsFiniteSet(A) /\ Cardinality(A) \in Nat /\ Cardinality(B) \in Nat
  BY <1>1, FiniteContexts
<1>5. One(f, H[c]) = (IF c \in A THEN 1 ELSE 0) /\ One(f, X) = IF f \in X THEN 1 ELSE 0
  BY <1>3 DEF One
<1>6. Cardinality(A \cup {c}) = IF c \in A THEN Cardinality(A) ELSE Cardinality(A) + 1
  BY <1>4, FS_AddElement
<1>7. Cardinality(A \ {c}) = IF c \in A THEN Cardinality(A) - 1 ELSE Cardinality(A)
  BY <1>4, FS_RemoveElement
<1>8. Cardinality(B) = Cardinality(A) + One(f, X) - One(f, H[c])
  <2>1. CASE f \in X
    <3>1. Cardinality(B) = Cardinality(A \cup {c}) /\ One(f, X) = 1
      BY <1>2, <1>5, <2>1
    <3> QED BY <1>4, <1>5, <1>6, <3>1
  <2>2. CASE f \notin X
    <3>1. Cardinality(B) = Cardinality(A \ {c}) /\ One(f, X) = 0
      BY <1>2, <1>5, <2>2
    <3> QED BY <1>4, <1>5, <1>7, <3>1
  <2> QED BY <2>1, <2>2
<1> QED BY <1>2, <1>4, <1>8 DEF A, B

LEMMA HoldersFacts ==
  ASSUME NEW H \in [Contexts -> SUBSET Frames], NEW f
  PROVE  /\ Holders(H, f) \in SUBSET Contexts
         /\ Cardinality(Holders(H, f)) \in Nat
         /\ Cardinality(Holders(H, f)) = 0 <=> Holders(H, f) = {}
BY FiniteContexts DEF Holders

(* x264_thread_sync_context: c lets go of what it holds, and holds what p  *)
(* holds.                                                                  *)
LEMMA Synchronised ==
  ASSUME Typed, Holdings \in [Contexts -> SUBSET Frames], Accounts(store, Holdings),
         NEW c \in Contexts, NEW p \in Contexts,
         NEW new \in Seq(Frames), Distinct(new), ToSet(new) = Holdings[p],
         NEW old \in Seq(Frames), Distinct(old), ToSet(old) = Holdings[c],
         NEW G, G = [Holdings EXCEPT ![c] = Holdings[p]],
         NEW t, t = Release(Hold(store, new), old)
  PROVE  Accounts(t, G) /\ t.made = store.made
<1> DEFINE H == Holdings
           s == store
<1>0. /\ H \in [Contexts -> SUBSET Frames] /\ Accounts(s, H)
      /\ ToSet(new) = H[p] /\ ToSet(old) = H[c]
      /\ G = [H EXCEPT ![c] = H[p]] /\ t = Release(Hold(s, new), old)
  OBVIOUS
<1> SUFFICES Accounts(t, G) /\ t.made = s.made
  OBVIOUS
<1> HIDE DEF H, s
<1> USE <1>0
<1>1. /\ s \in Stores
      /\ \A f \in Frames : s.count[f] = Cardinality(Holders(H, f))
      /\ \A f \in Frames : f \in s.unused <=> f <= s.made /\ Holders(H, f) = {}
      /\ \A f \in Frames : f > s.made => Holders(H, f) = {}
  BY DEF Accounts
<1>2. \A f \in Frames : Times(f, new) = One(f, H[p]) /\ Times(f, old) = One(f, H[c])
  BY TimesOne DEF One
<1>3. ASSUME NEW f \in Frames
      PROVE  /\ Holders(G, f) = IF f \in H[p] THEN Holders(H, f) \cup {c}
                                              ELSE Holders(H, f) \ {c}
             /\ Cardinality(Holders(G, f))
                  = Cardinality(Holders(H, f)) + One(f, H[p]) - One(f, H[c])
             /\ Cardinality(Holders(H, f)) \in Nat /\ Cardinality(Holders(G, f)) \in Nat
  <2>1. H[p] \in SUBSET Frames
    OBVIOUS
  <2>2. LET K == [H EXCEPT ![c] = H[p]]
        IN  /\ Holders(K, f) = IF f \in H[p] THEN Holders(H, f) \cup {c}
                                             ELSE Holders(H, f) \ {c}
            /\ Cardinality(Holders(K, f))
                 = Cardinality(Holders(H, f)) + One(f, H[p]) - One(f, H[c])
            /\ Cardinality(Holders(H, f)) \in Nat /\ Cardinality(Holders(K, f)) \in Nat
    BY <2>1, HolderChanges
  <2> QED BY <2>2
<1>4. /\ \A f \in Frames : t.count[f] = s.count[f] + Times(f, new) - Times(f, old)
      /\ t.count = [f \in Frames |-> t.count[f]]
  <2> DEFINE h == Hold(s, new)
  <2>1. h.count = [f \in Frames |-> s.count[f] + Times(f, new)]
    BY DEF Hold
  <2>2. t.count = [f \in Frames |-> h.count[f] - Times(f, old)]
    BY DEF Release
  <2> HIDE DEF h
  <2>3. ASSUME NEW f \in Frames PROVE t.count[f] = s.count[f] + Times(f, new) - Times(f, old)
    <3>1. h.count[f] = s.count[f] + Times(f, new)
      BY <2>1
    <3>2. t.count[f] = h.count[f] - Times(f, old)
      BY <2>2
    <3>3. s.count[f] \in Nat /\ Times(f, new) \in Int /\ Times(f, old) \in Int
      BY <1>1, <1>2 DEF One, Stores
    <3> QED BY <3>1, <3>2, <3>3
  <2>4. t.count = [f \in Frames |-> t.count[f]]
    BY <2>2
  <2> QED BY <2>3, <2>4
<1>5. /\ t.unused = s.unused \cup {f \in Frames : f \in ToSet(old) /\ t.count[f] = 0}
      /\ t.made = s.made
      /\ t = [count |-> t.count, unused |-> t.unused, made |-> t.made]
  <2>1. t = Release(Hold(s, new), old)
    BY <1>0
  <2> QED BY ONLY <2>1 DEF Release, Hold
<1>6. \A f \in Frames : t.count[f] = Cardinality(Holders(G, f))
  BY <1>1, <1>2, <1>3, <1>4
<1>7. t \in Stores
  <2>1. t.count \in [Frames -> Nat]
    <3>1. \A f \in Frames : t.count[f] \in Nat
      BY <1>3, <1>6
    <3>2. t.count = [f \in Frames |-> t.count[f]]
      BY <1>4
    <3> QED BY <3>1, <3>2
  <2>2. t.unused \subseteq Frames /\ t.made \in Frames
    BY <1>1, <1>5 DEF Stores
  <2> QED BY <1>5, <2>1, <2>2 DEF Stores
<1>8. ASSUME NEW f \in Frames
      PROVE  /\ f \in t.unused <=> f <= t.made /\ Holders(G, f) = {}
             /\ f > t.made => Holders(G, f) = {}
  <2>1. /\ c \in Holders(H, f) <=> f \in H[c]
        /\ \A d \in Holders(H, f) : d \in Contexts
        /\ p \in Holders(H, f) <=> f \in H[p]
    BY DEF Holders
  <2>2. Holders(G, f) = IF f \in H[p] THEN Holders(H, f) \cup {c} ELSE Holders(H, f) \ {c}
    BY <1>3
  <2>3. t.count[f] = 0 <=> Holders(G, f) = {}
    <3>1. G \in [Contexts -> SUBSET Frames]
      OBVIOUS
    <3>2. Cardinality(Holders(G, f)) = 0 <=> Holders(G, f) = {}
      BY <3>1, HoldersFacts
    <3> QED BY <1>6, <3>2
  <2>4. f \in t.unused <=> f \in s.unused \/ (f \in H[c] /\ Holders(G, f) = {})
    BY <1>5, <2>3
  <2>5. f \in s.unused <=> f <= s.made /\ Holders(H, f) = {}
    BY <1>1
  <2>6. f > s.made => Holders(H, f) = {}
    BY <1>1
  <2>7. s.made \in Nat /\ f \in Nat
    BY <1>1, Params DEF Stores
  <2>8. f <= s.made \/ f > s.made
    BY <2>7
  <2>9. t.made = s.made
    BY <1>5
  <2> QED BY <2>1, <2>2, <2>4, <2>5, <2>6, <2>7, <2>8, <2>9
<1> QED BY <1>5, <1>6, <1>7, <1>8 DEF Accounts

(* x264_frame_push_unused of the frames of a list that c holds.            *)
LEMMA Released ==
  ASSUME NEW H \in [Contexts -> SUBSET Frames], NEW s, Accounts(s, H),
         NEW c \in Contexts, NEW old \in Seq(Frames), Distinct(old), ToSet(old) \subseteq H[c]
  PROVE  /\ Accounts(Release(s, old), [H EXCEPT ![c] = H[c] \ ToSet(old)])
         /\ Release(s, old).made = s.made
<1> DEFINE X == H[c] \ ToSet(old)
           G == [H EXCEPT ![c] = X]
           t == Release(s, old)
<1>1. /\ s \in Stores
      /\ \A f \in Frames : s.count[f] = Cardinality(Holders(H, f))
      /\ \A f \in Frames : f \in s.unused <=> f <= s.made /\ Holders(H, f) = {}
      /\ \A f \in Frames : f > s.made => Holders(H, f) = {}
  BY DEF Accounts
<1>2. /\ t.count = [f \in Frames |-> s.count[f] - Times(f, old)]
      /\ t.unused = s.unused \cup {f \in Frames : f \in ToSet(old) /\ t.count[f] = 0}
      /\ t.made = s.made
      /\ t = [count |-> t.count, unused |-> t.unused, made |-> t.made]
  BY DEF Release
<1> HIDE DEF t
<1>3. ASSUME NEW f \in Frames
      PROVE  /\ Holders(G, f) = IF f \in X THEN Holders(H, f) \cup {c} ELSE Holders(H, f) \ {c}
             /\ t.count[f] = Cardinality(Holders(G, f))
             /\ t.count[f] \in Nat
             /\ t.count[f] = 0 <=> Holders(G, f) = {}
  <2>1. X \in SUBSET Frames /\ G \in [Contexts -> SUBSET Frames]
    OBVIOUS
  <2>2. /\ Holders(G, f) = IF f \in X THEN Holders(H, f) \cup {c} ELSE Holders(H, f) \ {c}
        /\ Cardinality(Holders(G, f)) = Cardinality(Holders(H, f)) + One(f, X) - One(f, H[c])
        /\ Cardinality(Holders(H, f)) \in Nat /\ Cardinality(Holders(G, f)) \in Nat
    <3> HIDE DEF X
    <3> QED BY <2>1, HolderChanges
  <2>3. Cardinality(Holders(G, f)) = 0 <=> Holders(G, f) = {}
    BY <2>1, HoldersFacts
  <2>4. Times(f, old) = IF f \in ToSet(old) THEN 1 ELSE 0
    BY TimesOne
  <2>5. One(f, X) - One(f, H[c]) = 0 - Times(f, old)
    <3>1. CASE f \in ToSet(old)
      BY <2>4, <3>1 DEF One
    <3>2. CASE f \notin ToSet(old)
      BY <2>4, <3>2 DEF One
    <3> QED BY <3>1, <3>2
  <2>6. t.count[f] = Cardinality(Holders(H, f)) - Times(f, old)
    BY <1>1, <1>2
  <2>7. t.count[f] = Cardinality(Holders(G, f))
    <3>1. One(f, X) \in Int /\ One(f, H[c]) \in Int /\ Times(f, old) \in Int
      BY <2>4 DEF One
    <3> QED BY <2>2, <2>5, <2>6, <3>1
  <2> QED BY <2>2, <2>3, <2>7
<1>4. t \in Stores
  <2>1. t.count \in [Frames -> Nat]
    <3>1. \A f \in Frames : t.count[f] \in Nat
      BY <1>3
    <3>2. t.count = [f \in Frames |-> t.count[f]]
      BY <1>2
    <3> QED BY <3>1, <3>2
  <2>2. t.unused \subseteq Frames /\ t.made \in Frames
    BY <1>1, <1>2 DEF Stores
  <2> QED BY <1>2, <2>1, <2>2 DEF Stores
<1>5. ASSUME NEW f \in Frames
      PROVE  /\ f \in t.unused <=> f <= t.made /\ Holders(G, f) = {}
             /\ f > t.made => Holders(G, f) = {}
  <2>1. c \in Holders(H, f) <=> f \in H[c]
    BY DEF Holders
  <2>2. Holders(G, f) = IF f \in X THEN Holders(H, f) \cup {c} ELSE Holders(H, f) \ {c}
    BY <1>3
  <2>3. f \in t.unused <=> f \in s.unused \/ (f \in ToSet(old) /\ Holders(G, f) = {})
    BY <1>2, <1>3
  <2>4. f \in s.unused <=> f <= s.made /\ Holders(H, f) = {}
    BY <1>1
  <2>5. f > s.made => Holders(H, f) = {}
    BY <1>1
  <2>6. s.made \in Nat /\ f \in Nat
    BY <1>1, Params DEF Stores
  <2>7. f <= s.made \/ f > s.made
    BY <2>6
  <2>8. t.made = s.made
    BY <1>2
  <2>9. Holders(G, f) = {} /\ Holders(H, f) # {} => f \in ToSet(old)
    BY <2>1, <2>2
  <2>10. f \in ToSet(old) => f \in H[c]
    OBVIOUS
  <2> QED BY <2>1, <2>2, <2>3, <2>4, <2>5, <2>6, <2>7, <2>8, <2>9, <2>10
<1> QED BY <1>2, <1>3, <1>4, <1>5 DEF Accounts, t

(* x264_frame_pop_unused: nobody holds the frame that c is given.          *)
LEMMA Popped ==
  ASSUME NEW H \in [Contexts -> SUBSET Frames], NEW s, Accounts(s, H),
         NEW c \in Contexts, Taken(s) \in Frames
  PROVE  /\ Holders(H, Taken(s)) = {}
         /\ Accounts(Pop(s), [H EXCEPT ![c] = H[c] \cup {Taken(s)}])
         /\ Pop(s).made = IF s.unused = {} THEN s.made + 1 ELSE s.made
<1> DEFINE g == Taken(s)
           X == H[c] \cup {g}
           G == [H EXCEPT ![c] = X]
           t == Pop(s)
<1>1. /\ s \in Stores
      /\ \A f \in Frames : s.count[f] = Cardinality(Holders(H, f))
      /\ \A f \in Frames : f \in s.unused <=> f <= s.made /\ Holders(H, f) = {}
      /\ \A f \in Frames : f > s.made => Holders(H, f) = {}
  BY DEF Accounts
<1>2. /\ t.count = [s.count EXCEPT ![g] = 1]
      /\ t.unused = s.unused \ {g}
      /\ t.made = IF s.unused = {} THEN s.made + 1 ELSE s.made
      /\ t = [count |-> t.count, unused |-> t.unused, made |-> t.made]
  BY DEF Pop
<1>3. IF s.unused = {} THEN g = s.made + 1 ELSE g \in s.unused
  BY DEF Taken
<1>4. s.made \in Nat /\ g \in Frames /\ \A f \in Frames : f \in Nat
  BY <1>1, Params DEF Stores
<1> HIDE DEF t, g
<1>5. Holders(H, g) = {}
  BY <1>1, <1>3, <1>4
<1>6. g <= t.made
  <2>1. CASE s.unused = {}
    BY <1>2, <1>3, <1>4, <2>1
  <2>2. CASE s.unused # {}
    BY <1>1, <1>2, <1>3, <1>4, <2>2
  <2> QED BY <2>1, <2>2
<1>7. t.made \in Frames /\ t.made >= s.made
  BY <1>1, <1>2, <1>3, <1>4 DEF Stores
<1>8. t \in Stores
  <2>1. s.count \in [Frames -> Nat] /\ s.unused \subseteq Frames /\ 1 \in Nat
    BY <1>1 DEF Stores
  <2>2. t.count \in [Frames -> Nat]
    BY <1>2, <2>1
  <2>3. t.unused \subseteq Frames
    BY <1>2, <2>1
  <2> QED BY <1>2, <1>7, <2>2, <2>3 DEF Stores
<1>9. X \in SUBSET Frames /\ G \in [Contexts -> SUBSET Frames]
  BY <1>4
<1>10. ASSUME NEW f \in Frames, f # g PROVE Holders(G, f) = Holders(H, f)
  BY <1>10 DEF Holders
<1>11. Holders(G, g) = {c}
  BY <1>5, <1>4 DEF Holders
<1>12. ASSUME NEW f \in Frames PROVE t.count[f] = Cardinality(Holders(G, f))
  <2>1. CASE f = g
    <3>1. t.count[g] = 1
      BY <1>1, <1>2, <1>4 DEF Stores
    <3> QED BY <1>11, <2>1, <3>1, FS_Singleton
  <2>2. CASE f # g
    <3>1. t.count[f] = s.count[f]
      BY <1>1, <1>2, <2>2 DEF Stores
    <3> QED BY <1>1, <1>10, <2>2, <3>1
  <2> QED BY <2>1, <2>2
<1>13. ASSUME NEW f \in Frames
       PROVE  /\ f \in t.unused <=> f <= t.made /\ Holders(G, f) = {}
              /\ f > t.made => Holders(G, f) = {}
  <2>1. CASE f = g
    <3>1. g \notin t.unused /\ Holders(G, g) # {}
      BY <1>2, <1>11
    <3>2. t.made \in Nat /\ g \in Nat
      BY <1>4, <1>7, Params
    <3>3. ~(g > t.made)
      BY <1>6, <3>2
    <3> QED BY <2>1, <3>1, <3>3
  <2>2. CASE f # g
    <3>1. Holders(G, f) = Holders(H, f)
      BY <1>10, <2>2
    <3>2. f \in t.unused <=> f \in s.unused
      BY <1>2, <2>2
    <3>3. CASE s.unused # {}
      BY <1>1, <1>2, <3>1, <3>2, <3>3
    <3>4. CASE s.unused = {}
      <4>1. f <= t.made => f <= s.made
        BY <1>2, <1>3, <1>4, <2>2, <3>4
      <4>2. f > t.made => f > s.made
        BY <1>2, <1>4, <3>4
      <4>3. f <= s.made => f <= t.made
        BY <1>2, <1>4, <3>4
      <4> QED BY <1>1, <3>1, <3>2, <4>1, <4>2, <4>3
    <3> QED BY <3>3, <3>4
  <2> QED BY <2>1, <2>2
<1> QED BY <1>2, <1>5, <1>8, <1>12, <1>13 DEF Accounts, t, g

-----------------------------------------------------------------------------
(* The lists that x264_reference_update makes.                             *)

LEMMA Ranges ==
  ASSUME NEW s \in Seq(Frames)
  PROVE  /\ DOMAIN s = 1..Len(s) /\ Len(s) \in Nat
         /\ ToSet(s) = {s[i] : i \in 1..Len(s)}
         /\ ToSet(s) \subseteq Frames
BY DEF ToSet

LEMMA Empty == <<>> \in Seq(Frames) /\ Len(<<>>) = 0 /\ Distinct(<<>>) /\ ToSet(<<>>) = {}
BY DEF Distinct, ToSet

LEMMA Single ==
  ASSUME NEW e \in Frames
  PROVE  <<e>> \in Seq(Frames) /\ Distinct(<<e>>) /\ ToSet(<<e>>) = {e}
<1>1. <<e>> \in Seq(Frames) /\ Len(<<e>>) = 1 /\ <<e>>[1] = e
  OBVIOUS
<1>2. Distinct(<<e>>)
  BY <1>1 DEF Distinct
<1>3. ToSet(<<e>>) = {<<e>>[i] : i \in 1..1}
  BY <1>1, Ranges
<1> QED BY <1>1, <1>2, <1>3

LEMMA Appended ==
  ASSUME NEW s \in Seq(Frames), Distinct(s), NEW e \in Frames, e \notin ToSet(s)
  PROVE  /\ Append(s, e) \in Seq(Frames) /\ Len(Append(s, e)) = Len(s) + 1
         /\ Distinct(Append(s, e)) /\ ToSet(Append(s, e)) = ToSet(s) \cup {e}
<1> DEFINE r == Append(s, e)
<1>1. /\ r \in Seq(Frames) /\ Len(r) = Len(s) + 1 /\ Len(s) \in Nat
      /\ \A k \in 1..Len(s) : r[k] = s[k]
      /\ r[Len(s) + 1] = e
  OBVIOUS
<1> HIDE DEF r
<1>2. ToSet(s) = {s[i] : i \in 1..Len(s)} /\ ToSet(r) = {r[i] : i \in 1..Len(r)}
  BY <1>1, Ranges
<1>3. ToSet(r) = ToSet(s) \cup {e}
  <2>1. ASSUME NEW i \in 1..Len(r) PROVE r[i] \in ToSet(s) \cup {e}
    <3>1. CASE i \in 1..Len(s)
      BY <1>1, <1>2, <3>1
    <3>2. CASE i = Len(s) + 1
      BY <1>1, <3>2
    <3> QED BY <1>1, <3>1, <3>2
  <2>2. ASSUME NEW i \in 1..Len(s) PROVE s[i] \in ToSet(r)
    <3>1. i \in 1..Len(r) /\ r[i] = s[i]
      BY <1>1
    <3> QED BY <1>2, <3>1
  <2>3. e \in ToSet(r)
    <3>1. Len(s) + 1 \in 1..Len(r)
      BY <1>1
    <3> QED BY <1>1, <1>2, <3>1
  <2> QED BY <1>2, <2>1, <2>2, <2>3
<1>4. Distinct(r)
  <2>1. \A i \in 1..Len(s) : s[i] # e
    BY <1>2
  <2> QED BY <1>1, <2>1 DEF Distinct
<1> QED BY <1>1, <1>3, <1>4 DEF r

LEMMA Shortened ==
  ASSUME NEW s \in Seq(Frames), Distinct(s), Len(s) > 0
  PROVE  /\ Tail(s) \in Seq(Frames) /\ Len(Tail(s)) = Len(s) - 1
         /\ Distinct(Tail(s)) /\ ToSet(Tail(s)) = ToSet(s) \ {Head(s)}
         /\ Head(s) \in ToSet(s)
<1> DEFINE r == Tail(s)
           h == Head(s)
<1>1. /\ r \in Seq(Frames) /\ Len(r) = Len(s) - 1 /\ Len(s) \in Nat
      /\ \A k \in 1..Len(r) : r[k] = s[k + 1]
      /\ h = s[1]
  OBVIOUS
<1> HIDE DEF r, h
<1>2. ToSet(s) = {s[i] : i \in 1..Len(s)} /\ ToSet(r) = {r[i] : i \in 1..Len(r)}
  BY <1>1, Ranges
<1>3. h \in ToSet(s)
  BY <1>1, <1>2
<1>4. ToSet(r) = ToSet(s) \ {h}
  <2>1. ASSUME NEW k \in 1..Len(r) PROVE r[k] \in ToSet(s) /\ r[k] # h
    <3>1. k + 1 \in 1..Len(s) /\ k + 1 # 1 /\ 1 \in 1..Len(s)
      BY <1>1
    <3>2. s[k + 1] # s[1]
      BY <3>1 DEF Distinct
    <3> QED BY <1>1, <1>2, <3>1, <3>2
  <2>2. ASSUME NEW i \in 1..Len(s), s[i] # h PROVE s[i] \in ToSet(r)
    <3>1. i # 1
      BY <1>1, <2>2
    <3>2. i - 1 \in 1..Len(r) /\ i = (i - 1) + 1
      BY <1>1, <3>1
    <3>3. r[i - 1] = s[i]
      BY <1>1, <3>2
    <3> QED BY <1>2, <3>2, <3>3
  <2> QED BY <1>2, <2>1, <2>2
<1>5. Distinct(r)
  <2> SUFFICES ASSUME NEW i \in 1..Len(r), NEW j \in 1..Len(r), r[i] = r[j]
               PROVE  i = j
    BY DEF Distinct
  <2>1. i + 1 \in 1..Len(s) /\ j + 1 \in 1..Len(s) /\ i \in Int /\ j \in Int
    BY <1>1
  <2>2. s[i + 1] = s[j + 1]
    BY <1>1
  <2>3. i + 1 = j + 1
    BY <2>1, <2>2 DEF Distinct
  <2> QED BY <2>1, <2>3
<1> QED BY <1>1, <1>3, <1>4, <1>5 DEF r, h

(* What the last context holds stays in the list or leaves it.             *)
LEMMA UpdatedFacts ==
  ASSUME Typed, NoRepeats, NEW p \in Contexts, fdec[p] # NoFrame
  PROVE  /\ Updated(p) \in Seq(Frames) /\ Len(Updated(p)) <= NumRef /\ Distinct(Updated(p))
         /\ Leaving(p) \in Seq(Frames) /\ Distinct(Leaving(p))
         /\ ToSet(Leaving(p)) \subseteq HeldBy(p)
         /\ ToSet(Updated(p)) = HeldBy(p) \ ToSet(Leaving(p))
<1> DEFINE s == reference[p]
           e == fdec[p]
           E == Entered(p)
<1>1. /\ s \in Seq(Frames) /\ e \in Frames /\ Len(s) <= NumRef /\ Distinct(s)
      /\ e \notin ToSet(s) /\ HeldBy(p) = ToSet(s) \cup {e} /\ NumRef \in Nat /\ NumRef > 0
  <2>1. reference[p] \in Seq(Frames) /\ fdec[p] \in Frames
    BY DEF Typed
  <2>2. Len(s) <= NumRef /\ Distinct(s) /\ e \notin ToSet(s)
    BY DEF NoRepeats
  <2>3. HeldBy(p) = ToSet(s) \cup {e}
    BY DEF HeldBy
  <2> QED BY <2>1, <2>2, <2>3, Params
<1> HIDE DEF s, e
<1>2. CASE ~kept[e]
  <2>1. Updated(p) = s /\ Leaving(p) = <<e>>
    <3>1. Entered(p) = s
      BY <1>2 DEF Entered, s, e
    <3>2. ~TooMany(p)
      <4>1. Len(s) \in Nat
        BY <1>1
      <4> QED BY <1>1, <3>1, <4>1 DEF TooMany
    <3>3. Leaving(p) = <<e>>
      BY <1>2 DEF Leaving, e
    <3> QED BY <3>1, <3>2, <3>3 DEF Updated
  <2>2. <<e>> \in Seq(Frames) /\ Distinct(<<e>>) /\ ToSet(<<e>>) = {e}
    BY <1>1, Single
  <2> QED BY <1>1, <2>1, <2>2
<1>3. CASE kept[e]
  <2>1. E = Append(s, e)
    BY <1>3 DEF Entered, s, e
  <2>2. E \in Seq(Frames) /\ Len(E) = Len(s) + 1 /\ Distinct(E) /\ ToSet(E) = HeldBy(p)
    BY <1>1, <2>1, Appended
  <2>3. Len(s) \in Nat
    BY <1>1
  <2>4. TooMany(p) <=> Len(E) > NumRef
    BY DEF TooMany
  <2> HIDE DEF E
  <2>5. CASE Len(E) > NumRef
    <3>1. /\ Updated(p) = Tail(E)
          /\ Leaving(p) = <<Head(E)>>
      BY <1>3, <2>4, <2>5 DEF Updated, Leaving, E, e
    <3>2. /\ Tail(E) \in Seq(Frames) /\ Len(Tail(E)) = Len(E) - 1
          /\ Distinct(Tail(E)) /\ ToSet(Tail(E)) = ToSet(E) \ {Head(E)}
          /\ Head(E) \in ToSet(E)
      <4>1. Len(E) > 0
        BY <2>2, <2>3
      <4> QED BY <2>2, <4>1, Shortened
    <3>3. Head(E) \in Frames
      BY <2>2, <3>2, Ranges
    <3>4. <<Head(E)>> \in Seq(Frames) /\ Distinct(<<Head(E)>>) /\ ToSet(<<Head(E)>>) = {Head(E)}
      BY <3>3, Single
    <3>5. Len(Tail(E)) <= NumRef
      BY <1>1, <2>2, <2>3, <3>2
    <3> QED BY <2>2, <3>1, <3>2, <3>4, <3>5
  <2>6. CASE ~(Len(E) > NumRef)
    <3>1. Updated(p) = E /\ Leaving(p) = <<>>
      BY <1>3, <2>4, <2>6 DEF Updated, Leaving, E, e
    <3>2. Len(E) <= NumRef
      BY <1>1, <2>2, <2>3, <2>6
    <3> QED BY <2>2, <3>1, <3>2, Empty
  <2> QED BY <2>5, <2>6
<1> QED BY <1>2, <1>3

(* In lists without repetitions a frame is as often as there are contexts  *)
(* whose list has it.                                                      *)
LEMMA InAllOnce ==
  ASSUME NEW L \in [Contexts -> Seq(Frames)], NEW f,
         \A c \in Contexts : Distinct(L[c]) /\ Len(L[c]) <= NumRef + 1
  PROVE  InAll(L, f) = Cardinality({c \in Contexts : f \in ToSet(L[c])})
<1> DEFINE S == {c \in Contexts : f \in ToSet(L[c])}
           P == {q \in Contexts \X (1..(NumRef + 1)) :
                   q[2] <= Len(L[q[1]]) /\ L[q[1]][q[2]] = f}
           place(c) == CHOOSE i \in 1..Len(L[c]) : L[c][i] = f
           g == [c \in S |-> <<c, place(c)>>]
<1>1. ASSUME NEW c \in S
      PROVE  place(c) \in 1..Len(L[c]) /\ L[c][place(c)] = f
  <2>1. ToSet(L[c]) = {L[c][i] : i \in 1..Len(L[c])}
    BY Ranges
  <2>2. \E i \in 1..Len(L[c]) : L[c][i] = f
    BY <2>1
  <2> QED BY <2>2
<1>2. \A c \in Contexts : Len(L[c]) \in Nat /\ Len(L[c]) <= NumRef + 1
  OBVIOUS
<1>3. NumRef \in Nat
  BY Params
<1>4. ASSUME NEW c \in S PROVE <<c, place(c)>> \in P
  <2>1. c \in Contexts /\ place(c) \in 1..Len(L[c]) /\ L[c][place(c)] = f
    BY <1>1
  <2> HIDE DEF place
  <2>2. place(c) \in 1..(NumRef + 1) /\ place(c) <= Len(L[c])
    BY <1>2, <1>3, <2>1
  <2> QED BY <2>1, <2>2
<1>5. ASSUME NEW q \in P PROVE q[1] \in S /\ g[q[1]] = q
  <2>1. PICK c \in Contexts, i \in 1..(NumRef + 1) :
           q = <<c, i>> /\ i <= Len(L[c]) /\ L[c][i] = f
    OBVIOUS
  <2>2. i \in 1..Len(L[c])
    BY <1>2, <1>3, <2>1
  <2>3. ToSet(L[c]) = {L[c][k] : k \in 1..Len(L[c])}
    BY Ranges
  <2>4. c \in S
    BY <2>1, <2>2, <2>3
  <2>5. place(c) \in 1..Len(L[c]) /\ L[c][place(c)] = f
    BY <1>1, <2>4
  <2>6. Distinct(L[c])
    OBVIOUS
  <2> HIDE DEF place
  <2>7. place(c) = i
    BY <2>1, <2>2, <2>5, <2>6 DEF Distinct
  <2> QED BY <2>1, <2>4, <2>7
<1> HIDE DEF P, place
<1>6. g \in [S -> P]
  BY <1>4
<1>7. \A a, b \in S : g[a] = g[b] => a = b
  OBVIOUS
<1>8. \A q \in P : \E c \in S : g[c] = q
  BY <1>5
<1> HIDE DEF g
<1>9. g \in Bijection(S, P)
  BY <1>6, <1>7, <1>8 DEF Bijection, Injection, Surjection, IsInjective
<1>10. IsFiniteSet(S)
  BY FiniteContexts
<1>11. Cardinality(P) = Cardinality(S)
  BY <1>9, <1>10, FS_Bijection DEF ExistsBijection
<1> QED BY <1>11 DEF InAll, P

-----------------------------------------------------------------------------
(* A call that turns the ring: what the counts are after each of its parts. *)

LEMMA HoldingsType ==
  ASSUME Typed
  PROVE  /\ Holdings \in [Contexts -> SUBSET Frames]
         /\ \A c \in Contexts : Holdings[c] = HeldBy(c)
<1>1. ASSUME NEW c \in Contexts PROVE HeldBy(c) \in SUBSET Frames
  <2>1. reference[c] \in Seq(Frames) /\ fdec[c] \in Frames \cup {NoFrame}
    BY DEF Typed
  <2>2. ToSet(reference[c]) \subseteq Frames
    BY <2>1, Ranges
  <2> QED BY <2>1, <2>2 DEF HeldBy
<1> QED BY <1>1 DEF Holdings

LEMMA Twice ==
  ASSUME NEW H \in [Contexts -> SUBSET Frames], NEW c \in Contexts, NEW X, NEW Y
  PROVE  [[H EXCEPT ![c] = X] EXCEPT ![c] = Y] = [H EXCEPT ![c] = Y]
OBVIOUS

(* The list of what a context holds.                                       *)
LEMMA Whole ==
  ASSUME Typed, NoRepeats, NEW c \in Contexts, fdec[c] # NoFrame
  PROVE  LET s == Append(reference[c], fdec[c])
         IN  s \in Seq(Frames) /\ Distinct(s) /\ ToSet(s) = HeldBy(c)
<1>1. /\ reference[c] \in Seq(Frames) /\ fdec[c] \in Frames
      /\ Distinct(reference[c]) /\ fdec[c] \notin ToSet(reference[c])
  BY DEF Typed, NoRepeats
<1>2. HeldBy(c) = ToSet(reference[c]) \cup {fdec[c]}
  BY DEF HeldBy
<1> QED BY <1>1, <1>2, Appended

LEMMA Syncs ==
  ASSUME Typed, NoRepeats, Accounts(store, Holdings), NEW p \in Contexts, NEW c \in Contexts,
         fdec[p] # NoFrame, fdec[c] # NoFrame
  PROVE  /\ Accounts(Synced(p, c), [Holdings EXCEPT ![c] = HeldBy(p)])
         /\ Synced(p, c).made = store.made
<1> DEFINE new == Append(reference[p], fdec[p])
           old == Append(reference[c], fdec[c])
<1>1. /\ Holdings \in [Contexts -> SUBSET Frames]
      /\ Holdings[p] = HeldBy(p) /\ Holdings[c] = HeldBy(c)
  BY HoldingsType
<1>2. new \in Seq(Frames) /\ Distinct(new) /\ ToSet(new) = Holdings[p]
  BY <1>1, Whole
<1>3. old \in Seq(Frames) /\ Distinct(old) /\ ToSet(old) = Holdings[c]
  BY <1>1, Whole
<1>4. Synced(p, c) = Release(Hold(store, new), old)
  BY DEF Synced
<1> HIDE DEF new, old
<1> DEFINE G == [Holdings EXCEPT ![c] = HeldBy(p)]
           t == Synced(p, c)
<1>5. G = [Holdings EXCEPT ![c] = Holdings[p]] /\ t = Release(Hold(store, new), old)
  BY <1>1, <1>4
<1> HIDE DEF G, t
<1>6. Accounts(t, G) /\ t.made = store.made
  BY <1>1, <1>2, <1>3, <1>5, Synchronised
<1> QED BY <1>6 DEF G, t

LEMMA Updates ==
  ASSUME Typed, NoRepeats, Accounts(store, Holdings), NEW p \in Contexts, NEW c \in Contexts,
         fdec[p] # NoFrame, fdec[c] # NoFrame
  PROVE  LET s == Release(Synced(p, c), Leaving(p))
         IN  /\ Accounts(s, [Holdings EXCEPT ![c] = ToSet(Updated(p))])
             /\ s.made = store.made
<1> DEFINE G == [Holdings EXCEPT ![c] = HeldBy(p)]
           t == Synced(p, c)
           old == Leaving(p)
<1>1. Accounts(t, G) /\ t.made = store.made
  BY Syncs
<1>2. G \in [Contexts -> SUBSET Frames] /\ G[c] = HeldBy(p)
  BY HoldingsType
<1>3. /\ old \in Seq(Frames) /\ Distinct(old) /\ ToSet(old) \subseteq G[c]
      /\ ToSet(Updated(p)) = G[c] \ ToSet(old)
  BY <1>2, UpdatedFacts
<1>4. [G EXCEPT ![c] = ToSet(Updated(p))] = [Holdings EXCEPT ![c] = ToSet(Updated(p))]
  BY HoldingsType, Twice
<1> HIDE DEF G, t, old
<1>5. Accounts(Release(t, old), [G EXCEPT ![c] = G[c] \ ToSet(old)]) /\ Release(t, old).made = t.made
  BY <1>1, <1>2, <1>3, Released
<1> QED BY <1>1, <1>3, <1>4, <1>5 DEF t, old

LEMMA ImageOf ==
  ASSUME NEW S, IsFiniteSet(S), NEW F, F = [x \in S |-> F[x]], NEW T, T = {F[x] : x \in S}
  PROVE  IsFiniteSet(T) /\ Cardinality(T) <= Cardinality(S)
<1>1. F \in Surjection(S, T)
  BY DEF Surjection
<1> QED BY <1>1, FS_Surjection

(* The frames of the contexts that stay are references of the oldest one   *)
(* of them or are being reconstructed: one more is always to be had.       *)
LEMMA OthersHold ==
  ASSUME Typed, NoRepeats, RingOK, NEW c \in Contexts, c = Oldest
  PROVE  \E S : /\ IsFiniteSet(S) /\ Cardinality(S) <= NumRef + (N - 1)
                /\ \A d \in Contexts \ {c} : HeldBy(d) \subseteq S
<1>0. /\ N \in Nat /\ N > 1 /\ turn \in 0..(N - 1) /\ turn \in Contexts /\ c \in 0..(N - 1)
      /\ \A d \in Contexts : d \in 0..(N - 1)
      /\ NumRef \in Nat /\ Contexts = 0..(N - 1)
  BY Params DEF Typed
<1>1. /\ \A d \in Contexts : Age(d) = IF d <= turn THEN turn - d ELSE turn - d + N
      /\ \A d \in Contexts : Age(d) \in 0..(N - 1)
      /\ c = IF turn = N - 1 THEN 0 ELSE turn + 1
  BY <1>0, Ages
<1> DEFINE o == IF c = N - 1 THEN 0 ELSE c + 1
           A == ToSet(reference[o])
           B == {fdec[e] : e \in Contexts \ {c}}
<1>2. o \in Contexts /\ o # c /\ \A d \in Contexts \ {c} : Age(d) <= Age(o)
  BY <1>0, <1>1
<1>3. IsFiniteSet(A) /\ Cardinality(A) <= NumRef
  <2>1. reference[o] \in Seq(Frames) /\ Len(reference[o]) <= NumRef /\ Len(reference[o]) \in Nat
    BY <1>2 DEF Typed, NoRepeats
  <2> DEFINE n == Len(reference[o])
             L == reference[o]
  <2>2. A = {L[i] : i \in 1..n} /\ DOMAIN L = 1..n /\ L = [i \in 1..n |-> L[i]]
    BY <2>1, Ranges
  <2>3. IsFiniteSet(1..n) /\ Cardinality(1..n) = n
    <3>1. n \in Int /\ 1 \in Int
      BY <2>1
    <3> HIDE DEF n
    <3>2. IsFiniteSet(1..n) /\ Cardinality(1..n) = IF 1 > n THEN 0 ELSE n - 1 + 1
      BY <3>1, FS_Interval
    <3> QED BY <2>1, <3>1, <3>2 DEF n
  <2> HIDE DEF L, A
  <2>4. IsFiniteSet(A) /\ Cardinality(A) <= Cardinality(1..n)
    BY <2>2, <2>3, ImageOf
  <2>5. Cardinality(A) \in Nat
    BY <2>4, FS_CardinalityType
  <2> QED BY <1>0, <2>1, <2>2, <2>3, <2>4, <2>5
<1>4. IsFiniteSet(B) /\ Cardinality(B) <= N - 1
  <2> DEFINE D == Contexts \ {c}
             F == [e \in D |-> fdec[e]]
  <2>1. IsFiniteSet(Contexts) /\ Cardinality(Contexts) = N
    <3>1. IsFiniteSet(0..(N - 1)) /\ Cardinality(0..(N - 1)) = IF 0 > N - 1 THEN 0 ELSE N - 1 - 0 + 1
      <4>1. 0 \in Int /\ N - 1 \in Int
        BY <1>0
      <4> QED BY <4>1, FS_Interval
    <3> QED BY <1>0, <3>1
  <2>2. IsFiniteSet(D) /\ Cardinality(D) = N - 1
    BY <2>1, FS_RemoveElement
  <2> HIDE DEF D
  <2>3. B = {F[e] : e \in D} /\ DOMAIN F = D /\ F = [e \in D |-> F[e]]
    BY DEF D
  <2> HIDE DEF F, B
  <2>4. IsFiniteSet(B) /\ Cardinality(B) <= Cardinality(D)
    BY <2>2, <2>3, ImageOf
  <2> QED BY <2>2, <2>4
<1>5. ASSUME NEW d \in Contexts \ {c} PROVE HeldBy(d) \subseteq A \cup B
  <2>1. fdec[d] \in B
    OBVIOUS
  <2>2. ToSet(reference[d]) \subseteq A \cup B
    <3>1. CASE d = o
      BY <3>1
    <3>2. CASE d # o
      <4>1. Age(d) < Age(o)
        BY <1>0, <1>1, <1>2, <3>2
      <4>2. ToSet(reference[d]) \subseteq A \cup {fdec[e] : e \in Between(d, o)}
        BY <1>2, <4>1 DEF RingOK
      <4>3. c \notin Between(d, o)
        BY <1>0, <1>1, <1>2 DEF Between
      <4>4. Between(d, o) \subseteq Contexts \ {c}
        BY <4>3 DEF Between
      <4> QED BY <4>2, <4>4
    <3> QED BY <3>1, <3>2
  <2> QED BY <2>1, <2>2 DEF HeldBy
<1> HIDE DEF A, B
<1>6. IsFiniteSet(A \cup B) /\ Cardinality(A \cup B) <= NumRef + (N - 1)
  <2>1. /\ IsFiniteSet(A \cup B)
        /\ Cardinality(A \cup B) = Cardinality(A) + Cardinality(B) - Cardinality(A \cap B)
    BY <1>3, <1>4, FS_Union
  <2>2. IsFiniteSet(A \cap B)
    BY <1>3, FS_Intersection
  <2>3. Cardinality(A) \in Nat /\ Cardinality(B) \in Nat /\ Cardinality(A \cap B) \in Nat
    BY <1>3, <1>4, <2>2, FS_CardinalityType
  <2> QED BY <1>0, <1>3, <1>4, <2>1, <2>3
<1> QED BY <1>5, <1>6

LEMMA Spare ==
  ASSUME Typed, NoRepeats, RingOK, NEW c \in Contexts, c = Oldest, NEW s, NEW X \in SUBSET Frames,
         Accounts(s, [Holdings EXCEPT ![c] = X]), X \subseteq HeldBy(turn)
  PROVE  Taken(s) \in Frames /\ (s.unused = {} => s.made < N + NumRef)
<1> DEFINE G == [Holdings EXCEPT ![c] = X]
<1>1. /\ N \in Nat /\ N > 1 /\ NumRef \in Nat /\ Frames = 1..(N + NumRef + 3)
      /\ turn \in Contexts /\ turn # c
  <2>1. turn \in Contexts
    BY DEF Typed
  <2>2. Oldest = IF turn = N - 1 THEN 0 ELSE turn + 1
    BY <2>1, Ages
  <2> QED BY <2>1, <2>2, Params
<1>2. /\ s \in Stores
      /\ \A f \in Frames : f \in s.unused <=> f <= s.made /\ Holders(G, f) = {}
  BY DEF Accounts
<1>3. s.made \in Frames /\ s.made \in Nat /\ s.unused \subseteq Frames
  BY <1>1, <1>2 DEF Stores
<1>4. CASE s.unused # {}
  BY <1>3, <1>4 DEF Taken
<1>5. CASE s.unused = {}
  <2>1. PICK S : /\ IsFiniteSet(S) /\ Cardinality(S) <= NumRef + (N - 1)
                 /\ \A d \in Contexts \ {c} : HeldBy(d) \subseteq S
    BY OthersHold
  <2>2. ASSUME NEW f \in 1..s.made PROVE f \in S
    <3>1. f \in Frames /\ f <= s.made
      BY <1>1, <1>3
    <3>2. Holders(G, f) # {}
      BY <1>2, <1>5, <3>1
    <3>3. PICK d \in Contexts : f \in G[d]
      BY <3>2 DEF Holders
    <3>4. CASE d = c
      <4>1. f \in HeldBy(turn)
        BY <3>3, <3>4, HoldingsType
      <4> QED BY <1>1, <2>1, <4>1
    <3>5. CASE d # c
      <4>1. f \in HeldBy(d)
        BY <3>3, <3>5, HoldingsType
      <4> QED BY <2>1, <3>5, <4>1
    <3> QED BY <3>4, <3>5
  <2>3. 1..s.made \in SUBSET S
    BY <2>2
  <2>4. Cardinality(1..s.made) = s.made
    <3> DEFINE m == s.made
    <3>1. m \in Nat /\ 1 \in Int /\ m \in Int
      BY <1>3
    <3> HIDE DEF m
    <3>2. Cardinality(1..m) = IF 1 > m THEN 0 ELSE m - 1 + 1
      BY <3>1, FS_Interval
    <3>3. Cardinality(1..m) = m
      BY <3>1, <3>2
    <3> QED BY <3>3 DEF m
  <2>5. Cardinality(1..s.made) <= Cardinality(S)
    BY <2>1, <2>3, FS_Subset
  <2>6. Cardinality(S) \in Nat
    BY <2>1, FS_CardinalityType
  <2>7. s.made < N + NumRef
    BY <1>1, <1>3, <2>1, <2>4, <2>5, <2>6
  <2>8. Taken(s) = s.made + 1
    BY <1>5 DEF Taken
  <2> QED BY <1>1, <1>3, <2>7, <2>8
<1> QED BY <1>4, <1>5

LEMMA Encodes ==
  ASSUME Typed, NoRepeats, RingOK, Accounts(store, Holdings), NEW c \in Contexts, c = Oldest,
         fdec[turn] # NoFrame, fdec[c] # NoFrame, NEW t,
         NEW s, s = Release(Synced(turn, c), Leaving(turn)),
         NEW f, f = Taken(s),
         NEW gone, gone = IF t = "IDR" THEN Updated(turn) ELSE <<>>
  PROVE  /\ f \in Frames /\ f \notin ToSet(Updated(turn))
         /\ \A d \in Contexts \ {c} : f \notin HeldBy(d)
         /\ Accounts(Release(Pop(s), gone),
                     [Holdings EXCEPT ![c] = (ToSet(Updated(turn)) \ ToSet(gone)) \cup {f}])
         /\ Release(Pop(s), gone).made <= N + NumRef
<1> DEFINE X == ToSet(Updated(turn))
           G == [Holdings EXCEPT ![c] = X]
           Y == X \cup {f}
           K == [Holdings EXCEPT ![c] = Y]
<1>1. turn \in Contexts
  BY DEF Typed
<1>2. /\ Updated(turn) \in Seq(Frames) /\ Distinct(Updated(turn))
      /\ X \in SUBSET Frames /\ X \subseteq HeldBy(turn)
  <2>1. /\ Updated(turn) \in Seq(Frames) /\ Distinct(Updated(turn))
        /\ X \subseteq HeldBy(turn)
    BY <1>1, UpdatedFacts
  <2> QED BY <2>1, Ranges
<1>3. Holdings \in [Contexts -> SUBSET Frames] /\ \A d \in Contexts : Holdings[d] = HeldBy(d)
  BY HoldingsType
<1>4. Accounts(s, G) /\ s.made = store.made
  BY <1>1, Updates
<1>5. f \in Frames /\ (s.unused = {} => s.made < N + NumRef)
  BY <1>2, <1>4, Spare
<1> HIDE DEF X
<1>6. G \in [Contexts -> SUBSET Frames] /\ G[c] = X /\ \A d \in Contexts \ {c} : G[d] = HeldBy(d)
  BY <1>2, <1>3
<1>7. [G EXCEPT ![c] = Y] = K
  BY <1>3, Twice
<1> HIDE DEF G
<1>8. /\ Holders(G, f) = {}
      /\ Accounts(Pop(s), [G EXCEPT ![c] = G[c] \cup {f}])
      /\ Pop(s).made = IF s.unused = {} THEN s.made + 1 ELSE s.made
  BY <1>4, <1>5, <1>6, Popped
<1>9. Accounts(Pop(s), K)
  BY <1>6, <1>7, <1>8
<1>10. f \notin X /\ \A d \in Contexts \ {c} : f \notin HeldBy(d)
  BY <1>6, <1>8 DEF Holders
<1>11. K \in [Contexts -> SUBSET Frames] /\ K[c] = Y
  BY <1>2, <1>3, <1>5
<1>12. gone \in Seq(Frames) /\ Distinct(gone) /\ ToSet(gone) \subseteq X
  BY <1>2, Empty DEF X
<1>13. ToSet(gone) \subseteq K[c] /\ Y \ ToSet(gone) = (X \ ToSet(gone)) \cup {f}
  BY <1>10, <1>11, <1>12
<1>14. [K EXCEPT ![c] = K[c] \ ToSet(gone)]
         = [Holdings EXCEPT ![c] = (X \ ToSet(gone)) \cup {f}]
  BY <1>3, <1>11, <1>13, Twice
<1> HIDE DEF K, Y
<1> DEFINE q == Pop(s)
<1>15. Accounts(q, K) /\ q.made = IF s.unused = {} THEN s.made + 1 ELSE s.made
  BY <1>8, <1>9
<1> HIDE DEF q
<1>18. /\ K \in [Contexts -> SUBSET Frames] /\ Accounts(q, K)
       /\ gone \in Seq(Frames) /\ Distinct(gone) /\ ToSet(gone) \subseteq K[c]
  BY <1>11, <1>12, <1>13, <1>15
<1>16. /\ Accounts(Release(q, gone), [K EXCEPT ![c] = K[c] \ ToSet(gone)])
       /\ Release(q, gone).made = q.made
  BY ONLY <1>18, c \in Contexts, Released
<1>17. q.made <= N + NumRef
  <2>1. s.made <= N + NumRef /\ s.made \in Nat
    BY <1>4, Params DEF RingOK, Typed, Stores
  <2> QED BY <1>5, <1>15, <2>1, Params
<1> QED BY <1>5, <1>10, <1>14, <1>16, <1>17 DEF X, q

(* When the ring turns, the last context's references, and the frame it    *)
(* reconstructs, are all that the next one may refer to.                   *)
LEMMA RingTurns ==
  ASSUME Typed, RingOK, NEW c \in Contexts, c = Oldest, turn' = c,
         \A d \in Contexts \ {c} : reference'[d] = reference[d] /\ fdec'[d] = fdec[d],
         ToSet(reference'[c]) \subseteq ToSet(reference[turn]) \cup {fdec[turn]}
  PROVE  \A a, b \in Contexts : Age(a)' < Age(b)' =>
            ToSet(reference'[a]) \subseteq ToSet(reference'[b])
                                             \cup {fdec'[e] : e \in Between(a, b)'}
<1>1. /\ N \in Nat /\ N > 1 /\ turn \in Contexts
      /\ \A d \in Contexts : Age(d) \in 0..(N - 1)
  BY Params, Ages DEF Typed
<1>2. /\ c # turn /\ Age(c)' = 0 /\ Age(c) = N - 1 /\ Age(turn) = 0
      /\ \A d \in Contexts \ {c} : Age(d)' = Age(d) + 1 /\ Age(d) < N - 1
  BY <1>1, Turned
<1>3. \A a, b \in Contexts : Between(a, b)' = {e \in Contexts : Age(a)' < Age(e)' /\ Age(e)' <= Age(b)'}
  BY DEF Between
<1> SUFFICES ASSUME NEW a \in Contexts, NEW b \in Contexts, Age(a)' < Age(b)',
                    NEW f \in ToSet(reference'[a])
             PROVE  f \in ToSet(reference'[b]) \cup {fdec'[e] : e \in Between(a, b)'}
  OBVIOUS
<1>4. b # c
  <2>1. CASE a = c
    BY <1>1, <1>2, <2>1
  <2>2. CASE a # c
    BY <1>1, <1>2, <2>2
  <2> QED BY <2>1, <2>2
<1>5. \A d, e \in Contexts \ {c} : Between(d, e) \subseteq Between(d, e)'
  <2> SUFFICES ASSUME NEW d \in Contexts \ {c}, NEW e \in Contexts \ {c}, NEW x \in Between(d, e)
               PROVE  x \in Between(d, e)'
    OBVIOUS
  <2>1. x \in Contexts /\ Age(d) < Age(x) /\ Age(x) <= Age(e)
    BY DEF Between
  <2>2. x # c
    BY <1>1, <1>2, <2>1
  <2>3. Age(d)' < Age(x)' /\ Age(x)' <= Age(e)'
    BY <1>1, <1>2, <2>1, <2>2
  <2> QED BY <1>3, <2>1, <2>3
<1>6. \A d, e \in Contexts \ {c} : c \notin Between(d, e)
  BY <1>1, <1>2 DEF Between
<1>7. CASE a # c
  <2>1. Age(a) < Age(b)
    BY <1>1, <1>2, <1>4, <1>7
  <2>2. f \in ToSet(reference[b]) \cup {fdec[e] : e \in Between(a, b)}
    BY <1>7, <2>1 DEF RingOK
  <2>3. CASE f \in ToSet(reference[b])
    BY <1>4, <2>3
  <2>4. CASE f \in {fdec[e] : e \in Between(a, b)}
    <3>1. PICK e \in Between(a, b) : f = fdec[e]
      BY <2>4
    <3>2. e \in Contexts \ {c}
      BY <1>4, <1>6, <1>7 DEF Between
    <3>3. f = fdec'[e] /\ e \in Between(a, b)'
      BY <1>4, <1>5, <1>7, <3>1, <3>2
    <3> QED BY <3>3
  <2> QED BY <2>2, <2>3, <2>4
<1>9. PICK p \in Contexts : p = turn
  BY <1>1
<1>8. CASE a = c
  <2>1. p \in Between(a, b)'
    <3>1. Age(p)' = 1 /\ Age(b)' >= 1 /\ Age(b)' \in Int
      BY <1>1, <1>2, <1>9, <1>4
    <3> QED BY <1>1, <1>2, <1>9, <1>3, <1>8, <3>1
  <2>2. f \in ToSet(reference[p]) \cup {fdec[p]}
    BY <1>8, <1>9
  <2>3. CASE f = fdec[p]
    <3>1. f = fdec'[p]
      BY <1>1, <1>2, <1>9, <2>3
    <3> QED BY <2>1, <3>1
  <2>4. CASE f \in ToSet(reference[p])
    <3>1. CASE b = p
      BY <1>4, <2>4, <3>1
    <3>2. CASE b # p
      <4>1. Age(p) < Age(b)
        <5>1. Age(b)' = Age(b) + 1 /\ Age(p)' = Age(p) + 1
          BY <1>1, <1>2, <1>9, <1>4
        <5>2. Age(b) # 0
          <6>1. Age(b) = IF b <= turn THEN turn - b ELSE turn - b + N
            BY <1>1, Ages
          <6>2. b \in 0..(N - 1) /\ turn \in 0..(N - 1) /\ b # turn
            BY <1>1, <1>9, <3>2, Params
          <6> DEFINE x == Age(b)
          <6> HIDE DEF x
          <6>3. x = IF b <= turn THEN turn - b ELSE turn - b + N
            BY <6>1 DEF x
          <6>4. x # 0
            BY <1>1, <6>2, <6>3
          <6> QED BY <6>4 DEF x
        <5> QED BY <1>1, <1>2, <1>9, <5>2
      <4>2. f \in ToSet(reference[b]) \cup {fdec[e] : e \in Between(p, b)}
        BY <1>1, <1>9, <2>4, <4>1 DEF RingOK
      <4>3. CASE f \in ToSet(reference[b])
        BY <1>4, <4>3
      <4>4. CASE f \in {fdec[e] : e \in Between(p, b)}
        <5>1. PICK e \in Between(p, b) : f = fdec[e]
          BY <4>4
        <5>2. e \in Contexts \ {c}
          BY <1>1, <1>2, <1>9, <1>4, <1>6 DEF Between
        <5>3. e \in Between(p, b)'
          BY <1>1, <1>2, <1>9, <1>4, <1>5
        <5>4. Age(e)' >= 1 /\ Age(e)' <= Age(b)' /\ Age(e)' \in Int
          <6>1. Age(e)' = Age(e) + 1 /\ Age(e) \in 0..(N - 1)
            BY <1>1, <1>2, <1>9, <5>2
          <6>2. Age(e)' <= Age(b)'
            BY <1>3, <5>3, <1>1
          <6> QED BY <6>1, <6>2
        <5>5. e \in Between(a, b)'
          BY <1>2, <1>9, <1>3, <1>8, <5>2, <5>4
        <5> QED BY <5>1, <5>2, <5>5
      <4> QED BY <4>2, <4>3, <4>4
    <3> QED BY <3>1, <3>2
  <2> QED BY <2>2, <2>3, <2>4
<1> QED BY <1>7, <1>8

(* Everything about the lists, once the next context has its own.          *)
LEMMA Turning ==
  ASSUME IInv, NEW c \in Contexts, Turn(c),
         NEW R \in Seq(Frames), Len(R) <= NumRef, Distinct(R),
         ToSet(R) \subseteq HeldBy(turn),
         NEW g \in Frames \cup {NoFrame}, g \notin ToSet(R),
         reference' = [reference EXCEPT ![c] = R], fdec' = [fdec EXCEPT ![c] = g],
         Accounts(store', [Holdings EXCEPT ![c] = ToSet(R) \cup ({g} \ {NoFrame})]),
         store'.made <= N + NumRef, api' # "closed"
  PROVE  /\ NoRepeats' /\ CountsOK' /\ RingOK'
         /\ turn' \in Contexts /\ reference' \in [Contexts -> Seq(Frames)]
         /\ fdec' \in [Contexts -> Frames \cup {NoFrame}] /\ store' \in Stores
<1>1. c = Oldest /\ turn' = c /\ api # "closed"
  BY DEF Turn, Oldest
<1>2. /\ reference \in [Contexts -> Seq(Frames)]
      /\ fdec \in [Contexts -> Frames \cup {NoFrame}] /\ turn \in Contexts
      /\ Typed /\ RingOK /\ NoRepeats
      /\ fdec[turn] # NoFrame
  BY DEF IInv, Typed, ApiOK, Turn
<1>3. /\ \A d \in Contexts \ {c} : reference'[d] = reference[d] /\ fdec'[d] = fdec[d]
      /\ reference'[c] = R /\ fdec'[c] = g
  BY <1>2
<1>4. NoRepeats'
  <2>1. \A d \in Contexts : /\ Len(reference'[d]) <= NumRef
                            /\ Distinct(reference'[d])
                            /\ fdec'[d] \notin ToSet(reference'[d])
    BY <1>2, <1>3 DEF NoRepeats
  <2> QED BY <2>1 DEF NoRepeats
<1>5. RingOK'
  <2>1. HeldBy(turn) = ToSet(reference[turn]) \cup {fdec[turn]}
    BY <1>2 DEF HeldBy
  <2>2. \A a, b \in Contexts : Age(a)' < Age(b)' =>
            ToSet(reference'[a]) \subseteq ToSet(reference'[b])
                                             \cup {fdec'[e] : e \in Between(a, b)'}
    BY <1>1, <1>2, <1>3, <2>1, RingTurns
  <2> QED BY <2>2 DEF RingOK
<1>6. CountsOK'
  <2>1. Holdings' = [Holdings EXCEPT ![c] = ToSet(R) \cup ({g} \ {NoFrame})]
    <3>1. \A d \in Contexts : HeldBy(d)' = IF d = c THEN ToSet(R) \cup ({g} \ {NoFrame})
                                                     ELSE HeldBy(d)
      BY <1>3 DEF HeldBy
    <3> QED BY <3>1 DEF Holdings
  <2> QED BY <2>1 DEF CountsOK
<1>7. store' \in Stores
  BY DEF Accounts
<1> QED BY <1>1, <1>2, <1>4, <1>5, <1>6, <1>7

-----------------------------------------------------------------------------
(* The initial states, and each action.                                    *)

LEMMA Keeps ==
  ASSUME IInv, UNCHANGED frameVars, api # "closed", api' # "closed"
  PROVE  /\ NoRepeats' /\ CountsOK' /\ RingOK'
         /\ \A c \in Contexts : Age(c)' = Age(c)
<1>1. turn' = turn /\ reference' = reference /\ fdec' = fdec /\ store' = store
  BY DEF frameVars
<1>2. Holdings' = Holdings
  BY <1>1 DEF Holdings, HeldBy
<1>3. CountsOK'
  BY <1>1, <1>2 DEF IInv, CountsOK
<1>4. \A c \in Contexts : Age(c)' = Age(c)
  BY <1>1 DEF Age
<1>5. RingOK'
  BY <1>1 DEF IInv, RingOK, Between, Age
<1>6. NoRepeats'
  BY <1>1 DEF IInv, NoRepeats
<1> QED BY <1>3, <1>4, <1>5, <1>6

(* The context that is next has nothing in work.                           *)
LEMMA NextIsFree ==
  ASSUME IInv, NEW c \in Contexts, Turn(c)
  PROVE  /\ phase[c] = "free" /\ fdec[c] # NoFrame /\ fdec[turn] # NoFrame
         /\ turn \in Contexts /\ c # turn /\ c = Oldest /\ turn' = c /\ api # "closed"
         /\ open
         /\ Age(c)' = 0 /\ \A d \in Contexts \ {c} : Age(d)' = Age(d) + 1
         /\ \A d \in Contexts : Age(d) \in 0..(N - 1)
<1>1. turn \in Contexts /\ c = Oldest /\ turn' = c /\ api \in {"filling", "idle"}
  BY DEF IInv, Typed, Turn, Oldest
<1>2. phase[c] = "free" /\ fdec[c] # NoFrame /\ fdec[turn] # NoFrame /\ open
  BY <1>1 DEF IInv, ApiOK
<1>3. /\ c # turn /\ Age(c)' = 0 /\ \A d \in Contexts \ {c} : Age(d)' = Age(d) + 1
  BY <1>1, Turned
<1>4. \A d \in Contexts : Age(d) \in 0..(N - 1)
  BY <1>1, Ages
<1> QED BY <1>1, <1>2, <1>3, <1>4

LEMMA OnlyTurns ==
  ASSUME IInv, NEW c \in Contexts, Turn(c), NEW R, NEW g,
         reference' = [reference EXCEPT ![c] = R], fdec' = [fdec EXCEPT ![c] = g],
         UNCHANGED <<kept, rowVars, poolVars>>, api' # "closed"
  PROVE  QueueOK' /\ WorkOK' /\ RowsOK'
<1>1. /\ phase[c] = "free" /\ api # "closed"
      /\ \A d \in Contexts \ {c} : Age(d)' = Age(d) + 1
      /\ \A d \in Contexts : Age(d) \in 0..(N - 1)
  BY NextIsFree
<1>2. /\ phase' = phase /\ queue' = queue /\ fref' = fref /\ row' = row /\ at' = at
      /\ lines' = lines /\ done' = done /\ kept' = kept
  BY DEF rowVars, poolVars
<1>3. \A d \in Contexts \ {c} : reference'[d] = reference[d] /\ fdec'[d] = fdec[d]
  BY DEF IInv, Typed
<1>4. /\ \A d \in Contexts : Working(d)' => Working(d) /\ d # c
      /\ \A d \in Contexts : Busy(d)' => Busy(d) /\ d # c
  BY <1>1, <1>2 DEF Working, Busy
<1>5. QueueOK'
  BY <1>2 DEF IInv, QueueOK
<1>6. WorkOK'
  <2>1. \A d \in Contexts : phase'[d] \notin {"queued", "started"} => fref'[d] = {}
    BY <1>2 DEF IInv, WorkOK
  <2>2. \A d \in Contexts : Working(d)' => fref'[d] \subseteq ToSet(reference'[d])
    BY <1>2, <1>3, <1>4 DEF IInv, WorkOK
  <2>3. ASSUME NEW d \in Contexts, NEW e \in Contexts, Busy(d)', Busy(e)', d # e
        PROVE  fdec'[d] # fdec'[e] /\ (fdec'[e] \in fref'[d] => Age(e)' > Age(d)')
    <3>1. Busy(d) /\ Busy(e) /\ d \in Contexts \ {c} /\ e \in Contexts \ {c}
      BY <1>4, <2>3
    <3>2. fdec[d] # fdec[e] /\ (fdec[e] \in fref[d] => Age(e) > Age(d))
      BY <2>3, <3>1 DEF IInv, WorkOK
    <3>3. Age(e) > Age(d) => Age(e)' > Age(d)'
      <4>1. Age(e)' = Age(e) + 1 /\ Age(d)' = Age(d) + 1
        BY <1>1, <3>1
      <4>2. Age(e) \in 0..(N - 1) /\ Age(d) \in 0..(N - 1)
        BY <1>1
      <4> QED BY <4>1, <4>2, Params
    <3>4. fdec'[d] = fdec[d] /\ fdec'[e] = fdec[e] /\ fref'[d] = fref[d]
      BY <1>2, <1>3, <3>1
    <3> QED BY <3>2, <3>3, <3>4
  <2> QED BY <2>1, <2>2, <2>3 DEF WorkOK
<1>7. RowsOK'
  <2>1. \A d \in Contexts : Working(d)' =>
          /\ done'[fdec'[d]] = row'[d]
          /\ kept'[fdec'[d]] \/ lines'[fdec'[d]] = -1
          /\ at'[d] # "end" => row'[d] < Rows
          /\ row'[d] = 0 => at'[d] # "end"
          /\ phase'[d] = "queued" => at'[d] = "wait"
    BY <1>2, <1>3, <1>4 DEF IInv, RowsOK
  <2>2. ReadsOnlyWritten'
    BY <1>2 DEF IInv, RowsOK, ReadsOnlyWritten, Threshold
  <2>3. \A f \in Frames : lines'[f] = -1 \/ (done'[f] > 0 /\ lines'[f] = Completed(done'[f]))
    BY <1>2 DEF IInv, RowsOK
  <2> QED BY <2>1, <2>2, <2>3 DEF RowsOK
<1> QED BY <1>5, <1>6, <1>7

LEMMA SyncStep ==
  ASSUME IInv, NEW c \in Contexts, SyncOnly(c), drained' \in BOOLEAN,
         api' \in {"filling", "wait", "failed"}, api' = "filling" => api = "filling"
  PROVE  IInv'
<1>1. /\ Turn(c) /\ store' = Synced(turn, c)
      /\ reference' = [reference EXCEPT ![c] = reference[turn]]
      /\ fdec' = [fdec EXCEPT ![c] = fdec[turn]]
      /\ UNCHANGED <<kept, rowVars, poolVars>>
  BY DEF SyncOnly
<1>2. /\ phase[c] = "free" /\ fdec[c] # NoFrame /\ fdec[turn] # NoFrame
      /\ turn \in Contexts /\ api # "closed" /\ open
  BY <1>1, NextIsFree
<1>3. Typed /\ NoRepeats /\ Accounts(store, Holdings) /\ api' # "closed" /\ RingOK
  BY <1>2 DEF IInv, CountsOK
<1>4. /\ Accounts(store', [Holdings EXCEPT ![c] = HeldBy(turn)])
      /\ store'.made <= N + NumRef
  <2>1. /\ Accounts(Synced(turn, c), [Holdings EXCEPT ![c] = HeldBy(turn)])
        /\ Synced(turn, c).made = store.made
    BY <1>2, <1>3, Syncs
  <2> QED BY <1>1, <1>3, <2>1 DEF RingOK
<1> DEFINE R == reference[turn]
           g == fdec[turn]
<1>5. /\ R \in Seq(Frames) /\ Len(R) <= NumRef /\ Distinct(R)
      /\ g \in Frames \cup {NoFrame} /\ g \notin ToSet(R)
      /\ HeldBy(turn) = ToSet(R) \cup ({g} \ {NoFrame}) /\ ToSet(R) \subseteq HeldBy(turn)
  BY <1>2, <1>3 DEF Typed, NoRepeats, HeldBy
<1>6. reference' = [reference EXCEPT ![c] = R] /\ fdec' = [fdec EXCEPT ![c] = g]
  BY <1>1
<1>7. Accounts(store', [Holdings EXCEPT ![c] = ToSet(R) \cup ({g} \ {NoFrame})])
  BY <1>4, <1>5
<1> HIDE DEF R, g
<1>8. /\ NoRepeats' /\ CountsOK' /\ RingOK'
      /\ turn' \in Contexts /\ reference' \in [Contexts -> Seq(Frames)]
      /\ fdec' \in [Contexts -> Frames \cup {NoFrame}] /\ store' \in Stores
  BY <1>1, <1>3, <1>4, <1>5, <1>6, <1>7, Turning
<1>9. QueueOK' /\ WorkOK' /\ RowsOK'
  BY <1>1, <1>3, <1>6, OnlyTurns
<1>10. Typed'
  <2>1. api' \in APIs
    BY DEF APIs
  <2> QED BY <1>1, <1>3, <1>8, <2>1 DEF Typed, rowVars, poolVars
<1>11. ApiOK'
  <2>1. \A d \in Contexts : fdec'[d] # NoFrame
    <3>1. \A d \in Contexts : fdec[d] # NoFrame
      BY <1>1 DEF IInv, ApiOK, Turn
    <3> QED BY <1>2, <1>3, <1>6, <3>1 DEF g, Typed
  <2> QED BY <1>1, <1>2, <2>1 DEF IInv, ApiOK, poolVars
<1> QED BY <1>8, <1>9, <1>10, <1>11 DEF IInv

LEMMA NoMemoryStep ==
  ASSUME IInv, NEW c \in Contexts, NoMemory(c)
  PROVE  IInv'
<1> DEFINE s == Release(Synced(turn, c), Leaving(turn))
           R == Updated(turn)
<1>1. /\ Turn(c) /\ store' = s /\ api' = "failed" /\ drained' = drained
      /\ reference' = [reference EXCEPT ![c] = R]
      /\ fdec' = [fdec EXCEPT ![c] = NoFrame]
      /\ UNCHANGED <<kept, rowVars, poolVars>>
  BY DEF NoMemory
<1>2. /\ phase[c] = "free" /\ fdec[c] # NoFrame /\ fdec[turn] # NoFrame
      /\ turn \in Contexts /\ api # "closed" /\ open
  BY <1>1, NextIsFree
<1>3. Typed /\ NoRepeats /\ Accounts(store, Holdings) /\ api' # "closed" /\ RingOK
  BY <1>1, <1>2 DEF IInv, CountsOK
<1>4. /\ Accounts(s, [Holdings EXCEPT ![c] = ToSet(R)])
      /\ s.made = store.made
  BY <1>2, <1>3, Updates
<1>5. /\ R \in Seq(Frames) /\ Len(R) <= NumRef /\ Distinct(R)
      /\ ToSet(R) \subseteq HeldBy(turn)
  BY <1>2, <1>3, UpdatedFacts
<1>6. NoFrame \in Frames \cup {NoFrame} /\ NoFrame \notin ToSet(R)
      /\ ToSet(R) = ToSet(R) \cup ({NoFrame} \ {NoFrame})
  BY <1>5, Ranges, Params
<1> HIDE DEF s, R
<1>7. /\ Accounts(store', [Holdings EXCEPT ![c] = ToSet(R) \cup ({NoFrame} \ {NoFrame})])
      /\ store'.made <= N + NumRef
  BY <1>1, <1>3, <1>4, <1>6 DEF RingOK
<1>8. /\ NoRepeats' /\ CountsOK' /\ RingOK'
      /\ turn' \in Contexts /\ reference' \in [Contexts -> Seq(Frames)]
      /\ fdec' \in [Contexts -> Frames \cup {NoFrame}] /\ store' \in Stores
  BY <1>1, <1>3, <1>5, <1>6, <1>7, Turning
<1>9. QueueOK' /\ WorkOK' /\ RowsOK'
  BY <1>1, <1>3, OnlyTurns
<1>10. Typed'
  <2>1. api' \in APIs
    BY <1>1 DEF APIs
  <2> QED BY <1>1, <1>3, <1>8, <2>1 DEF Typed, rowVars, poolVars
<1>11. ApiOK'
  <2>1. \A d \in Contexts : fdec'[d] = NoFrame => phase'[d] = "free"
    <3>1. \A d \in Contexts : fdec[d] # NoFrame
      BY <1>1 DEF IInv, ApiOK, Turn
    <3> QED BY <1>1, <1>2, <1>3, <3>1 DEF Typed, poolVars
  <2> QED BY <1>1, <1>2, <2>1 DEF IInv, ApiOK, poolVars
<1> QED BY <1>8, <1>9, <1>10, <1>11 DEF IInv

(* A queue without repetitions, of contexts that wait, and one more.       *)
LEMMA Queued ==
  ASSUME Typed, QueueOK, NEW c \in Contexts, phase[c] = "free",
         phase' = [phase EXCEPT ![c] = "queued"], queue' = Append(queue, c)
  PROVE  QueueOK' /\ queue' \in Seq(Contexts)
<1>1. /\ queue \in Seq(Contexts) /\ Len(queue) \in Nat
      /\ \A k \in 1..Len(queue) : queue[k] \in Contexts /\ phase[queue[k]] = "queued"
  BY DEF Typed, QueueOK
<1>2. /\ queue' \in Seq(Contexts) /\ Len(queue') = Len(queue) + 1
      /\ \A k \in 1..Len(queue) : queue'[k] = queue[k]
      /\ queue'[Len(queue) + 1] = c
  BY <1>1
<1>3. /\ phase'[c] = "queued"
      /\ \A d \in Contexts \ {c} : phase'[d] = phase[d]
  BY DEF Typed
<1>4. \A k \in 1..Len(queue) : queue[k] # c
  BY <1>1
<1>5. \A k \in 1..Len(queue') : k \in 1..Len(queue) \/ k = Len(queue) + 1
  BY <1>1, <1>2
<1>6. \A k \in 1..Len(queue') : phase'[queue'[k]] = "queued"
  BY <1>1, <1>2, <1>3, <1>4, <1>5
<1>7. \A k, l \in 1..Len(queue') : queue'[k] = queue'[l] => k = l
  <2>1. \A k, l \in 1..Len(queue) : queue[k] = queue[l] => k = l
    BY DEF QueueOK
  <2> QED BY <1>2, <1>4, <1>5, <2>1
<1> QED BY <1>2, <1>6, <1>7 DEF QueueOK

LEMMA EncodeStep ==
  ASSUME IInv, NEW c \in Contexts, NEW t \in Types, EncodeCall(c, t)
  PROVE  IInv'
<1> DEFINE L == Updated(turn)
           s == Release(Synced(turn, c), Leaving(turn))
           f == Taken(s)
           gone == IF t = "IDR" THEN L ELSE <<>>
           R == IF t = "IDR" THEN <<>> ELSE L
<1>1. /\ Turn(c) /\ store' = Release(Pop(s), gone) /\ drained' = drained /\ api' = "wait"
      /\ reference' = [reference EXCEPT ![c] = R]
      /\ fdec' = [fdec EXCEPT ![c] = f]
      /\ kept' = [kept EXCEPT ![f] = t # "B"]
      /\ lines' = [lines EXCEPT ![f] = -1]
      /\ done' = [done EXCEPT ![f] = 0]
      /\ fref' = [fref EXCEPT ![c] = Lists(t, turn)]
      /\ row' = [row EXCEPT ![c] = 0]
      /\ at' = [at EXCEPT ![c] = "wait"]
      /\ phase' = [phase EXCEPT ![c] = "queued"] /\ queue' = Append(queue, c)
      /\ result' = result /\ returned' = returned /\ open' = open
  BY DEF EncodeCall, ResetLines, Pool!Submit
<1>2. /\ phase[c] = "free" /\ fdec[c] # NoFrame /\ fdec[turn] # NoFrame
      /\ turn \in Contexts /\ api # "closed" /\ open /\ c = Oldest
      /\ Age(c)' = 0 /\ \A d \in Contexts \ {c} : Age(d)' = Age(d) + 1
      /\ \A d \in Contexts : Age(d) \in 0..(N - 1)
  BY <1>1, NextIsFree
<1>3. Typed /\ NoRepeats /\ Accounts(store, Holdings) /\ RingOK
  BY <1>2 DEF IInv, CountsOK
<1>4. /\ L \in Seq(Frames) /\ Len(L) <= NumRef /\ Distinct(L)
      /\ ToSet(L) \subseteq HeldBy(turn)
  BY <1>2, <1>3, UpdatedFacts
<1>5. s = s /\ f = f /\ gone = IF t = "IDR" THEN Updated(turn) ELSE <<>>
  OBVIOUS
<1>6. Lists(t, turn) \subseteq ToSet(R)
  BY DEF Lists
<1>7. fref' = [fref EXCEPT ![c] = Lists(t, turn)] /\ t \in Types
  BY <1>1
<1>8. /\ f \in Frames /\ f \notin ToSet(L)
      /\ \A d \in Contexts \ {c} : f \notin HeldBy(d)
      /\ Accounts(store', [Holdings EXCEPT ![c] = (ToSet(L) \ ToSet(gone)) \cup {f}])
      /\ store'.made <= N + NumRef
  <2> HIDE DEF s, gone, f
  <2>1. s = Release(Synced(turn, c), Leaving(turn)) /\ f = Taken(s)
        /\ gone = IF t = "IDR" THEN Updated(turn) ELSE <<>>
    BY DEF s, f, gone
  <2>2. /\ f \in Frames /\ f \notin ToSet(Updated(turn))
        /\ \A d \in Contexts \ {c} : f \notin HeldBy(d)
        /\ Accounts(Release(Pop(s), gone),
                    [Holdings EXCEPT ![c] = (ToSet(Updated(turn)) \ ToSet(gone)) \cup {f}])
        /\ Release(Pop(s), gone).made <= N + NumRef
    BY <1>2, <1>3, <2>1, Encodes
  <2> QED BY <1>1, <2>2
<1>9. /\ R \in Seq(Frames) /\ Len(R) <= NumRef /\ Distinct(R)
      /\ ToSet(R) \subseteq HeldBy(turn) /\ f \notin ToSet(R)
      /\ ToSet(R) = ToSet(L) \ ToSet(gone)
  <2>1. CASE t = "IDR"
    <3>1. R = <<>> /\ gone = L
      BY <2>1
    <3> HIDE DEF R, gone, L
    <3> QED BY <1>4, <3>1, Empty, Params
  <2>2. CASE t # "IDR"
    <3>1. R = L /\ gone = <<>>
      BY <2>2
    <3> HIDE DEF R, gone, L
    <3> QED BY <1>4, <1>8, <3>1, Empty
  <2> QED BY <2>1, <2>2
<1>10. f \in Frames \cup {NoFrame} /\ f # NoFrame /\ {f} \ {NoFrame} = {f}
  BY <1>8, Params
<1> HIDE DEF L, s, f, gone, R
<1>11. Accounts(store', [Holdings EXCEPT ![c] = ToSet(R) \cup ({f} \ {NoFrame})])
  BY <1>8, <1>9, <1>10
<1>12. /\ NoRepeats' /\ CountsOK' /\ RingOK'
       /\ turn' \in Contexts /\ reference' \in [Contexts -> Seq(Frames)]
       /\ fdec' \in [Contexts -> Frames \cup {NoFrame}] /\ store' \in Stores
  BY <1>1, <1>3, <1>8, <1>9, <1>10, <1>11, Turning
<1>13. QueueOK' /\ queue' \in Seq(Contexts)
  BY <1>1, <1>2, Queued DEF IInv
<1>14. Lists(t, turn) \subseteq Frames
  BY <1>6, <1>9, Ranges
<1>15. Typed'
  <2>1. api' \in APIs /\ "wait" \in {"wait", "code", "end"} /\ "queued" \in Phases
    BY <1>1 DEF APIs, Phases
  <2>2. kept' \in [Frames -> BOOLEAN]
    BY <1>1, <1>3 DEF Typed
  <2>3. -1 \in Int /\ 0 \in 0..Rows
    BY Params
  <2>4. lines' \in [Frames -> Int] /\ done' \in [Frames -> 0..Rows]
    BY <1>1, <1>3, <2>3 DEF Typed
  <2>5. row' \in [Contexts -> 0..Rows] /\ at' \in [Contexts -> {"wait", "code", "end"}]
    BY <1>1, <1>3, <2>1, <2>3 DEF Typed
  <2>6. phase' \in [Contexts -> Phases]
    BY <1>1, <1>3, <2>1 DEF Typed
  <2>7. fref' \in [Contexts -> SUBSET Frames]
    BY <1>3, <1>7, <1>14 DEF Typed
  <2> QED BY <1>1, <1>3, <1>12, <1>13, <2>1, <2>2, <2>4, <2>5, <2>6, <2>7 DEF Typed
(* The contexts, and the other frames. *)
<1>16. /\ \A d \in Contexts \ {c} :
            /\ reference'[d] = reference[d] /\ fdec'[d] = fdec[d] /\ fref'[d] = fref[d]
            /\ row'[d] = row[d] /\ at'[d] = at[d] /\ phase'[d] = phase[d]
       /\ reference'[c] = R /\ fdec'[c] = f /\ fref'[c] = Lists(t, turn)
       /\ row'[c] = 0 /\ at'[c] = "wait" /\ phase'[c] = "queued"
  BY <1>1, <1>3 DEF Typed
<1>17. /\ \A x \in Frames \ {f} : lines'[x] = lines[x] /\ done'[x] = done[x] /\ kept'[x] = kept[x]
       /\ lines'[f] = -1 /\ done'[f] = 0
  BY <1>1, <1>3, <1>8 DEF Typed
<1>18. api' # "closed" /\ open'
  BY <1>1, <1>2
<1>19. ApiOK'
  <2>1. \A d \in Contexts : fdec'[d] # NoFrame
    <3>1. \A d \in Contexts : fdec[d] # NoFrame
      BY <1>1 DEF IInv, ApiOK, Turn
    <3> QED BY <1>10, <1>16, <3>1
  <2> QED BY <1>1, <1>2, <2>1 DEF ApiOK
<1>20. /\ \A d \in Contexts \ {c} : Busy(d)' => Busy(d)
       /\ \A d \in Contexts \ {c} : Working(d)' => Working(d)
  BY <1>2, <1>16, <1>18 DEF Busy, Working
<1>21. ASSUME NEW d \in Contexts \ {c}, Busy(d)
       PROVE  fdec[d] # f /\ f \notin fref[d] /\ fdec[d] \in Frames
  <2>1. fdec[d] \in Frames \cup {NoFrame} /\ fdec[d] # NoFrame
    BY <1>2, <1>3, <1>21 DEF IInv, ApiOK, Typed, Busy
  <2>2. fref[d] \subseteq ToSet(reference[d])
    BY <1>2 DEF IInv, WorkOK, Working
  <2> QED BY <1>8, <2>1, <2>2 DEF HeldBy
<1>22. WorkOK'
  <2>1. \A d \in Contexts : phase'[d] \notin {"queued", "started"} => fref'[d] = {}
    BY <1>16 DEF IInv, WorkOK
  <2>2. \A d \in Contexts : Working(d)' => fref'[d] \subseteq ToSet(reference'[d])
    BY <1>6, <1>16, <1>20 DEF IInv, WorkOK
  <2>3. ASSUME NEW d \in Contexts, NEW e \in Contexts, Busy(d)', Busy(e)', d # e
        PROVE  fdec'[d] # fdec'[e] /\ (fdec'[e] \in fref'[d] => Age(e)' > Age(d)')
    <3>1. CASE d = c
      <4>1. e \in Contexts \ {c} /\ Busy(e)
        BY <1>20, <2>3, <3>1
      <4>2. Age(e)' > Age(d)'
        BY <1>2, <3>1, <4>1, Params
      <4> QED BY <1>16, <1>21, <3>1, <4>1, <4>2
    <3>2. CASE e = c
      <4>1. d \in Contexts \ {c} /\ Busy(d)
        BY <1>20, <2>3, <3>2
      <4> QED BY <1>16, <1>21, <3>2, <4>1
    <3>3. CASE d # c /\ e # c
      <4>1. Busy(d) /\ Busy(e) /\ d \in Contexts \ {c} /\ e \in Contexts \ {c}
        BY <1>20, <2>3, <3>3
      <4>2. fdec[d] # fdec[e] /\ (fdec[e] \in fref[d] => Age(e) > Age(d))
        BY <2>3, <4>1 DEF IInv, WorkOK
      <4>3. Age(e) > Age(d) => Age(e)' > Age(d)'
        <5>1. Age(e)' = Age(e) + 1 /\ Age(d)' = Age(d) + 1
          BY <1>2, <4>1
        <5>2. Age(e) \in 0..(N - 1) /\ Age(d) \in 0..(N - 1)
          BY <1>2
        <5> QED BY <5>1, <5>2, Params
      <4> QED BY <1>16, <4>1, <4>2, <4>3
    <3> QED BY <3>1, <3>2, <3>3
  <2> QED BY <2>1, <2>2, <2>3 DEF WorkOK
<1>23. RowsOK'
  <2>1. ASSUME NEW d \in Contexts, Working(d)'
        PROVE  /\ done'[fdec'[d]] = row'[d]
               /\ kept'[fdec'[d]] \/ lines'[fdec'[d]] = -1
               /\ at'[d] # "end" => row'[d] < Rows
               /\ row'[d] = 0 => at'[d] # "end"
               /\ phase'[d] = "queued" => at'[d] = "wait"
    <3>1. CASE d = c
      BY <1>16, <1>17, <3>1, Params
    <3>2. CASE d # c
      <4>1. Working(d) /\ Busy(d) /\ d \in Contexts \ {c}
        BY <1>20, <2>1, <3>2 DEF Working, Busy
      <4>2. fdec[d] \in Frames \ {f}
        BY <1>21, <4>1
      <4>3. /\ done[fdec[d]] = row[d]
            /\ kept[fdec[d]] \/ lines[fdec[d]] = -1
            /\ at[d] # "end" => row[d] < Rows
            /\ row[d] = 0 => at[d] # "end"
            /\ phase[d] = "queued" => at[d] = "wait"
        BY <4>1 DEF IInv, RowsOK
      <4> QED BY <1>16, <1>17, <4>1, <4>2, <4>3
    <3> QED BY <3>1, <3>2
  <2>2. ReadsOnlyWritten'
    <3> SUFFICES ASSUME NEW d \in Contexts, phase'[d] = "started", at'[d] = "code",
                        NEW x \in fref'[d]
                 PROVE  done'[x] >= IF Threshold(d)' + Margin < Rows
                                    THEN Threshold(d)' + Margin ELSE Rows
      BY DEF ReadsOnlyWritten
    <3>1. d \in Contexts \ {c} /\ phase[d] = "started" /\ at[d] = "code" /\ x \in fref[d]
      BY <1>16
    <3>2. Busy(d)
      BY <1>2, <3>1 DEF Busy
    <3>3. x \in Frames \ {f}
      BY <1>3, <1>21, <3>1, <3>2 DEF Typed
    <3>4. Threshold(d)' = Threshold(d)
      BY <1>16, <3>1 DEF Threshold
    <3> QED BY <1>17, <3>1, <3>3, <3>4 DEF IInv, RowsOK, ReadsOnlyWritten
  <2>3. \A x \in Frames : lines'[x] = -1 \/ (done'[x] > 0 /\ lines'[x] = Completed(done'[x]))
    BY <1>17 DEF IInv, RowsOK
  <2> QED BY <2>1, <2>2, <2>3 DEF RowsOK
<1> QED BY <1>12, <1>13, <1>15, <1>19, <1>22, <1>23 DEF IInv

(* The API thread while it waits, and when the encoder closes: the         *)
(* contexts keep what they have.                                           *)
LEMMA Resting ==
  ASSUME IInv, UNCHANGED frameVars, UNCHANGED rowVars, api # "closed", api' # "closed",
         \A d \in Contexts : phase'[d] # phase[d] => phase'[d] = "free" /\ phase[d] = "finished"
  PROVE  WorkOK' /\ RowsOK'
<1>1. /\ turn' = turn /\ reference' = reference /\ fdec' = fdec /\ kept' = kept
      /\ fref' = fref /\ row' = row /\ at' = at /\ lines' = lines /\ done' = done
  BY DEF frameVars, rowVars
<1>2. /\ \A d \in Contexts : Working(d)' => Working(d) /\ phase'[d] = phase[d]
      /\ \A d \in Contexts : Busy(d)' => Busy(d)
  BY DEF Working, Busy
<1>3. \A d \in Contexts : Age(d)' = Age(d)
  BY <1>1 DEF Age
<1>4. WorkOK'
  <2>1. \A d \in Contexts : phase'[d] \notin {"queued", "started"} => fref'[d] = {}
    BY <1>1 DEF IInv, WorkOK
  <2>2. \A d \in Contexts : Working(d)' => fref'[d] \subseteq ToSet(reference'[d])
    BY <1>1, <1>2 DEF IInv, WorkOK
  <2>3. \A d, e \in Contexts : Busy(d)' /\ Busy(e)' /\ d # e =>
           /\ fdec'[d] # fdec'[e]
           /\ fdec'[e] \in fref'[d] => Age(e)' > Age(d)'
    BY <1>1, <1>2, <1>3 DEF IInv, WorkOK
  <2> QED BY <2>1, <2>2, <2>3 DEF WorkOK
<1>5. RowsOK'
  <2>1. \A d \in Contexts : Working(d)' =>
          /\ done'[fdec'[d]] = row'[d]
          /\ kept'[fdec'[d]] \/ lines'[fdec'[d]] = -1
          /\ at'[d] # "end" => row'[d] < Rows
          /\ row'[d] = 0 => at'[d] # "end"
          /\ phase'[d] = "queued" => at'[d] = "wait"
    BY <1>1, <1>2 DEF IInv, RowsOK
  <2>2. ReadsOnlyWritten'
    <3>1. \A d \in Contexts : phase'[d] = "started" => phase[d] = "started"
      OBVIOUS
    <3> QED BY <1>1, <3>1 DEF IInv, RowsOK, ReadsOnlyWritten, Threshold
  <2>3. \A f \in Frames : lines'[f] = -1 \/ (done'[f] > 0 /\ lines'[f] = Completed(done'[f]))
    BY <1>1 DEF IInv, RowsOK
  <2> QED BY <2>1, <2>2, <2>3 DEF RowsOK
<1> QED BY <1>4, <1>5

LEMMA WaitStep ==
  ASSUME IInv, NothingToEnd \/ EndFrame \/ CloseCall
  PROVE  IInv'
<1>1. api # "closed" /\ api' # "closed" /\ UNCHANGED frameVars /\ UNCHANGED rowVars
      /\ drained' = drained /\ api' \in APIs
  BY DEF NothingToEnd, EndFrame, CloseCall, APIs, IInv, Typed
<1>2. Typed /\ QueueOK /\ ApiOK /\ Oldest \in Contexts /\ Oldest' = Oldest
  <2>1. turn \in Contexts /\ turn' = turn
    BY <1>1 DEF IInv, Typed, frameVars
  <2>2. Oldest \in Contexts
    BY <2>1, Ages
  <2> QED BY <2>1, <2>2 DEF IInv, Oldest, After
<1>3. NoRepeats' /\ CountsOK' /\ RingOK'
  BY <1>1, Keeps
<1>4. CASE NothingToEnd
  <2>1. /\ api = "wait" /\ phase[Oldest] = "free" /\ api' = "idle" /\ phase' = phase
        /\ queue' = queue /\ result' = result /\ returned' = returned /\ open' = open
    BY <1>4 DEF NothingToEnd, poolVars
  <2>5. \A d \in Contexts :
           phase'[d] # phase[d] => phase'[d] = "free" /\ phase[d] = "finished"
    BY <2>1
  <2>2. WorkOK' /\ RowsOK'
    BY <1>1, <2>5, Resting
  <2>3. Typed' /\ QueueOK'
    BY <1>1, <1>2, <2>1 DEF Typed, QueueOK, frameVars, rowVars
  <2>4. ApiOK'
    BY <1>1, <1>2, <2>1 DEF ApiOK, frameVars
  <2> QED BY <1>3, <2>2, <2>3, <2>4 DEF IInv
<1>5. CASE EndFrame
  <2>1. /\ api = "wait" /\ open /\ phase[Oldest] = "finished"
        /\ phase' = [phase EXCEPT ![Oldest] = "free"]
        /\ returned' = result[Oldest]
        /\ result' = [result EXCEPT ![Oldest] = NoResult]
        /\ queue' = queue /\ open' = open /\ api' \in {"idle", "failed"}
    BY <1>5 DEF EndFrame, Pool!Collect
  <2>2. \A d \in Contexts : phase'[d] = IF d = Oldest THEN "free" ELSE phase[d]
    BY <1>2, <2>1 DEF Typed
  <2>7. \A d \in Contexts :
           phase'[d] # phase[d] => phase'[d] = "free" /\ phase[d] = "finished"
    BY <2>1, <2>2
  <2>3. WorkOK' /\ RowsOK'
    BY <1>1, <2>7, Resting
  <2>4. Typed'
    <3>1. "free" \in Phases
      BY DEF Phases
    <3>2. phase' \in [Contexts -> Phases]
      BY <1>2, <2>1, <3>1 DEF Typed
    <3>3. returned' \in Results \cup {NoResult} /\ result' \in [Contexts -> Results \cup {NoResult}]
      BY <1>2, <2>1 DEF Typed
    <3> QED BY <1>1, <1>2, <2>1, <3>2, <3>3 DEF Typed, frameVars, rowVars
  <2>5. QueueOK'
    <3>1. \A k \in 1..Len(queue) : queue[k] \in Contexts /\ queue[k] # Oldest
      BY <1>2, <2>1 DEF Typed, QueueOK
    <3> QED BY <1>2, <2>1, <2>2, <3>1 DEF QueueOK
  <2>6. ApiOK'
    <3>1. phase'[Oldest'] = "free"
      BY <1>2, <2>2
    <3>2. \A d \in Contexts : fdec'[d] # NoFrame
      BY <1>1, <1>2, <2>1 DEF ApiOK, frameVars
    <3> QED BY <1>2, <2>1, <3>1, <3>2 DEF ApiOK
  <2> QED BY <1>3, <2>3, <2>4, <2>5, <2>6 DEF IInv
<1>6. CASE CloseCall
  <2>1. /\ phase' = phase /\ queue' = queue /\ result' = result /\ returned' = returned
        /\ open' = FALSE /\ api' = "closing"
    BY <1>6 DEF CloseCall, Pool!Shutdown
  <2>5. \A d \in Contexts :
           phase'[d] # phase[d] => phase'[d] = "free" /\ phase[d] = "finished"
    BY <2>1
  <2>2. WorkOK' /\ RowsOK'
    BY <1>1, <2>5, Resting
  <2>3. Typed' /\ QueueOK'
    BY <1>1, <1>2, <2>1 DEF Typed, QueueOK, frameVars, rowVars
  <2>4. ApiOK'
    BY <1>1, <1>2, <2>1 DEF ApiOK, frameVars
  <2> QED BY <1>3, <2>2, <2>3, <2>4 DEF IInv
<1> QED BY <1>4, <1>5, <1>6

LEMMA HeldFacts ==
  ASSUME Typed, NoRepeats, NEW c \in Contexts
  PROVE  /\ Held(c) \in Seq(Frames) /\ Distinct(Held(c)) /\ Len(Held(c)) <= NumRef + 1
         /\ ToSet(Held(c)) = HeldBy(c)
<1> DEFINE s == reference[c]
           e == fdec[c]
<1>1. /\ s \in Seq(Frames) /\ Len(s) \in Nat /\ Len(s) <= NumRef /\ Distinct(s)
      /\ e \in Frames \cup {NoFrame} /\ e \notin ToSet(s) /\ NumRef \in Nat
  BY Params DEF Typed, NoRepeats
<1>2. CASE e = NoFrame
  <2>1. Held(c) = s \o <<>>
    BY <1>2 DEF Held
  <2> HIDE DEF s, e
  <2>2. s \o <<>> = s
    BY <1>1, ConcatEmptySeq
  <2>3. HeldBy(c) = ToSet(s)
    BY <1>2 DEF HeldBy, s, e
  <2> QED BY <1>1, <2>1, <2>2, <2>3
<1>3. CASE e # NoFrame
  <2>1. Held(c) = s \o <<e>> /\ e \in Frames
    BY <1>1, <1>3 DEF Held
  <2>2. HeldBy(c) = ToSet(s) \cup {e}
    BY <1>3 DEF HeldBy
  <2> HIDE DEF s, e
  <2>3. s \o <<e>> = Append(s, e)
    BY <1>1, <2>1, AppendIsConcat
  <2>4. /\ Append(s, e) \in Seq(Frames) /\ Len(Append(s, e)) = Len(s) + 1
        /\ Distinct(Append(s, e)) /\ ToSet(Append(s, e)) = ToSet(s) \cup {e}
    BY <1>1, <2>1, Appended
  <2>5. Held(c) = Append(s, e)
    BY <2>1, <2>3
  <2>6. Len(s) + 1 <= NumRef + 1
    BY <1>1
  <2> QED BY <2>2, <2>4, <2>5, <2>6
<1> QED BY <1>2, <1>3

LEMMA CloseJoinStep ==
  ASSUME IInv, CloseJoin
  PROVE  IInv'
<1> DEFINE lists == [c \in Contexts |-> Held(c)]
<1>1. /\ api = "closing" /\ api' = "closed" /\ Joined
      /\ store' = [store EXCEPT !.count =
                     [f \in Frames |-> store.count[f] - InAll(lists, f)]]
      /\ reference' = [c \in Contexts |-> <<>>]
      /\ fdec' = [c \in Contexts |-> NoFrame]
      /\ UNCHANGED <<turn, kept, rowVars, poolVars, drained>>
  BY DEF CloseJoin
<1>2. Typed /\ QueueOK /\ ApiOK /\ NoRepeats /\ Accounts(store, Holdings) /\ RingOK
  BY <1>1 DEF IInv, CountsOK
<1>3. /\ \A c \in Contexts : Distinct(lists[c]) /\ Len(lists[c]) <= NumRef + 1
      /\ lists \in [Contexts -> Seq(Frames)]
      /\ \A c \in Contexts : ToSet(lists[c]) = Holdings[c]
  BY <1>2, HeldFacts, HoldingsType
<1> HIDE DEF lists
<1>4. ASSUME NEW f \in Frames PROVE InAll(lists, f) = store.count[f] /\ store.count[f] \in Nat
  <2>1. InAll(lists, f) = Cardinality({c \in Contexts : f \in ToSet(lists[c])})
    BY <1>3, InAllOnce
  <2>2. {c \in Contexts : f \in ToSet(lists[c])} = Holders(Holdings, f)
    BY <1>3 DEF Holders
  <2>3. store.count[f] = Cardinality(Holders(Holdings, f))
    BY <1>2 DEF Accounts
  <2>4. store.count[f] \in Nat
    BY <1>2 DEF Accounts, Stores
  <2> QED BY <2>1, <2>2, <2>3, <2>4
<1>5. /\ store'.count = [f \in Frames |-> store.count[f] - InAll(lists, f)]
      /\ store'.unused = store.unused /\ store'.made = store.made
      /\ store' \in [count : [Frames -> Int], unused : SUBSET Frames, made : Frames]
  <2>1. store \in [count : [Frames -> Nat], unused : SUBSET Frames, made : Frames]
    BY <1>2 DEF Typed, Stores
  <2>2. [f \in Frames |-> store.count[f] - InAll(lists, f)] \in [Frames -> Int]
    <3>1. \A f \in Frames : store.count[f] - InAll(lists, f) \in Int
      BY <1>4
    <3> QED BY <3>1
  <2> DEFINE F == [f \in Frames |-> store.count[f] - InAll(lists, f)]
  <2>3. F \in [Frames -> Int] /\ store' = [store EXCEPT !.count = F]
    BY <1>1, <2>2
  <2> HIDE DEF F
  <2>4. store'.count = F /\ store'.unused = store.unused /\ store'.made = store.made
        /\ store' = [count |-> F, unused |-> store.unused, made |-> store.made]
    BY <2>1, <2>3
  <2>5. store.unused \in SUBSET Frames /\ store.made \in Frames
    BY <2>1
  <2> QED BY <2>3, <2>4, <2>5 DEF F
<1>6. \A f \in Frames : store'.count[f] = 0
  BY <1>4, <1>5
<1>7. store' \in Stores
  <2>1. store'.count \in [Frames -> Nat]
    <3>1. store'.count = [f \in Frames |-> store'.count[f]]
      BY <1>5
    <3>2. \A f \in Frames : store'.count[f] \in Nat
      BY <1>6
    <3> QED BY <3>1, <3>2
  <2> QED BY <1>5, <2>1 DEF Stores
<1>8. \A c \in Contexts : reference'[c] = <<>> /\ fdec'[c] = NoFrame
  BY <1>1
<1>9. Typed'
  <2>1. reference' \in [Contexts -> Seq(Frames)] /\ fdec' \in [Contexts -> Frames \cup {NoFrame}]
    BY <1>1, Empty
  <2>2. api' \in APIs
    BY <1>1 DEF APIs
  <2> QED BY <1>1, <1>2, <1>7, <2>1, <2>2 DEF Typed, rowVars, poolVars
<1>10. /\ phase' = phase /\ queue' = queue /\ fref' = fref /\ row' = row /\ at' = at
       /\ lines' = lines /\ done' = done /\ kept' = kept /\ open' = open
  BY <1>1 DEF rowVars, poolVars
<1>11. \A c \in Contexts : phase'[c] \notin {"started", "computed"}
  BY <1>1, <1>10 DEF Joined
<1>12. QueueOK' /\ ApiOK'
  <2>1. QueueOK'
    BY <1>2, <1>10 DEF QueueOK
  <2>2. ApiOK'
    BY <1>1, <1>2, <1>8, <1>10, <1>11 DEF ApiOK
  <2> QED BY <2>1, <2>2
<1>13. NoRepeats' /\ CountsOK' /\ RingOK'
  <2>1. NoRepeats'
    BY <1>8, Empty, Params DEF NoRepeats
  <2>2. CountsOK'
    BY <1>1, <1>6 DEF CountsOK
  <2>3. \A c \in Contexts : ToSet(reference'[c]) = {}
    BY <1>8, Empty
  <2>4. RingOK'
    BY <1>2, <1>5, <2>3 DEF RingOK
  <2> QED BY <2>1, <2>2, <2>4
<1>14. WorkOK' /\ RowsOK'
  <2>1. \A c \in Contexts : ~Working(c)' /\ ~Busy(c)'
    BY <1>1 DEF Working, Busy
  <2>2. WorkOK'
    BY <1>10, <2>1 DEF IInv, WorkOK
  <2>3. RowsOK'
    BY <1>10, <1>11, <2>1 DEF IInv, RowsOK, ReadsOnlyWritten
  <2> QED BY <2>2, <2>3
<1> QED BY <1>9, <1>12, <1>13, <1>14 DEF IInv

(* The frame threads.                                                      *)
LEMMA StartStep ==
  ASSUME IInv, NEW c \in Contexts, Start(c)
  PROVE  IInv'
<1>1. /\ queue # <<>> /\ c = Head(queue) /\ api # "closed"
      /\ phase' = [phase EXCEPT ![c] = "started"] /\ queue' = Tail(queue)
      /\ result' = result /\ returned' = returned /\ open' = open
      /\ UNCHANGED frameVars /\ UNCHANGED rowVars /\ api' = api /\ drained' = drained
  BY DEF Start, Pool!Start
<1>2. Typed /\ QueueOK /\ ApiOK /\ WorkOK /\ RowsOK
  BY DEF IInv
<1>3. /\ turn' = turn /\ reference' = reference /\ fdec' = fdec /\ kept' = kept /\ store' = store
      /\ fref' = fref /\ row' = row /\ at' = at /\ lines' = lines /\ done' = done
  BY <1>1 DEF frameVars, rowVars
<1>4. NoRepeats' /\ CountsOK' /\ RingOK' /\ \A d \in Contexts : Age(d)' = Age(d)
  BY <1>1, Keeps
<1>5. /\ queue \in Seq(Contexts) /\ Len(queue) \in Nat /\ Len(queue) > 0 /\ c = queue[1]
      /\ queue' \in Seq(Contexts) /\ Len(queue') = Len(queue) - 1
      /\ \A k \in 1..Len(queue') : queue'[k] = queue[k + 1]
  BY <1>1, <1>2 DEF Typed
<1>6. phase[c] = "queued" /\ \A k \in 2..Len(queue) : queue[k] # c
  <2>1. 1 \in 1..Len(queue) /\ \A k \in 2..Len(queue) : k \in 1..Len(queue) /\ k # 1
    BY <1>5
  <2> QED BY <1>2, <1>5, <2>1 DEF QueueOK
<1>7. \A d \in Contexts : phase'[d] = IF d = c THEN "started" ELSE phase[d]
  BY <1>1, <1>2 DEF Typed
<1>8. Typed'
  <2>1. "started" \in Phases
    BY DEF Phases
  <2>2. phase' \in [Contexts -> Phases]
    BY <1>1, <1>2, <2>1 DEF Typed
  <2> QED BY <1>1, <1>2, <1>3, <1>5, <2>2 DEF Typed
<1>9. QueueOK'
  <2>1. \A k \in 1..Len(queue') : k + 1 \in 2..Len(queue) /\ k + 1 \in 1..Len(queue) /\ k \in Int
    BY <1>5
  <2>2. ASSUME NEW k \in 1..Len(queue') PROVE phase'[queue'[k]] = "queued"
    <3>1. queue'[k] = queue[k + 1] /\ queue[k + 1] # c /\ phase[queue[k + 1]] = "queued"
      BY <1>2, <1>5, <1>6, <2>1 DEF QueueOK
    <3>2. queue[k + 1] \in Contexts
      BY <1>5, <2>1
    <3> QED BY <1>7, <3>1, <3>2
  <2>3. ASSUME NEW k \in 1..Len(queue'), NEW l \in 1..Len(queue'), queue'[k] = queue'[l]
        PROVE  k = l
    <3>1. queue[k + 1] = queue[l + 1]
      BY <1>5, <2>3
    <3>2. k + 1 = l + 1
      BY <1>2, <2>1, <3>1 DEF QueueOK
    <3> QED BY <2>1, <3>2
  <2> QED BY <2>2, <2>3 DEF QueueOK
<1>10. ApiOK'
  <2>1. api # "filling" /\ (api = "idle" => c # Oldest)
    BY <1>2, <1>6 DEF ApiOK
  <2>2. Oldest' = Oldest
    BY <1>3 DEF Oldest, After
  <2>3. fdec[c] # NoFrame
    BY <1>1, <1>2, <1>6 DEF ApiOK
  <2>4. api = "idle" => phase'[Oldest] = "free"
    <3>1. Oldest \in Contexts
      BY <1>2, Ages DEF Typed
    <3> QED BY <1>2, <1>7, <2>1, <3>1 DEF ApiOK
  <2> QED BY <1>1, <1>2, <1>3, <1>7, <2>1, <2>2, <2>3, <2>4 DEF ApiOK
<1>11. /\ \A d \in Contexts : Working(d)' <=> Working(d)
       /\ \A d \in Contexts : Busy(d)' <=> Busy(d)
  BY <1>1, <1>6, <1>7 DEF Working, Busy
<1>12. WorkOK'
  <2>1. \A d \in Contexts : phase'[d] \notin {"queued", "started"} => fref'[d] = {}
    BY <1>2, <1>3, <1>7 DEF WorkOK
  <2> QED BY <1>2, <1>3, <1>4, <1>11, <2>1 DEF WorkOK
<1>13. at[c] = "wait"
  BY <1>1, <1>2, <1>6 DEF RowsOK, Working
<1>14. RowsOK'
  <2>1. \A d \in Contexts : Working(d)' =>
          /\ done'[fdec'[d]] = row'[d]
          /\ kept'[fdec'[d]] \/ lines'[fdec'[d]] = -1
          /\ at'[d] # "end" => row'[d] < Rows
          /\ row'[d] = 0 => at'[d] # "end"
          /\ phase'[d] = "queued" => at'[d] = "wait"
    BY <1>2, <1>3, <1>7, <1>11 DEF RowsOK
  <2>2. ReadsOnlyWritten'
    <3>1. \A d \in Contexts : phase'[d] = "started" /\ at[d] = "code" => phase[d] = "started"
      BY <1>7, <1>13
    <3> QED BY <1>2, <1>3, <3>1 DEF RowsOK, ReadsOnlyWritten, Threshold
  <2>3. \A f \in Frames : lines'[f] = -1 \/ (done'[f] > 0 /\ lines'[f] = Completed(done'[f]))
    BY <1>2, <1>3 DEF RowsOK
  <2> QED BY <2>1, <2>2, <2>3 DEF RowsOK
<1> QED BY <1>4, <1>8, <1>9, <1>10, <1>12, <1>14 DEF IInv

LEMMA WaitRowsStep ==
  ASSUME IInv, NEW c \in Contexts, WaitRows(c)
  PROVE  IInv'
<1>1. /\ phase[c] = "started" /\ at[c] = "wait"
      /\ \A f \in fref[c] : lines[f] >= Threshold(c)
      /\ at' = [at EXCEPT ![c] = "code"]
      /\ UNCHANGED <<frameVars, fref, row, lines, done, poolVars, api, drained>>
  BY DEF WaitRows
<1>2. Typed /\ QueueOK /\ ApiOK /\ WorkOK /\ RowsOK
  BY DEF IInv
<1>3. /\ turn' = turn /\ reference' = reference /\ fdec' = fdec /\ kept' = kept /\ store' = store
      /\ fref' = fref /\ row' = row /\ lines' = lines /\ done' = done /\ api' = api
      /\ phase' = phase /\ queue' = queue /\ result' = result /\ returned' = returned
      /\ open' = open /\ drained' = drained /\ UNCHANGED frameVars
  BY <1>1 DEF frameVars, poolVars
<1>4. api # "closed" /\ Working(c)
  BY <1>1, <1>2 DEF ApiOK, Working
<1>5. NoRepeats' /\ CountsOK' /\ RingOK' /\ \A d \in Contexts : Age(d)' = Age(d)
  BY <1>3, <1>4, Keeps
<1>6. \A d \in Contexts : at'[d] = IF d = c THEN "code" ELSE at[d]
  BY <1>1, <1>2 DEF Typed
<1>7. Typed' /\ QueueOK' /\ ApiOK'
  <2>1. at' \in [Contexts -> {"wait", "code", "end"}]
    BY <1>1, <1>2 DEF Typed
  <2>2. Typed'
    BY <1>2, <1>3, <2>1 DEF Typed
  <2>3. QueueOK'
    BY <1>2, <1>3 DEF QueueOK
  <2>4. ApiOK'
    BY <1>2, <1>3 DEF ApiOK, Oldest, After
  <2> QED BY <2>2, <2>3, <2>4
<1>8. /\ \A d \in Contexts : Working(d)' <=> Working(d)
      /\ \A d \in Contexts : Busy(d)' <=> Busy(d)
  BY <1>3 DEF Working, Busy
<1>9. WorkOK'
  BY <1>2, <1>3, <1>5, <1>8 DEF WorkOK
<1>10. \A f \in fref[c] : done[f] >= IF Threshold(c) + Margin < Rows THEN Threshold(c) + Margin ELSE Rows
  <2> SUFFICES ASSUME NEW f \in fref[c]
               PROVE  done[f] >= IF Threshold(c) + Margin < Rows THEN Threshold(c) + Margin ELSE Rows
    OBVIOUS
  <2>1. /\ f \in Frames /\ done[f] \in 0..Rows /\ lines[f] \in Int /\ row[c] \in 0..Rows
        /\ lines[f] >= Threshold(c)
    BY <1>1, <1>2 DEF Typed
  <2>2. Threshold(c) = row[c] + Reach /\ Reach \in Nat /\ Rows \in Nat
    BY Params DEF Threshold
  <2>3. lines[f] # -1
    BY <2>1, <2>2
  <2>4. done[f] > 0 /\ lines[f] = Completed(done[f])
    BY <1>2, <2>1, <2>3 DEF RowsOK
  <2> QED BY <2>1, <2>2, <2>4 DEF Completed, Margin
<1>11. RowsOK'
  <2>1. \A d \in Contexts : Working(d)' =>
          /\ done'[fdec'[d]] = row'[d]
          /\ kept'[fdec'[d]] \/ lines'[fdec'[d]] = -1
          /\ at'[d] # "end" => row'[d] < Rows
          /\ row'[d] = 0 => at'[d] # "end"
          /\ phase'[d] = "queued" => at'[d] = "wait"
    BY <1>1, <1>2, <1>3, <1>6, <1>8 DEF RowsOK
  <2>2. ReadsOnlyWritten'
    <3> SUFFICES ASSUME NEW d \in Contexts, phase'[d] = "started", at'[d] = "code",
                        NEW f \in fref'[d]
                 PROVE  done'[f] >= IF Threshold(d)' + Margin < Rows
                                    THEN Threshold(d)' + Margin ELSE Rows
      BY DEF ReadsOnlyWritten
    <3>1. Threshold(d)' = Threshold(d) /\ done' = done /\ f \in fref[d] /\ phase[d] = "started"
      BY <1>3 DEF Threshold
    <3>2. CASE d = c
      BY <1>10, <3>1, <3>2
    <3>3. CASE d # c
      BY <1>2, <1>6, <3>1, <3>3 DEF RowsOK, ReadsOnlyWritten
    <3> QED BY <3>2, <3>3
  <2>3. \A f \in Frames : lines'[f] = -1 \/ (done'[f] > 0 /\ lines'[f] = Completed(done'[f]))
    BY <1>2, <1>3 DEF RowsOK
  <2> QED BY <2>1, <2>2, <2>3 DEF RowsOK
<1> QED BY <1>5, <1>7, <1>9, <1>11 DEF IInv

LEMMA CodeRowStep ==
  ASSUME IInv, NEW c \in Contexts, CodeRow(c)
  PROVE  IInv'
<1> DEFINE m == row[c] + 1
           f == fdec[c]
<1>1. /\ phase[c] = "started" /\ at[c] = "code"
      /\ row' = [row EXCEPT ![c] = m]
      /\ done' = [done EXCEPT ![f] = m]
      /\ lines' = IF kept[f] THEN [lines EXCEPT ![f] = Completed(m)] ELSE lines
      /\ at' = [at EXCEPT ![c] = IF m = Rows THEN "end" ELSE "wait"]
      /\ UNCHANGED <<frameVars, fref, poolVars, api, drained>>
  BY DEF CodeRow
<1>2. Typed /\ QueueOK /\ ApiOK /\ WorkOK /\ RowsOK
  BY DEF IInv
<1>3. /\ turn' = turn /\ reference' = reference /\ fdec' = fdec /\ kept' = kept /\ store' = store
      /\ fref' = fref /\ api' = api
      /\ phase' = phase /\ queue' = queue /\ result' = result /\ returned' = returned
      /\ open' = open /\ drained' = drained /\ UNCHANGED frameVars
  BY <1>1 DEF frameVars, poolVars
<1>4. api # "closed" /\ Working(c) /\ f # NoFrame
  BY <1>1, <1>2 DEF ApiOK, Working
<1>5. /\ f \in Frames /\ row[c] \in 0..Rows /\ row[c] < Rows /\ done[f] = row[c]
      /\ kept[f] \/ lines[f] = -1
  BY <1>1, <1>2, <1>4 DEF Typed, RowsOK
<1>6. m \in 0..Rows /\ m > 0 /\ m > row[c] /\ m \in Nat /\ (m # Rows => m < Rows)
  BY <1>5, Params
<1>7. NoRepeats' /\ CountsOK' /\ RingOK' /\ \A d \in Contexts : Age(d)' = Age(d)
  BY <1>3, <1>4, Keeps
<1>8. /\ \A d \in Contexts \ {c} : row'[d] = row[d] /\ at'[d] = at[d]
      /\ row'[c] = m /\ at'[c] = IF m = Rows THEN "end" ELSE "wait"
      /\ \A x \in Frames \ {f} : done'[x] = done[x] /\ lines'[x] = lines[x]
      /\ done'[f] = m
      /\ lines'[f] = IF kept[f] THEN Completed(m) ELSE lines[f]
  <2>1. /\ \A d \in Contexts \ {c} : row'[d] = row[d] /\ at'[d] = at[d]
        /\ row'[c] = m /\ at'[c] = IF m = Rows THEN "end" ELSE "wait"
    BY <1>1, <1>2 DEF Typed
  <2>2. /\ \A x \in Frames \ {f} : done'[x] = done[x] /\ lines'[x] = lines[x]
        /\ done'[f] = m
        /\ lines'[f] = IF kept[f] THEN Completed(m) ELSE lines[f]
    BY <1>1, <1>2, <1>5 DEF Typed
  <2> QED BY <2>1, <2>2
<1> HIDE DEF m, f
<1>9. Typed'
  <2>1. Completed(m) \in Int
    BY <1>6, Params DEF Completed, Margin
  <2>2. lines' \in [Frames -> Int] /\ done' \in [Frames -> 0..Rows]
    BY <1>1, <1>2, <1>6, <2>1 DEF Typed
  <2>3. row' \in [Contexts -> 0..Rows]
    BY <1>1, <1>2, <1>6 DEF Typed
  <2>4. at' \in [Contexts -> {"wait", "code", "end"}]
    BY <1>1, <1>2 DEF Typed
  <2> QED BY <1>2, <1>3, <2>2, <2>3, <2>4 DEF Typed
<1>10. QueueOK' /\ ApiOK'
  <2>1. QueueOK'
    BY <1>2, <1>3 DEF QueueOK
  <2>2. ApiOK'
    BY <1>2, <1>3 DEF ApiOK, Oldest, After
  <2> QED BY <2>1, <2>2
<1>11. /\ \A d \in Contexts : Working(d)' <=> Working(d)
       /\ \A d \in Contexts : Busy(d)' <=> Busy(d)
  BY <1>3 DEF Working, Busy
<1>12. WorkOK'
  BY <1>2, <1>3, <1>7, <1>11 DEF WorkOK
<1>13. ASSUME NEW d \in Contexts \ {c}, Working(d) PROVE fdec[d] \in Frames \ {f}
  <2>1. fdec[d] \in Frames \cup {NoFrame} /\ fdec[d] # NoFrame
    BY <1>2, <1>4, <1>13 DEF Typed, ApiOK, Working
  <2>2. Busy(c) /\ Busy(d)
    BY <1>4, <1>13 DEF Busy, Working
  <2>3. fdec[d] # fdec[c]
    BY <1>2, <2>2 DEF WorkOK
  <2> QED BY <2>1, <2>3 DEF f
<1>14. RowsOK'
  <2>1. ASSUME NEW d \in Contexts, Working(d)'
        PROVE  /\ done'[fdec'[d]] = row'[d]
               /\ kept'[fdec'[d]] \/ lines'[fdec'[d]] = -1
               /\ at'[d] # "end" => row'[d] < Rows
               /\ row'[d] = 0 => at'[d] # "end"
               /\ phase'[d] = "queued" => at'[d] = "wait"
    <3>1. CASE d = c
      <4>1. fdec'[d] = f
        BY <1>3, <3>1 DEF f
      <4>2. row'[d] # 0
        BY <1>6, <1>8, <3>1
      <4>3. at'[d] # "end" => row'[d] < Rows
        BY <1>6, <1>8, <3>1
      <4>4. kept'[f] \/ lines'[f] = -1
        BY <1>3, <1>5, <1>8
      <4>5. phase'[d] = "started"
        BY <1>1, <1>3, <3>1
      <4> QED BY <1>8, <3>1, <4>1, <4>2, <4>3, <4>4, <4>5
    <3>2. CASE d # c
      <4>1. Working(d) /\ d \in Contexts \ {c} /\ fdec[d] \in Frames \ {f}
        BY <1>11, <1>13, <2>1, <3>2
      <4>2. /\ done[fdec[d]] = row[d]
            /\ kept[fdec[d]] \/ lines[fdec[d]] = -1
            /\ at[d] # "end" => row[d] < Rows
            /\ row[d] = 0 => at[d] # "end"
            /\ phase[d] = "queued" => at[d] = "wait"
        BY <1>2, <4>1 DEF RowsOK
      <4> QED BY <1>3, <1>8, <4>1, <4>2
    <3> QED BY <3>1, <3>2
  <2>2. ReadsOnlyWritten'
    <3> SUFFICES ASSUME NEW d \in Contexts, phase'[d] = "started", at'[d] = "code",
                        NEW x \in fref'[d]
                 PROVE  done'[x] >= IF Threshold(d)' + Margin < Rows
                                    THEN Threshold(d)' + Margin ELSE Rows
      BY DEF ReadsOnlyWritten
    <3>1. d \in Contexts \ {c} /\ phase[d] = "started" /\ at[d] = "code" /\ x \in fref[d]
      BY <1>3, <1>8
    <3>2. Threshold(d)' = Threshold(d) /\ Threshold(d) \in Nat
      <4>1. row[d] \in 0..Rows /\ Rows \in Nat /\ Reach \in Nat
        BY <1>2, <3>1, Params DEF Typed
      <4>2. row'[d] = row[d]
        BY <1>8, <3>1
      <4>3. row[d] + Reach \in Nat
        BY <4>1
      <4> QED BY <4>2, <4>3 DEF Threshold
    <3> DEFINE th == Threshold(d)
    <3>3. done[x] >= IF th + Margin < Rows THEN th + Margin ELSE Rows
      BY <1>2, <3>1 DEF RowsOK, ReadsOnlyWritten
    <3>4. x \in Frames /\ done[x] \in Nat
      <4>1. x \in Frames
        BY <1>2, <3>1 DEF Typed
      <4>2. done[x] \in 0..Rows
        BY <1>2, <4>1 DEF Typed
      <4> QED BY <4>1, <4>2, Params
    <3>5. done'[x] >= done[x] /\ done'[x] \in Nat
      <4>1. CASE x = f
        BY <1>5, <1>6, <1>8, <3>4, <4>1
      <4>2. CASE x # f
        BY <1>8, <3>4, <4>2
      <4> QED BY <4>1, <4>2
    <3>6. th \in Nat
      BY <3>2
    <3> HIDE DEF th
    <3>7. done'[x] >= IF th + Margin < Rows THEN th + Margin ELSE Rows
      BY <3>3, <3>4, <3>5, <3>6, Params DEF Margin
    <3> QED BY <3>2, <3>7 DEF th
  <2>3. \A x \in Frames : lines'[x] = -1 \/ (done'[x] > 0 /\ lines'[x] = Completed(done'[x]))
    <3> SUFFICES ASSUME NEW x \in Frames
                 PROVE  lines'[x] = -1 \/ (done'[x] > 0 /\ lines'[x] = Completed(done'[x]))
      OBVIOUS
    <3>1. CASE x = f
      BY <1>5, <1>6, <1>8, <3>1
    <3>2. CASE x # f
      BY <1>2, <1>8, <3>2 DEF RowsOK
    <3> QED BY <3>1, <3>2
  <2> QED BY <2>1, <2>2, <2>3 DEF RowsOK
<1> QED BY <1>7, <1>9, <1>10, <1>12, <1>14 DEF IInv

(* The end of a slice, good or bad, and of its task.                       *)
LEMMA EndStep ==
  ASSUME IInv, NEW c \in Contexts, Ends(c, 0) \/ Ends(c, -1) \/ Finish(c)
  PROVE  IInv'
<1>1. /\ phase[c] \in {"started", "computed"}
      /\ \E p \in {"computed", "finished"} : phase' = [phase EXCEPT ![c] = p]
      /\ fref' = [fref EXCEPT ![c] = {}] \/ (fref' = fref /\ phase[c] = "computed")
      /\ result' = result \/ \E r \in Results : result' = [result EXCEPT ![c] = r]
      /\ queue' = queue /\ returned' = returned /\ open' = open
      /\ UNCHANGED <<frameVars, row, at, lines, done, api, drained>>
  BY DEF Ends, Finish, Pool!Compute, Pool!Finish, rowVars
<1>2. Typed /\ QueueOK /\ ApiOK /\ WorkOK /\ RowsOK
  BY DEF IInv
<1>3. /\ turn' = turn /\ reference' = reference /\ fdec' = fdec /\ kept' = kept /\ store' = store
      /\ row' = row /\ at' = at /\ lines' = lines /\ done' = done /\ api' = api
      /\ drained' = drained /\ UNCHANGED frameVars
  BY <1>1 DEF frameVars
<1>4. api # "closed"
  BY <1>1, <1>2 DEF ApiOK
<1>5. NoRepeats' /\ CountsOK' /\ RingOK' /\ \A d \in Contexts : Age(d)' = Age(d)
  BY <1>3, <1>4, Keeps
<1>6. /\ phase'[c] \in {"computed", "finished"} /\ fref'[c] = {}
      /\ \A d \in Contexts \ {c} : phase'[d] = phase[d] /\ fref'[d] = fref[d]
  <2>1. phase[c] = "computed" => fref[c] = {}
    BY <1>2 DEF WorkOK
  <2> QED BY <1>1, <1>2, <2>1 DEF Typed
<1>7. Typed'
  <2>1. phase' \in [Contexts -> Phases]
    BY <1>1, <1>2 DEF Typed, Phases
  <2>2. fref' \in [Contexts -> SUBSET Frames]
    BY <1>1, <1>2 DEF Typed
  <2>3. result' \in [Contexts -> Results \cup {NoResult}]
    BY <1>1, <1>2 DEF Typed
  <2> QED BY <1>1, <1>2, <1>3, <2>1, <2>2, <2>3 DEF Typed
<1>8. QueueOK'
  <2>1. \A k \in 1..Len(queue) : queue[k] \in Contexts /\ queue[k] # c
    BY <1>1, <1>2 DEF Typed, QueueOK
  <2> QED BY <1>1, <1>2, <1>6, <2>1 DEF QueueOK
<1>9. ApiOK'
  <2>1. api # "filling" /\ (api = "idle" => c # Oldest) /\ fdec[c] # NoFrame
    BY <1>1, <1>2, <1>4 DEF ApiOK
  <2>2. Oldest' = Oldest /\ Oldest \in Contexts
    BY <1>2, <1>3, Ages DEF Oldest, After, Typed
  <2> QED BY <1>1, <1>2, <1>3, <1>4, <1>6, <2>1, <2>2 DEF ApiOK
<1>10. /\ \A d \in Contexts : Working(d)' => Working(d) /\ d # c
       /\ \A d \in Contexts : Busy(d)' => Busy(d)
  BY <1>1, <1>3, <1>4, <1>6 DEF Working, Busy
<1>11. WorkOK'
  <2>1. \A d \in Contexts : phase'[d] \notin {"queued", "started"} => fref'[d] = {}
    BY <1>2, <1>6 DEF WorkOK
  <2>2. \A d \in Contexts : fref'[d] \subseteq fref[d]
    BY <1>6
  <2>3. \A d \in Contexts : Working(d)' => fref'[d] \subseteq ToSet(reference'[d])
    BY <1>2, <1>3, <1>10, <2>2 DEF WorkOK
  <2>4. ASSUME NEW d \in Contexts, NEW e \in Contexts, Busy(d)', Busy(e)', d # e
        PROVE  fdec'[d] # fdec'[e] /\ (fdec'[e] \in fref'[d] => Age(e)' > Age(d)')
    <3>1. fdec[d] # fdec[e] /\ (fdec[e] \in fref[d] => Age(e) > Age(d))
      BY <1>2, <1>10, <2>4 DEF WorkOK
    <3> QED BY <1>3, <1>5, <2>2, <3>1
  <2> QED BY <2>1, <2>3, <2>4 DEF WorkOK
<1>12. RowsOK'
  <2>1. \A d \in Contexts : Working(d)' =>
          /\ done'[fdec'[d]] = row'[d]
          /\ kept'[fdec'[d]] \/ lines'[fdec'[d]] = -1
          /\ at'[d] # "end" => row'[d] < Rows
          /\ row'[d] = 0 => at'[d] # "end"
          /\ phase'[d] = "queued" => at'[d] = "wait"
    BY <1>2, <1>3, <1>6, <1>10 DEF RowsOK
  <2>2. ReadsOnlyWritten'
    <3>1. \A d \in Contexts : phase'[d] = "started" => phase[d] = "started" /\ fref'[d] = fref[d]
      BY <1>6
    <3> QED BY <1>2, <1>3, <3>1 DEF RowsOK, ReadsOnlyWritten, Threshold
  <2>3. \A f \in Frames : lines'[f] = -1 \/ (done'[f] > 0 /\ lines'[f] = Completed(done'[f]))
    BY <1>2, <1>3 DEF RowsOK
  <2> QED BY <2>1, <2>2, <2>3 DEF RowsOK
<1> QED BY <1>5, <1>7, <1>8, <1>9, <1>11, <1>12 DEF IInv

LEMMA InitIInv == Init => IInv
<1> SUFFICES ASSUME Init PROVE IInv
  OBVIOUS
<1>1. /\ turn = 0 /\ api = "filling" /\ drained = FALSE
      /\ reference = [c \in Contexts |-> <<>>] /\ fdec = [c \in Contexts |-> c + 1]
      /\ fref = [c \in Contexts |-> {}] /\ row = [c \in Contexts |-> 0]
      /\ at = [c \in Contexts |-> "wait"]
      /\ store = [count  |-> [f \in Frames |-> IF f <= N THEN 1 ELSE 0],
                  unused |-> {}, made |-> N]
      /\ kept = [f \in Frames |-> FALSE] /\ lines = [f \in Frames |-> -1]
      /\ done = [f \in Frames |-> 0]
      /\ phase = [c \in Contexts |-> "free"] /\ queue = <<>>
      /\ result = [c \in Contexts |-> NoResult] /\ returned = NoResult /\ open
  BY DEF Init, Pool!Init
<1>2. /\ N \in Nat /\ N > 1 /\ NumRef \in Nat /\ Frames = 1..(N + NumRef + 3) /\ Rows \in Nat
      /\ Contexts = 0..(N - 1) /\ Rows > 0
  BY Params
<1>3. /\ \A c \in Contexts : c + 1 \in Frames /\ c + 1 # NoFrame
      /\ N \in Frames /\ 0 \in Contexts /\ 0 \in 0..Rows /\ -1 \in Int
  BY <1>2 DEF NoFrame
<1>4. \A c \in Contexts : reference[c] = <<>> /\ fdec[c] = c + 1 /\ ToSet(reference[c]) = {}
  BY <1>1, Empty
<1>5. store \in Stores
  <2> DEFINE F == [f \in Frames |-> IF f <= N THEN 1 ELSE 0]
  <2>1. F \in [Frames -> Nat]
    OBVIOUS
  <2> HIDE DEF F
  <2>2. store = [count |-> F, unused |-> {}, made |-> N]
    BY <1>1 DEF F
  <2> QED BY <1>3, <2>1, <2>2 DEF Stores
<1>6. Typed
  <2>1. /\ turn \in Contexts /\ drained \in BOOLEAN /\ api \in APIs
        /\ reference \in [Contexts -> Seq(Frames)]
        /\ fdec \in [Contexts -> Frames \cup {NoFrame}]
    BY <1>1, <1>3, Empty DEF APIs
  <2>2. /\ fref \in [Contexts -> SUBSET Frames] /\ row \in [Contexts -> 0..Rows]
        /\ at \in [Contexts -> {"wait", "code", "end"}]
    BY <1>1, <1>3
  <2>3. /\ kept \in [Frames -> BOOLEAN] /\ lines \in [Frames -> Int] /\ done \in [Frames -> 0..Rows]
    BY <1>1, <1>3
  <2>4. /\ phase \in [Contexts -> Phases] /\ queue \in Seq(Contexts)
        /\ result \in [Contexts -> Results \cup {NoResult}]
        /\ returned \in Results \cup {NoResult} /\ open \in BOOLEAN
    BY <1>1 DEF Phases
  <2> QED BY <1>5, <2>1, <2>2, <2>3, <2>4 DEF Typed
<1>7. QueueOK
  BY <1>1 DEF QueueOK
<1>8. ApiOK
  BY <1>1, <1>3, <1>4 DEF ApiOK
<1>9. NoRepeats
  BY <1>2, <1>4, Empty DEF NoRepeats
<1>10. \A c \in Contexts : Holdings[c] = {c + 1}
  BY <1>3, <1>4 DEF Holdings, HeldBy
<1>11. CountsOK
  <2>1. ASSUME NEW f \in Frames
        PROVE  Holders(Holdings, f) = IF f <= N THEN {f - 1} ELSE {}
    <3>1. \A c \in Contexts : f \in Holdings[c] <=> c = f - 1
      BY <1>2, <1>10
    <3>2. f - 1 \in Contexts <=> f <= N
      BY <1>2
    <3>3. Holders(Holdings, f) = {c \in Contexts : c = f - 1}
      BY <3>1 DEF Holders
    <3> QED BY <3>2, <3>3
  <2>2. ASSUME NEW f \in Frames PROVE store.count[f] = Cardinality(Holders(Holdings, f))
    <3>1. store.count[f] = IF f <= N THEN 1 ELSE 0
      BY <1>1
    <3>2. Cardinality({f - 1}) = 1 /\ Cardinality({}) = 0
      BY FS_Singleton, FS_EmptySet
    <3> QED BY <2>1, <3>1, <3>2
  <2>3. store.unused = {} /\ store.made = N
    BY <1>1
  <2>4. ASSUME NEW f \in Frames
        PROVE  /\ f \in store.unused <=> f <= store.made /\ Holders(Holdings, f) = {}
               /\ f > store.made => Holders(Holdings, f) = {}
    <3>1. f \notin store.unused /\ (f > store.made <=> ~(f <= N)) /\ (f <= store.made <=> f <= N)
      BY <1>2, <2>3
    <3>2. (f <= N) <=> Holders(Holdings, f) # {}
      BY <2>1
    <3> QED BY <3>1, <3>2
  <2> QED BY <1>1, <1>5, <2>2, <2>4 DEF CountsOK, Accounts
<1>12. RingOK
  <2>1. store.made <= N + NumRef
    BY <1>1, <1>2
  <2> QED BY <1>4, <2>1 DEF RingOK
<1>13. WorkOK
  BY <1>1 DEF WorkOK, Working, Busy
<1>14. RowsOK
  BY <1>1 DEF RowsOK, Working, ReadsOnlyWritten
<1> QED BY <1>6, <1>7, <1>8, <1>9, <1>11, <1>12, <1>13, <1>14 DEF IInv

LEMMA NextIInv == IInv /\ [Next]_vars => IInv'
<1> SUFFICES ASSUME IInv, [Next]_vars PROVE IInv'
  OBVIOUS
<1>1. drained \in BOOLEAN
  BY DEF IInv, Typed
<1>2. ASSUME NEW c \in Contexts, BufferCall(c) PROVE IInv'
  <2>1. SyncOnly(c) /\ drained' \in BOOLEAN /\ api' = "filling" /\ api = "filling"
    BY <1>1, <1>2 DEF BufferCall
  <2> QED BY <2>1, SyncStep
<1>3. ASSUME NEW c \in Contexts, FlushCall(c) PROVE IInv'
  <2>1. SyncOnly(c) /\ drained' \in BOOLEAN /\ api' = "wait"
    BY <1>3 DEF FlushCall
  <2> QED BY <2>1, SyncStep
<1>4. ASSUME NEW c \in Contexts, EncodeFails(c) PROVE IInv'
  <2>1. SyncOnly(c) /\ drained' \in BOOLEAN /\ api' = "failed"
    BY <1>1, <1>4 DEF EncodeFails
  <2> QED BY <2>1, SyncStep
<1>5. ASSUME NEW c \in Contexts, Thread(c) PROVE IInv'
  <2>1. CASE Start(c)
    BY <2>1, StartStep
  <2>2. CASE WaitRows(c)
    BY <2>2, WaitRowsStep
  <2>3. CASE CodeRow(c)
    BY <2>3, CodeRowStep
  <2>4. CASE SliceEnd(c) \/ SliceFails(c) \/ Finish(c)
    BY <2>4, EndStep DEF SliceEnd, SliceFails
  <2> QED BY <1>5, <2>1, <2>2, <2>3, <2>4 DEF Thread
<1>6. CASE UNCHANGED vars
  <2>1. /\ turn' = turn /\ reference' = reference /\ fdec' = fdec /\ store' = store /\ kept' = kept
        /\ fref' = fref /\ row' = row /\ at' = at /\ lines' = lines /\ done' = done
        /\ phase' = phase /\ queue' = queue /\ result' = result /\ returned' = returned
        /\ open' = open /\ api' = api /\ drained' = drained
    BY <1>6 DEF vars, frameVars, rowVars, poolVars
  <2>2. Typed' /\ QueueOK' /\ ApiOK' /\ NoRepeats'
    BY <2>1 DEF IInv, Typed, QueueOK, ApiOK, NoRepeats, Oldest, After
  <2>3. CountsOK' /\ RingOK'
    BY <2>1 DEF IInv, CountsOK, Holdings, HeldBy, RingOK, Between, Age
  <2>4. WorkOK' /\ RowsOK'
    BY <2>1 DEF IInv, WorkOK, RowsOK, Working, Busy, Age, ReadsOnlyWritten, Threshold
  <2> QED BY <2>2, <2>3, <2>4 DEF IInv
<1> QED BY <1>2, <1>3, <1>4, <1>5, <1>6, NoMemoryStep, EncodeStep, WaitStep, CloseJoinStep
        DEF Next, Terminated

-----------------------------------------------------------------------------
(* Every reachable state has the invariant: the setup of a picture, its    *)
(* rows and the close keep the counts, the lists and the rows together,    *)
(* failing calls included.                                                 *)
THEOREM FrameThreadsInvariant == Spec => []IInv
BY InitIInv, NextIInv, PTL DEF Spec

(* TypeOK: no list gets longer than i_num_ref_frames, no count negative,   *)
(* and the array of unused frames never gives out more than it has room    *)
(* for.                                                                    *)
THEOREM TypeCorrect == Spec => []TypeOK
<1>1. IInv => TypeOK
  <2> SUFFICES ASSUME IInv PROVE TypeOK
    OBVIOUS
  <2>1. /\ turn \in Contexts /\ drained \in BOOLEAN
        /\ api \in {"filling", "idle", "wait", "failed", "closing", "closed"}
    BY DEF IInv, Typed, APIs
  <2>2. \A c \in Contexts :
          /\ reference[c] \in Seq(Frames) /\ Len(reference[c]) <= NumRef
          /\ fref[c] \subseteq Frames
          /\ fdec[c] \in Frames \cup {NoFrame}
          /\ row[c] \in 0..Rows /\ at[c] \in {"wait", "code", "end"}
          /\ phase[c] \in {"free", "queued", "started", "computed", "finished"}
          /\ result[c] \in Results \cup {NoResult}
    BY DEF IInv, Typed, NoRepeats, Phases
  <2>3. /\ store.count \in [Frames -> Nat] /\ store.unused \subseteq Frames
        /\ store.made \in Frames
    BY DEF IInv, Typed, Stores
  <2>4. /\ kept \in [Frames -> BOOLEAN]
        /\ lines \in [Frames -> Int] /\ done \in [Frames -> 0..Rows]
        /\ queue \in Seq(Contexts) /\ open \in BOOLEAN
    BY DEF IInv, Typed
  <2> QED BY <2>1, <2>2, <2>3, <2>4 DEF TypeOK
<1> QED BY <1>1, FrameThreadsInvariant, PTL

(* FramesAccounted: what x264_frame_push_unused, x264_frame_pop_unused and *)
(* the copies of x264_thread_sync_context leave in i_reference_count is    *)
(* what the contexts hold; nothing is lost and nothing freed twice.        *)
THEOREM Accounted == Spec => []FramesAccounted
<1>1. IInv => FramesAccounted
  <2> SUFFICES ASSUME IInv PROVE FramesAccounted
    OBVIOUS
  <2>1. /\ Typed /\ NoRepeats /\ ApiOK /\ CountsOK
        /\ reference \in [Contexts -> Seq(Frames)]
    BY DEF IInv, Typed
  <2>2. ASSUME NEW f \in Frames PROVE store.count[f] = Holds(f)
    <3> DEFINE A == {c \in Contexts : fdec[c] = f}
               B == {c \in Contexts : f \in ToSet(reference[c])}
    <3>1. InAll(reference, f) = Cardinality(B)
      <4>1. \A c \in Contexts : Distinct(reference[c]) /\ Len(reference[c]) <= NumRef + 1
        <5>1. \A c \in Contexts : Len(reference[c]) \in Nat
          BY <2>1
        <5>2. \A c \in Contexts : Distinct(reference[c]) /\ Len(reference[c]) <= NumRef
          BY <2>1 DEF NoRepeats
        <5> QED BY <5>1, <5>2, Params
      <4> QED BY <2>1, <4>1, InAllOnce
    <3>2. A \in SUBSET Contexts /\ B \in SUBSET Contexts
      OBVIOUS
    <3>3. A \cap B = {}
      BY <2>1 DEF NoRepeats
    <3>4. api # "closed" => A \cup B = Holders(Holdings, f)
      <4>1. \A c \in Contexts : f \in HeldBy(c) <=> c \in A \/ c \in B
        BY Params DEF HeldBy
      <4> QED BY <4>1, <2>1, HoldingsType DEF Holders
    <3>5. api = "closed" => A = {} /\ B = {}
      <4>1. f # NoFrame
        BY Params
      <4> QED BY <2>1, <4>1, Empty DEF ApiOK
    <3> HIDE DEF A, B
    <3>6. IsFiniteSet(A) /\ IsFiniteSet(B) /\ Cardinality(A) \in Nat /\ Cardinality(B) \in Nat
      BY <3>2, FiniteContexts
    <3>7. Cardinality(A \cup B) = Cardinality(A) + Cardinality(B)
      <4>1. Cardinality(A \cup B) = Cardinality(A) + Cardinality(B) - Cardinality(A \cap B)
        BY <3>6, FS_Union
      <4>2. Cardinality(A \cap B) = 0
        BY <3>3, FS_EmptySet
      <4> QED BY <3>6, <4>1, <4>2
    <3>8. Holds(f) = Cardinality(A) + Cardinality(B)
      BY <3>1 DEF Holds, A
    <3>9. CASE api = "closed"
      <4>1. Cardinality(A) = 0 /\ Cardinality(B) = 0
        BY <3>5, <3>9, FS_EmptySet
      <4>2. store.count[f] = 0
        BY <2>1, <3>9 DEF CountsOK
      <4> QED BY <3>8, <4>1, <4>2
    <3>10. CASE api # "closed"
      BY <2>1, <3>4, <3>7, <3>8, <3>10 DEF CountsOK, Accounts
    <3> QED BY <3>9, <3>10
  <2>3. ASSUME api # "closed" PROVE store.unused = {f \in 1..store.made : store.count[f] = 0}
    <3>1. /\ store \in Stores
          /\ \A f \in Frames : store.count[f] = Cardinality(Holders(Holdings, f))
          /\ \A f \in Frames : f \in store.unused <=> f <= store.made /\ Holders(Holdings, f) = {}
      BY <2>1, <2>3 DEF CountsOK, Accounts
    <3>2. \A f \in Frames : store.count[f] = 0 <=> Holders(Holdings, f) = {}
      BY <2>1, <3>1, HoldingsType, HoldersFacts
    <3>3. store.made \in Frames /\ store.unused \subseteq Frames
      BY <3>1 DEF Stores
    <3>4. \A f : f \in 1..store.made <=> f \in Frames /\ f <= store.made
      BY <3>3, Params
    <3> QED BY <3>1, <3>2, <3>3, <3>4
  <2>4. Cardinality(store.unused) < N + NumRef + 4
    <3>1. store.unused \in SUBSET Frames
      BY <2>1 DEF Typed, Stores
    <3>2. Frames = 1..(N + NumRef + 3) /\ N \in Nat /\ NumRef \in Nat
      BY Params
    <3> DEFINE n == N + NumRef + 3
    <3>3. IsFiniteSet(1..n) /\ Cardinality(1..n) = n
      <4>1. n \in Nat /\ n > 0 /\ n \in Int /\ 1 \in Int
        BY <3>2
      <4> HIDE DEF n
      <4>2. IsFiniteSet(1..n) /\ Cardinality(1..n) = IF 1 > n THEN 0 ELSE n - 1 + 1
        BY <4>1, FS_Interval
      <4> QED BY <4>1, <4>2
    <3>4. /\ IsFiniteSet(store.unused)
          /\ Cardinality(store.unused) <= Cardinality(Frames)
      BY <3>1, <3>2, <3>3, FS_Subset
    <3>5. Cardinality(store.unused) \in Nat
      BY <3>4, FS_CardinalityType
    <3> QED BY <3>2, <3>3, <3>4, <3>5
  <2> QED BY <2>2, <2>3, <2>4 DEF FramesAccounted
<1> QED BY <1>1, FrameThreadsInvariant, PTL

(* NoRecycledInUse: a picture in work keeps the frame it goes to and those *)
(* it refers to, and only refers to earlier pictures.                      *)
THEOREM NotRecycled == Spec => []NoRecycledInUse
<1>1. IInv => NoRecycledInUse
  <2> SUFFICES ASSUME IInv, NEW c \in Contexts, Busy(c)
               PROVE  /\ ({fdec[c]} \cup fref[c]) \cap store.unused = {}
                      /\ \A d \in Contexts \ {c} : Busy(d) =>
                           /\ fdec[d] # fdec[c]
                           /\ fdec[d] \in fref[c] => Age(d) > Age(c)
    BY DEF NoRecycledInUse
  <2>1. /\ Typed /\ ApiOK /\ WorkOK /\ Accounts(store, Holdings)
        /\ fdec[c] # NoFrame
    BY DEF IInv, ApiOK, Busy, CountsOK
  <2>2. {fdec[c]} \cup fref[c] \subseteq HeldBy(c)
    BY <2>1 DEF WorkOK, Working, Busy, HeldBy
  <2>3. \A f \in HeldBy(c) : c \in Holders(Holdings, f) /\ f \in Frames
    BY <2>1, HoldingsType DEF Holders
  <2>4. \A f \in Frames : f \in store.unused => Holders(Holdings, f) = {}
    BY <2>1 DEF Accounts
  <2>5. ({fdec[c]} \cup fref[c]) \cap store.unused = {}
    BY <2>2, <2>3, <2>4
  <2> QED BY <2>1, <2>5 DEF WorkOK
<1> QED BY <1>1, FrameThreadsInvariant, PTL

(* ReadsOnlyWritten: x264_frame_cond_wait lets a row be encoded only when  *)
(* the rows it may refer to are those of the reference's present picture.  *)
THEOREM OnlyWritten == Spec => []ReadsOnlyWritten
<1>1. IInv => ReadsOnlyWritten
  BY DEF IInv, RowsOK
<1> QED BY <1>1, FrameThreadsInvariant, PTL
=============================================================================
