------------------------- MODULE SliceThreadsProofs -------------------------
(***************************************************************************)
(* PassesOfThisPicture and FailureStops for any number of slices.          *)
(*                                                                         *)
(* The inductive invariant says when the marks of a slice are those of the *)
(* picture that is being encoded: a slice that has still to be coded has   *)
(* none (FreshOK), each pass that was told was done (MarksOK), and a slice *)
(* that failed is known to the pool or to the client (FailuresOK).         *)
(***************************************************************************)
EXTENDS SliceThreads, WellFoundedInduction, FiniteSetTheorems, TLAPS

ApiAt == {"idle", "encode", "setup", "dispatch", "wait", "merge", "dump", "failed", "close",
          "delete", "join", "closed"}

TypeOK ==
  /\ dump \in BOOLEAN /\ api \in ApiAt
  /\ pass \in [Slices -> 0..2]
  /\ at \in [Slices -> {"code", "filter", "neighbour", "border", "end"}]
  /\ outcome \in [Slices -> {"none", "coded", "failed"}]
  /\ filtered \in [Slices -> BOOLEAN]
  /\ phase \in [Slices -> {"free", "queued", "started", "computed", "finished"}]
  /\ queue \in Seq(Slices)
  /\ result \in [Slices -> {0, -1, 1}]

(* Each queued slice is in the queue once, and none else.                  *)
QueueOK ==
  /\ \A k \in 1..Len(queue) : phase[queue[k]] = "queued"
  /\ \A k, l \in 1..Len(queue) : queue[k] = queue[l] => k = l

(* The contexts are set up while no slice is active; the last slice is the *)
(* last one to be given to the pool.                                       *)
SetupOK ==
  /\ api = "setup" => Active = {}
  /\ api = "dispatch" => phase[NSlices - 1] = "free"

ToCode(i) ==
  \/ phase[i] = "queued"
  \/ phase[i] = "started" /\ at[i] = "code"
  \/ phase[i] = "free" /\ api = "dispatch"

FreshOK ==
  \A i \in Slices : ToCode(i) =>
    at[i] = "code" /\ pass[i] = 0 /\ outcome[i] = "none" /\ ~filtered[i]

Through(i) == filtered[i] \/ outcome[i] = "failed"

MarksOK ==
  /\ \A i \in Slices :
       /\ pass[i] >= 1 => outcome[i] # "none"
       /\ pass[i] >= 2 => Through(i)
       /\ phase[i] = "started" =>
            /\ at[i] # "code" => outcome[i] # "none"
            /\ at[i] \in {"neighbour", "border", "end"} => filtered[i]
            /\ at[i] \in {"neighbour", "border"} => i > 0
            /\ at[i] = "border" => Through(i - 1)
  /\ api = "merge" => \A i \in Slices : outcome[i] # "none"

(* A failure that is not dropped by the dump of the picture.               *)
Reported == api \in {"failed", "close", "delete", "join", "closed"}

FailuresOK ==
  ~dump => /\ api # "dump"
           /\ \A i \in Slices : outcome[i] = "failed" =>
                \/ phase[i] \in {"computed", "finished"} /\ result[i] = -1
                \/ Reported

IInv == TypeOK /\ QueueOK /\ SetupOK /\ FreshOK /\ MarksOK /\ FailuresOK

-----------------------------------------------------------------------------
(* First picks the slice of the smallest number.                           *)
LEMMA FirstOf ==
  ASSUME NEW S, S \subseteq Slices, S # {} PROVE First(S) \in S
<1>1. S \subseteq 0..(NSlices - 1) /\ NSlices - 1 \in Int
  BY SliceThreadsAssumption DEF Slices
<1>2. IsFiniteSet(S)
  <2>1. IsFiniteSet(0..(NSlices - 1))
    BY <1>1, FS_Interval
  <2> QED BY <1>1, <2>1, FS_Subset
<1>3. IsWellFoundedOn(StrictSubsetOrdering(S), SUBSET S)
  BY <1>2, FS_StrictSubsetOrderingWellFounded, FS_FiniteSubsetsOfFinite
<1> DEFINE Below(i) == {j \in S : j < i}
           T        == {Below(i) : i \in S}
<1>4. \A i, j \in S : j < i => <<Below(j), Below(i)>> \in StrictSubsetOrdering(S)
  <2> SUFFICES ASSUME NEW i \in S, NEW j \in S, j < i
               PROVE  <<Below(j), Below(i)>> \in StrictSubsetOrdering(S)
    OBVIOUS
  <2>1. i \in Int /\ j \in Int /\ \A k \in S : k \in Int
    BY <1>1
  <2>2. Below(j) \subseteq Below(i)
    <3> SUFFICES ASSUME NEW k \in S, k < j PROVE k < i
      OBVIOUS
    <3> QED BY <2>1
  <2>3. j \in Below(i) /\ j \notin Below(j)
    BY <2>1
  <2>4. Below(j) \in SUBSET S /\ Below(i) \in SUBSET S
    OBVIOUS
  <2> HIDE DEF Below
  <2> QED BY <2>2, <2>3, <2>4 DEF StrictSubsetOrdering
<1>5. T \subseteq SUBSET S /\ T # {}
  OBVIOUS
<1> HIDE DEF Below
<1>6. \A x \in T : \E i \in S : x = Below(i)
  OBVIOUS
<1>7. \A i \in S : Below(i) \in T
  OBVIOUS
<1> HIDE DEF T
<1>8. PICK x \in T : \A y \in T : <<y, x>> \notin StrictSubsetOrdering(S)
  BY <1>3, <1>5, WFMin
<1>9. PICK i \in S : x = Below(i)
  BY <1>6
<1>10. \A j \in S : ~(j < i)
  BY <1>4, <1>7, <1>8, <1>9
<1>11. \A j \in S : i <= j
  BY <1>1, <1>10
<1> QED BY <1>11 DEF First

LEMMA LastSlice == NSlices - 1 \in Slices
BY SliceThreadsAssumption DEF Slices

LEMMA SliceAbove == \A i \in Slices : i > 0 => i - 1 \in Slices
BY SliceThreadsAssumption DEF Slices

LEMMA InitIInv == Init => IInv
<1> SUFFICES ASSUME Init PROVE IInv
  OBVIOUS
<1> USE DEF Init, Pool!Init
<1>1. TypeOK /\ QueueOK /\ SetupOK
  BY DEF TypeOK, ApiAt, QueueOK, SetupOK
<1>2. FreshOK /\ MarksOK /\ FailuresOK
  BY DEF FreshOK, ToCode, MarksOK, FailuresOK
<1> QED BY <1>1, <1>2 DEF IInv

-----------------------------------------------------------------------------
(* The API thread.                                                         *)

(* It goes on and leaves the slices alone.                                 *)
LEMMA ApiGoesOn ==
  ASSUME IInv, UNCHANGED <<dump, sliceVars, phase, queue, result>>,
         api' \in ApiAt \ {"dispatch"},
         api' = "setup" => Active = {},
         api' = "merge" => \A i \in Slices : outcome[i] # "none",
         api' = "dump" => dump,
         Reported => Reported'
  PROVE  IInv'
<1> USE DEF IInv, sliceVars
<1>1. TypeOK' /\ QueueOK' /\ SetupOK'
  BY DEF TypeOK, QueueOK, SetupOK, Active
<1>2. FreshOK' /\ MarksOK' /\ FailuresOK'
  BY DEF FreshOK, ToCode, MarksOK, Through, FailuresOK
<1> QED BY <1>1, <1>2

LEMMA CallIInv ==
  ASSUME IInv, EncodeCall \/ CloseCall \/ Delete \/ Join PROVE IInv'
<1> USE DEF Goto, ApiAt, Reported, poolVars
<1>1. CASE EncodeCall
  BY <1>1, ApiGoesOn DEF EncodeCall
<1>2. CASE CloseCall
  BY <1>2, ApiGoesOn DEF CloseCall
<1>3. CASE Delete
  BY <1>3, ApiGoesOn DEF Delete, Pool!Shutdown
<1>4. CASE Join
  BY <1>4, ApiGoesOn DEF Join
<1> QED BY <1>1, <1>2, <1>3, <1>4

LEMMA PictureIInv ==
  ASSUME IInv, WaitPasses \/ Merge \/ WaitedAll PROVE IInv'
<1> USE DEF Goto, ApiAt, Reported, poolVars
<1>1. CASE WaitPasses
  <2>1. \A i \in Slices : outcome[i] # "none"
    BY <1>1 DEF WaitPasses, IInv, MarksOK
  <2> QED BY <1>1, <2>1, ApiGoesOn DEF WaitPasses
<1>2. CASE Merge
  BY <1>2, ApiGoesOn DEF Merge
<1>3. CASE WaitedAll
  BY <1>3, ApiGoesOn DEF WaitedAll, Waiting, AllCollected
<1> QED BY <1>1, <1>2, <1>3

(* A result that is not 0 is reported, unless it is dropped.               *)
LEMMA WaitSliceIInv ==
  ASSUME IInv, WaitSlice PROVE IInv'
<1> USE DEF IInv
<1>1. PICK i : i = First(Active)
  OBVIOUS
<1>2. i \in Slices
  BY <1>1, FirstOf DEF WaitSlice, Active
<1>3. /\ Waiting /\ phase[i] = "finished"
      /\ phase' = [phase EXCEPT ![i] = "free"]
      /\ result' = [result EXCEPT ![i] = 1]
      /\ api' = IF result[i] = 0 THEN api ELSE OneFailed(api)
      /\ UNCHANGED <<queue, dump, pass, at, outcome, filtered>>
  BY <1>1 DEF WaitSlice, Pool!Collect, sliceVars
<1>4. /\ phase'[i] = "free"
      /\ \A j \in Slices \ {i} : phase'[j] = phase[j] /\ result'[j] = result[j]
      /\ api' \in ApiAt \ {"setup", "merge", "dispatch"}
  <2>1. api \in {"encode", "dump", "close"}
    BY <1>3 DEF Waiting
  <2> QED BY <1>2, <1>3, <2>1 DEF TypeOK, OneFailed, AllCollected, ApiAt
<1>5. TypeOK'
  BY <1>2, <1>3, <1>4 DEF TypeOK
<1>6. QueueOK' /\ SetupOK'
  BY <1>2, <1>3, <1>4 DEF QueueOK, SetupOK, TypeOK
<1>7. FreshOK' /\ MarksOK'
  BY <1>2, <1>3, <1>4 DEF FreshOK, ToCode, MarksOK, Through, Waiting
<1>8. FailuresOK'
  <2>1. ~dump => api' # "dump"
    BY <1>3 DEF FailuresOK, Waiting, OneFailed, AllCollected
  <2>2. Reported => Reported'
    BY <1>3 DEF Reported, Waiting, OneFailed, AllCollected
  <2>3. ~dump /\ result[i] = -1 => Reported'
    BY <1>3 DEF Reported, Waiting, OneFailed, AllCollected, FailuresOK
  <2> QED BY <1>3, <1>4, <2>1, <2>2, <2>3 DEF FailuresOK
<1> QED BY <1>5, <1>6, <1>7, <1>8

LEMMA SetupIInv ==
  ASSUME IInv, Setup PROVE IInv'
<1> USE DEF IInv
<1>1. /\ api = "setup" /\ api' = "dispatch"
      /\ pass' = [i \in Slices |-> 0] /\ at' = [i \in Slices |-> "code"]
      /\ outcome' = [i \in Slices |-> "none"] /\ filtered' = [i \in Slices |-> FALSE]
      /\ UNCHANGED <<dump, phase, queue, result>>
  BY DEF Setup, Goto, NoPass, poolVars
<1>2. \A i \in Slices : phase[i] = "free"
  BY <1>1 DEF SetupOK, Active
<1>3. TypeOK' /\ QueueOK' /\ SetupOK'
  BY <1>1, <1>2, LastSlice DEF TypeOK, ApiAt, QueueOK, SetupOK
<1>4. FreshOK' /\ MarksOK' /\ FailuresOK'
  BY <1>1, <1>2 DEF FreshOK, MarksOK, FailuresOK
<1> QED BY <1>3, <1>4

LEMMA DispatchIInv ==
  ASSUME IInv, Dispatch PROVE IInv'
<1> USE DEF IInv
<1>1. PICK i : i = First(Slices \ Active)
  OBVIOUS
<1>2. /\ api = "dispatch" /\ api' \in {"dispatch", "wait"}
      /\ phase[i] = "free" /\ phase' = [phase EXCEPT ![i] = "queued"]
      /\ queue' = Append(queue, i)
      /\ UNCHANGED <<dump, pass, at, outcome, filtered, result>>
  BY <1>1 DEF Dispatch, Goto, Pool!Submit, sliceVars
<1>3. i \in Slices
  <2>1. NSlices - 1 \in Slices \ Active
    BY <1>2, LastSlice DEF SetupOK, Active
  <2> QED BY <1>1, <2>1, FirstOf
<1>4. /\ phase'[i] = "queued" /\ \A j \in Slices \ {i} : phase'[j] = phase[j]
      /\ \A k \in 1..Len(queue) : queue[k] # i
  BY <1>2, <1>3 DEF TypeOK, QueueOK
<1>5. TypeOK'
  BY <1>2, <1>3 DEF TypeOK, ApiAt
<1>6. QueueOK'
  <2>1. /\ Len(queue') = Len(queue) + 1 /\ queue'[Len(queue) + 1] = i /\ Len(queue) \in Nat
        /\ \A k \in 1..Len(queue) : queue'[k] = queue[k] /\ queue[k] \in Slices
    BY <1>2, <1>3 DEF TypeOK
  <2> QED BY <1>4, <2>1 DEF QueueOK
<1>7. SetupOK'
  <2>1. api' = "dispatch" => i # NSlices - 1
    BY <1>1 DEF Dispatch, Goto
  <2> QED BY <1>2, <1>4, <2>1, LastSlice DEF SetupOK
<1>8. FreshOK' /\ MarksOK' /\ FailuresOK'
  BY <1>2, <1>3, <1>4 DEF FreshOK, ToCode, MarksOK, Through, FailuresOK, Reported
<1> QED BY <1>5, <1>6, <1>7, <1>8

-----------------------------------------------------------------------------
(* The threads.                                                            *)
LEMMA StartIInv ==
  ASSUME IInv, NEW i \in Slices, Start(i) PROVE IInv'
<1> USE DEF IInv
<1>1. /\ queue # <<>> /\ i = Head(queue) /\ queue' = Tail(queue)
      /\ phase' = [phase EXCEPT ![i] = "started"]
      /\ UNCHANGED <<dump, api, pass, at, outcome, filtered, result>>
  BY DEF Start, Pool!Start, sliceVars
<1>2. /\ Len(queue) \in Nat \ {0} /\ queue[1] = i
      /\ Len(queue') = Len(queue) - 1 /\ queue' \in Seq(Slices)
      /\ \A k \in 1..Len(queue') : queue'[k] = queue[k + 1] /\ k + 1 \in 1..Len(queue)
  BY <1>1 DEF TypeOK
<1>3. /\ phase[i] = "queued" /\ phase'[i] = "started"
      /\ \A j \in Slices \ {i} : phase'[j] = phase[j]
  BY <1>1, <1>2 DEF TypeOK, QueueOK
<1>4. TypeOK'
  BY <1>1, <1>2 DEF TypeOK
<1>5. QueueOK'
  <2>1. \A k \in 1..Len(queue') : queue'[k] # i /\ queue'[k] \in Slices
    BY <1>2 DEF QueueOK
  <2> QED BY <1>2, <1>3, <2>1 DEF QueueOK
<1>6. SetupOK'
  BY <1>1, <1>3, LastSlice DEF SetupOK, Active
<1>7. at[i] = "code" /\ pass[i] = 0 /\ outcome[i] = "none" /\ ~filtered[i]
  BY <1>3 DEF FreshOK, ToCode
<1>8. FreshOK' /\ MarksOK' /\ FailuresOK'
  BY <1>1, <1>3, <1>7 DEF FreshOK, ToCode, MarksOK, Through, FailuresOK, Reported
<1> QED BY <1>4, <1>5, <1>6, <1>8

(* A slice that is started makes a pass: the pool stays as it is.          *)
LEMMA PoolStays ==
  ASSUME IInv, UNCHANGED <<dump, api, poolVars>>
  PROVE  QueueOK' /\ SetupOK'
BY DEF IInv, QueueOK, SetupOK, Active, poolVars

(* No slice is filtered at its border while the one above is to be coded.  *)
LEMMA CodeIInv ==
  ASSUME IInv, NEW i \in Slices, Code(i) PROVE IInv'
<1> USE DEF IInv
<1>1. /\ phase[i] = "started" /\ at[i] = "code" /\ at' = [at EXCEPT ![i] = "filter"]
      /\ outcome' = [outcome EXCEPT ![i] = "coded"] /\ pass' = [pass EXCEPT ![i] = 1]
      /\ UNCHANGED <<dump, api, filtered, poolVars>>
  BY DEF Code, Moves, Broadcast
<1>2. UNCHANGED <<phase, queue, result>>
  BY <1>1 DEF poolVars
<1>3. /\ pass[i] = 0 /\ outcome[i] = "none" /\ ~filtered[i]
      /\ at'[i] = "filter" /\ outcome'[i] = "coded" /\ pass'[i] = 1
      /\ \A j \in Slices \ {i} : at'[j] = at[j] /\ outcome'[j] = outcome[j] /\ pass'[j] = pass[j]
  BY <1>1 DEF FreshOK, ToCode, TypeOK
<1>4. TypeOK' /\ QueueOK' /\ SetupOK'
  BY <1>1, <1>2, PoolStays DEF TypeOK
<1>5. FreshOK'
  BY <1>1, <1>2, <1>3 DEF FreshOK, ToCode
<1>6. \A j \in Slices : Through(j) => Through(j)'
  BY <1>1, <1>3 DEF Through
<1>7. MarksOK'
  <2>1. \A j \in Slices : phase'[j] = "started" /\ at'[j] = "border" => Through(j - 1)'
    BY <1>2, <1>3, <1>6, SliceAbove DEF MarksOK
  <2> QED BY <1>1, <1>2, <1>3, <1>6, <2>1 DEF MarksOK
<1>8. FailuresOK'
  BY <1>1, <1>2, <1>3 DEF FailuresOK, Reported
<1> QED BY <1>4, <1>5, <1>7, <1>8

LEMMA FilterIInv ==
  ASSUME IInv, NEW i \in Slices, Filter(i) PROVE IInv'
<1> USE DEF IInv
<1> DEFINE to == IF i = 0 THEN "end" ELSE "neighbour"
<1>1. /\ phase[i] = "started" /\ at[i] = "filter" /\ at' = [at EXCEPT ![i] = to]
      /\ filtered' = [filtered EXCEPT ![i] = TRUE] /\ pass' = [pass EXCEPT ![i] = 2]
      /\ UNCHANGED <<dump, api, outcome, poolVars>>
  BY DEF Filter, Moves, Broadcast
<1>2. UNCHANGED <<phase, queue, result>>
  BY <1>1 DEF poolVars
<1>3. /\ at'[i] = to /\ filtered'[i] /\ pass'[i] = 2 /\ outcome[i] # "none"
      /\ \A j \in Slices \ {i} :
            at'[j] = at[j] /\ filtered'[j] = filtered[j] /\ pass'[j] = pass[j]
  BY <1>1 DEF MarksOK, TypeOK
<1>4. TypeOK' /\ QueueOK' /\ SetupOK'
  BY <1>1, <1>2, PoolStays DEF TypeOK
<1>5. FreshOK'
  BY <1>1, <1>2, <1>3 DEF FreshOK, ToCode
<1>6. \A j \in Slices : Through(j) => Through(j)'
  BY <1>1, <1>3 DEF Through
<1>7. MarksOK'
  <2>1. \A j \in Slices : phase'[j] = "started" /\ at'[j] = "border" => Through(j - 1)'
    BY <1>2, <1>3, <1>6, SliceAbove DEF MarksOK
  <2>2. Through(i)' /\ (to = "neighbour" => i > 0)
    BY <1>3, SliceThreadsAssumption DEF Through, Slices
  <2> QED BY <1>1, <1>2, <1>3, <1>6, <2>1, <2>2 DEF MarksOK
<1>8. FailuresOK'
  BY <1>1, <1>2 DEF FailuresOK, Reported
<1> QED BY <1>4, <1>5, <1>7, <1>8

(* Pass 2 of the slice above was told: it is filtered, or failed.          *)
LEMMA BorderIInv ==
  ASSUME IInv, NEW i \in Slices, WaitNeighbour(i) \/ FilterBorder(i) PROVE IInv'
<1> USE DEF IInv
<1> DEFINE to == IF at[i] = "border" THEN "end" ELSE "border"
<1>1. /\ phase[i] = "started" /\ at[i] \in {"neighbour", "border"} /\ at' = [at EXCEPT ![i] = to]
      /\ to = "border" => pass[i - 1] >= 2
      /\ UNCHANGED <<dump, api, pass, outcome, filtered, poolVars>>
  BY DEF WaitNeighbour, FilterBorder, Moves, NeighbourDone
<1>2. UNCHANGED <<phase, queue, result>>
  BY <1>1 DEF poolVars
<1>3. at'[i] = to /\ \A j \in Slices \ {i} : at'[j] = at[j]
  BY <1>1 DEF TypeOK
<1>4. TypeOK' /\ QueueOK' /\ SetupOK'
  BY <1>1, <1>2, PoolStays DEF TypeOK
<1>5. FreshOK'
  BY <1>1, <1>2, <1>3 DEF FreshOK, ToCode
<1>6. MarksOK'
  <2>1. \A j \in Slices : Through(j)' <=> Through(j)
    BY <1>1 DEF Through
  <2>2. i > 0 /\ filtered[i] /\ (to = "border" => Through(i - 1))
    BY <1>1, SliceAbove DEF MarksOK
  <2>3. \A j \in Slices : phase'[j] = "started" /\ at'[j] = "border" => Through(j - 1)'
    BY <1>2, <1>3, <2>1, <2>2, SliceAbove DEF MarksOK
  <2> QED BY <1>1, <1>2, <1>3, <2>1, <2>2, <2>3 DEF MarksOK
<1>7. FailuresOK'
  BY <1>1, <1>2 DEF FailuresOK, Reported
<1> QED BY <1>4, <1>5, <1>6, <1>7

(* A slice ends, or fails and tells those that wait for it.                *)
LEMMA ReturnIInv ==
  ASSUME IInv, NEW i \in Slices, End(i) \/ Fail(i) PROVE IInv'
<1> USE DEF IInv
<1>1. /\ phase[i] = "started" /\ phase' = [phase EXCEPT ![i] = "computed"]
      /\ \E r \in {0, -1} : result' = [result EXCEPT ![i] = r]
      /\ UNCHANGED <<dump, api, at, filtered, queue>>
  BY DEF End, Fail, Returns, Pool!Compute, sliceVars
<1>2. /\ phase'[i] = "computed"
      /\ \A j \in Slices \ {i} : phase'[j] = phase[j] /\ result'[j] = result[j]
  BY <1>1 DEF TypeOK
<1>3. \/ /\ at[i] = "end" /\ UNCHANGED <<pass, outcome>>
      \/ /\ at[i] = "code" /\ result'[i] = -1
         /\ pass' = [pass EXCEPT ![i] = 2] /\ outcome' = [outcome EXCEPT ![i] = "failed"]
  BY DEF End, Fail, Returns, TellDone, Broadcast, sliceVars
<1>4. /\ \A j \in Slices \ {i} : pass'[j] = pass[j] /\ outcome'[j] = outcome[j]
      /\ pass'[i] >= 1 => outcome'[i] # "none"
      /\ pass'[i] >= 2 => Through(i)'
      /\ at[i] = "code" => Through(i)' /\ outcome'[i] = "failed"
  BY <1>1, <1>3 DEF MarksOK, TypeOK, Through
<1>5. TypeOK'
  BY <1>1, <1>3 DEF TypeOK
<1>6. QueueOK' /\ SetupOK'
  BY <1>1, <1>2, LastSlice DEF QueueOK, SetupOK, Active, TypeOK
<1>7. FreshOK'
  BY <1>1, <1>2, <1>4 DEF FreshOK, ToCode
<1>8. MarksOK'
  <2>1. \A j \in Slices : Through(j) => Through(j)'
    BY <1>1, <1>3, <1>4 DEF Through
  <2>2. \A j \in Slices : phase'[j] = "started" /\ at'[j] = "border" => Through(j - 1)'
    BY <1>1, <1>2, <2>1, SliceAbove DEF MarksOK
  <2>3. api' = "merge" => \A j \in Slices : outcome'[j] # "none"
    BY <1>1, <1>3, <1>4 DEF MarksOK
  <2> QED BY <1>1, <1>2, <1>4, <2>1, <2>2, <2>3 DEF MarksOK
<1>9. FailuresOK'
  <2>1. outcome'[i] = "failed" /\ ~dump => result'[i] = -1 \/ Reported
    BY <1>1, <1>3 DEF FailuresOK, TypeOK
  <2> QED BY <1>1, <1>2, <1>4, <2>1 DEF FailuresOK, Reported
<1> QED BY <1>5, <1>6, <1>7, <1>8, <1>9

LEMMA FinishIInv ==
  ASSUME IInv, NEW i \in Slices, Finish(i) PROVE IInv'
<1> USE DEF IInv
<1>1. /\ phase[i] = "computed" /\ phase' = [phase EXCEPT ![i] = "finished"]
      /\ UNCHANGED <<dump, api, pass, at, outcome, filtered, queue, result>>
  BY DEF Finish, Pool!Finish, sliceVars
<1>2. phase'[i] = "finished" /\ \A j \in Slices \ {i} : phase'[j] = phase[j]
  BY <1>1 DEF TypeOK
<1>3. TypeOK' /\ QueueOK' /\ SetupOK'
  BY <1>1, <1>2, LastSlice DEF TypeOK, QueueOK, SetupOK, Active
<1>4. FreshOK' /\ MarksOK' /\ FailuresOK'
  BY <1>1, <1>2 DEF FreshOK, ToCode, MarksOK, Through, FailuresOK, Reported
<1> QED BY <1>3, <1>4

LEMMA StutterIInv == IInv /\ UNCHANGED vars => IInv'
BY DEF vars, sliceVars, poolVars, IInv, TypeOK, QueueOK, SetupOK, Active, FreshOK, ToCode, MarksOK,
       Through, FailuresOK, Reported

LEMMA NextIInv == IInv /\ [Next]_vars => IInv'
BY CallIInv, PictureIInv, WaitSliceIInv, SetupIInv, DispatchIInv, StartIInv, CodeIInv, FilterIInv,
   BorderIInv, ReturnIInv, FinishIInv, StutterIInv
   DEF Next, ApiStep, Thread, Terminated

(* The inductive invariant holds in every interleaving of the API thread   *)
(* with the slice threads, for every number of slices.                     *)
THEOREM SliceInvariant == Spec => []IInv
BY InitIInv, NextIInv, PTL DEF Spec

-----------------------------------------------------------------------------
(* What x264_threadslice_cond_wait waits for is a pass of this picture:    *)
(* deblocking and hpel of the rows between two slices, and the NAL units   *)
(* x264_threaded_slices_write gives back.                                  *)
THEOREM PassesCurrent == Spec => []PassesOfThisPicture
<1>1. IInv => PassesOfThisPicture
  BY SliceAbove DEF IInv, TypeOK, MarksOK, Through, PassesOfThisPicture
<1> QED BY <1>1, SliceInvariant, PTL

(* Unless pictures are dumped, no picture is set up after one of which a   *)
(* slice failed: x264_threadpool_wait_all reports it to                    *)
(* x264_encoder_encode, and the client closes.                             *)
THEOREM FailureEndsEncoding == Spec => FailureStops
<1>1. IInv /\ ~dump /\ Setup => \A i \in Slices : outcome[i] # "failed"
  BY DEF IInv, SetupOK, Active, FailuresOK, Reported, Setup, Goto
<1>2. IInv /\ [Next]_vars => [~dump /\ Setup => \A i \in Slices : outcome[i] # "failed"]_vars
  BY <1>1
<1> QED BY <1>2, SliceInvariant, PTL DEF Spec, FailureStops
=============================================================================
