-------------------------- MODULE ThreadPoolProofs --------------------------
(***************************************************************************)
(* Theorems about ThreadPool, for any number of threads and arguments.     *)
(*                                                                         *)
(* The inductive invariant adds to the properties what they rest on: at    *)
(* which steps a thread holds a job (HolderPC) or sleeps (SleepPC), what   *)
(* the client's current call may assume (CallOK), that the jobs in flight  *)
(* carry different arguments, each outstanding (ArgsDistinct), and that a  *)
(* job past its execution carries the result of its argument (ResultOK).   *)
(***************************************************************************)
EXTENDS ThreadPool, SequenceTheorems, FiniteSetTheorems, TLAPS

-----------------------------------------------------------------------------
(* The lists of common/frame.c, whose elements never repeat                *)

(* RemoveAt leaves the other elements in their order.                      *)
LEMMA RemoveAtFacts ==
  ASSUME NEW S, NEW s \in Seq(S), NEW i \in 1..Len(s)
  PROVE  /\ RemoveAt(s, i) \in Seq(S)
         /\ Len(RemoveAt(s, i)) = Len(s) - 1
         /\ \A k \in 1..(Len(s) - 1) :
               RemoveAt(s, i)[k] = IF k < i THEN s[k] ELSE s[k + 1]
<1> DEFINE a == SubSeq(s, 1, i - 1)
           b == SubSeq(s, i + 1, Len(s))
<1>1. a \in Seq(S) /\ Len(a) = i - 1 /\ \A k \in 1..(i - 1) : a[k] = s[k]
  OBVIOUS
<1>2. b \in Seq(S) /\ Len(b) = Len(s) - i /\ \A k \in 1..(Len(s) - i) : b[k] = s[k + i]
  OBVIOUS
<1> HIDE DEF a, b
<1>3. RemoveAt(s, i) = a \o b
  BY DEF RemoveAt, a, b
<1>4. a \o b \in Seq(S) /\ Len(a \o b) = Len(s) - 1
  <2>1. a \o b \in Seq(S)
    BY <1>1, <1>2
  <2>2. Len(a \o b) = Len(a) + Len(b)
    BY <1>1, <1>2, ConcatProperties
  <2> QED BY <1>1, <1>2, <2>1, <2>2
<1>5. ASSUME NEW k \in 1..(Len(s) - 1)
      PROVE  (a \o b)[k] = IF k < i THEN s[k] ELSE s[k + 1]
  <2>1. CASE k < i
    BY <1>1, <1>2, <2>1
  <2>2. CASE ~(k < i)
    <3>1. (a \o b)[k] = b[k - (i - 1)]
      BY <1>1, <1>2, <2>2
    <3>2. b[k - (i - 1)] = s[k - (i - 1) + i]
      BY <1>2, <2>2
    <3> QED BY <3>1, <3>2, <2>2
  <2> QED BY <2>1, <2>2
<1> QED BY <1>3, <1>4, <1>5

(* What is left of a sequence without repetitions: all but the removed     *)
(* element, and still no repetition.                                       *)
LEMMA RemoveAtElements ==
  ASSUME NEW S, NEW s \in Seq(S), NEW i \in 1..Len(s),
         \A m, n \in 1..Len(s) : s[m] = s[n] => m = n
  PROVE  LET r == RemoveAt(s, i)
         IN  /\ \A m, n \in 1..Len(r) : r[m] = r[n] => m = n
             /\ \A x : (\E n \in 1..Len(r) : r[n] = x)
                       <=> (\E n \in 1..Len(s) : s[n] = x) /\ x # s[i]
<1> DEFINE r == RemoveAt(s, i)
<1>1. /\ r \in Seq(S) /\ Len(r) = Len(s) - 1 
      /\ \A k \in 1..(Len(s) - 1) : r[k] = IF k < i THEN s[k] ELSE s[k + 1]
  BY RemoveAtFacts
<1> HIDE DEF r
<1>2. ASSUME NEW m \in 1..Len(r), NEW n \in 1..Len(r), r[m] = r[n]
      PROVE  m = n
  <2> DEFINE old(k) == IF k < i THEN k ELSE k + 1
  <2>1. Len(r) = Len(s) - 1 /\ Len(s) \in Nat /\ i \in 1..Len(s)
    BY <1>1
  <2>2. old(m) \in 1..Len(s) /\ old(n) \in 1..Len(s)
    BY <2>1
  <2>3. r[m] = s[old(m)] /\ r[n] = s[old(n)]
    BY <1>1, <2>1
  <2>4. old(m) = old(n)
    BY <1>2, <2>2, <2>3
  <2> QED BY <2>1, <2>4
<1>3. ASSUME NEW x, NEW n \in 1..Len(r), r[n] = x
      PROVE  (\E m \in 1..Len(s) : s[m] = x) /\ x # s[i]
  <2> DEFINE old == IF n < i THEN n ELSE n + 1
  <2>1. Len(r) = Len(s) - 1 /\ Len(s) \in Nat /\ i \in 1..Len(s)
    BY <1>1
  <2>2. old \in 1..Len(s) /\ old # i
    BY <2>1
  <2>3. x = s[old]
    BY <1>1, <1>3, <2>1
  <2> QED BY <2>2, <2>3
<1>4. ASSUME NEW x, NEW n \in 1..Len(s), s[n] = x, x # s[i]
      PROVE  \E m \in 1..Len(r) : r[m] = x
  <2>1. CASE n < i
    <3>1. n \in 1..Len(r) /\ r[n] = x
      BY <1>1, <1>4, <2>1
    <3> QED BY <3>1
  <2>2. CASE n > i
    <3>1. n - 1 \in 1..Len(r) /\ r[n - 1] = x
      BY <1>1, <1>4, <2>2
    <3> QED BY <3>1
  <2> QED BY <2>1, <2>2, <1>4
<1>5. \A x : (\E n \in 1..Len(r) : r[n] = x)
              <=> (\E n \in 1..Len(s) : s[n] = x) /\ x # s[i]
  BY <1>3, <1>4
<1> QED BY <1>2, <1>5 DEF r

(* The same for Append of an element that was not there.                   *)
LEMMA AppendElements ==
  ASSUME NEW S, NEW s \in Seq(S), NEW e \in S,
         \A m, n \in 1..Len(s) : s[m] = s[n] => m = n,
         \A n \in 1..Len(s) : s[n] # e
  PROVE  LET r == Append(s, e)
         IN  /\ r \in Seq(S)
             /\ \A m, n \in 1..Len(r) : r[m] = r[n] => m = n
             /\ \A x : (\E n \in 1..Len(r) : r[n] = x)
                       <=> (\E n \in 1..Len(s) : s[n] = x) \/ x = e
<1> DEFINE r == Append(s, e)
<1>1. /\ r \in Seq(S) /\ Len(r) = Len(s) + 1
      /\ \A k \in 1..Len(s) : r[k] = s[k]
      /\ r[Len(s) + 1] = e
  OBVIOUS
<1> HIDE DEF r
<1>2. \A m, n \in 1..Len(r) : r[m] = r[n] => m = n
  BY <1>1
<1>3. ASSUME NEW x
      PROVE  (\E n \in 1..Len(r) : r[n] = x)
              <=> (\E n \in 1..Len(s) : s[n] = x) \/ x = e
  BY <1>1
<1> QED BY <1>1, <1>2, <1>3 DEF r

HolderPC ==
  /\ \A w \in Workers :
        job[w] = NoJob <=> pc[w] \in {"top", "take", "signal", "exited"}
  /\ job[Client] = NoJob <=> pc[Client] \notin {"enqueue", "recycle"}

SleepPC ==
  /\ \A w \in Workers :
        waits[w] = Awake \/ (waits[w] = Fill("run") /\ pc[w] = "take")
  /\ waits[Client] = Awake \/ (waits[Client] = Fill("done") /\ pc[Client] = "scan")

CallOK ==
  /\ pc[Client] \in {"pop", "enqueue", "enqSignal"} => callArg \in active
  /\ pc[Client] \in {"scan", "recycle", "recSignal"} => callArg \in Args \ active
  /\ pc[Client] \in {"enqueue", "recycle"} => jarg[job[Client]] = callArg
  /\ pc[Client] = "closed" => \A w \in Workers : pc[w] = "exited"

(* The jobs that are not free, and the arguments they may carry.           *)
Live(j) == InList(j, "run") \/ InList(j, "done") \/ \E p \in Procs : Holds(p, j)

LiveArgs ==
  IF pc[Client] = "pop" THEN active \ {callArg}
  ELSE IF pc[Client] \in {"scan", "recycle"} THEN active \cup {callArg}
  ELSE active

ArgsDistinct ==
  /\ \A j \in Jobs : Live(j) => jarg[j] \in LiveArgs
  /\ \A j, k \in Jobs : Live(j) /\ Live(k) /\ jarg[j] = jarg[k] => j = k

Computed(j) ==
  \/ InList(j, "done")
  \/ \E w \in Workers : pc[w] = "push" /\ Holds(w, j)
  \/ pc[Client] = "recycle" /\ Holds(Client, j)

ResultOK ==
  /\ \A j \in Jobs : Computed(j) => jret[j] \in Results /\ jret[j] = outcome[jarg[j]]
  /\ WaitReturnsOwnResult

IInv == /\ TypeOK
        /\ JobsConserved
        /\ HolderPC
        /\ SleepPC
        /\ CallOK
        /\ ArgsDistinct
        /\ ResultOK
        /\ NoLostWakeup

-----------------------------------------------------------------------------
(* Effects of the two operations on lists.                                 *)

NoRepetition(s) == \A i, k \in 1..Len(s) : s[i] = s[k] => i = k

(* Taking the job at position i of list l moves it, and nothing else, from *)
(* the list to the thread.                                                 *)
LEMMA TakeEffect ==
  ASSUME TypeOK, JobsConserved, NEW p \in Procs, job[p] = NoJob,
         NEW l \in Lists, NEW i \in 1..Len(list[l]), TakeAt(p, l, i)
  PROVE  /\ list' \in [Lists -> Seq(Jobs)]
         /\ job' = [job EXCEPT ![p] = list[l][i]]
         /\ list[l][i] \in Jobs
         /\ InList(list[l][i], l)
         /\ \A x \in Jobs, m \in Lists :
               InList(x, m)' <=> InList(x, m) /\ ~(m = l /\ x = list[l][i])
         /\ \A x \in Jobs, q \in Procs :
               Holds(q, x)' <=> Holds(q, x) \/ (q = p /\ x = list[l][i])
         /\ \A m \in Lists : m # l => ~InList(list[l][i], m)
         /\ \A q \in Procs : ~Holds(q, list[l][i])
         /\ JobsConserved'
<1> DEFINE e == list[l][i]
<1>1. /\ list \in [Lists -> Seq(Jobs)] /\ list[l] \in Seq(Jobs) /\ e \in Jobs
      /\ job \in [Procs -> Jobs \cup {NoJob}]
  BY DEF TypeOK
<1>2. NoRepetition(list[l])
  BY DEF JobsConserved, NoRepetition
<1>3. /\ list' = [list EXCEPT ![l] = RemoveAt(list[l], i)]
      /\ job' = [job EXCEPT ![p] = e]
  BY DEF TakeAt
<1>4. RemoveAt(list[l], i) \in Seq(Jobs)
  BY <1>1, RemoveAtFacts
<1>5. list' \in [Lists -> Seq(Jobs)]
  BY <1>1, <1>3, <1>4
<1>6. /\ NoRepetition(RemoveAt(list[l], i))
      /\ \A x : (\E n \in 1..Len(RemoveAt(list[l], i)) : RemoveAt(list[l], i)[n] = x)
                <=> (\E n \in 1..Len(list[l]) : list[l][n] = x) /\ x # e
  BY <1>1, <1>2, RemoveAtElements DEF NoRepetition
<1>7. /\ list'[l] = RemoveAt(list[l], i)
      /\ \A m \in Lists : m # l => list'[m] = list[m]
  BY <1>1, <1>3
<1>8. ASSUME NEW x \in Jobs, NEW m \in Lists
      PROVE  InList(x, m)' <=> InList(x, m) /\ ~(m = l /\ x = e)
  BY <1>6, <1>7 DEF InList
<1>9. InList(e, l)
  BY DEF InList
<1>10. \A x \in Jobs, q \in Procs :
          Holds(q, x)' <=> (q = p /\ x = e) \/ (q # p /\ Holds(q, x))
  BY <1>1, <1>3 DEF Holds
<1>11. \A x \in Jobs : ~Holds(p, x)
  BY <1>1, PoolAssumption DEF Holds, Jobs
<1>12. /\ \A m \in Lists : m # l => ~InList(e, m)
       /\ \A q \in Procs : ~Holds(q, e)
  BY <1>1, <1>9 DEF JobsConserved
<1>13. JobsConserved'
  <2>1. ASSUME NEW m \in Lists PROVE NoRepetition(list'[m])
    <3>1. NoRepetition(list[m])
      BY DEF JobsConserved, NoRepetition
    <3> QED BY <1>6, <1>7, <3>1
  <2> QED
    <3>1. \A x \in Jobs : (\E m \in Lists : InList(x, m)) \/ (\E q \in Procs : Holds(q, x))
      BY DEF JobsConserved
    <3>2. \A x \in Jobs, m, n \in Lists : InList(x, m) /\ InList(x, n) => m = n
      BY DEF JobsConserved
    <3>3. \A x \in Jobs, m \in Lists, q \in Procs : ~(InList(x, m) /\ Holds(q, x))
      BY DEF JobsConserved
    <3>4. \A x \in Jobs, q, r \in Procs : Holds(q, x) /\ Holds(r, x) => q = r
      BY DEF JobsConserved
    <3>5. (\A x \in Jobs : (\E m \in Lists : InList(x, m)) \/ (\E q \in Procs : Holds(q, x)))'
      BY <3>1, <1>8, <1>10, <1>11
    <3>6. (\A m, n \in Lists : \A x \in Jobs : InList(x, m) /\ InList(x, n) => m = n)'
      BY <3>2, <1>8
    <3>7. (\A m \in Lists : \A q \in Procs : \A x \in Jobs : ~(InList(x, m) /\ Holds(q, x)))'
      BY <3>2, <3>3, <1>8, <1>9, <1>10
    <3>8. (\A q, r \in Procs : \A x \in Jobs : Holds(q, x) /\ Holds(r, x) => q = r)'
      BY <3>3, <3>4, <1>9, <1>10
    <3>9. (\A m \in Lists : \A a, b \in 1..Len(list[m]) : list[m][a] = list[m][b] => a = b)'
      BY <2>1 DEF NoRepetition
    <3> QED BY <3>5, <3>6, <3>7, <3>8, <3>9 DEF JobsConserved
<1> QED BY <1>1, <1>3, <1>5, <1>8, <1>9, <1>10, <1>11, <1>12, <1>13

(* Pushing moves the job, and nothing else, from the thread to the list.   *)
LEMMA PushEffect ==
  ASSUME TypeOK, JobsConserved, NEW p \in Procs, job[p] \in Jobs, NEW l \in Lists,
         list' = [list EXCEPT ![l] = Append(@, job[p])],
         job' = [job EXCEPT ![p] = NoJob]
  PROVE  /\ list' \in [Lists -> Seq(Jobs)]
         /\ \A x \in Jobs, m \in Lists :
               InList(x, m)' <=> InList(x, m) \/ (m = l /\ x = job[p])
         /\ \A x \in Jobs, q \in Procs : Holds(q, x)' <=> Holds(q, x) /\ q # p
         /\ \A x \in Jobs : Holds(p, x) <=> x = job[p]
         /\ \A m \in Lists : ~InList(job[p], m)
         /\ \A q \in Procs : Holds(q, job[p]) => q = p
         /\ JobsConserved'
<1> DEFINE e == job[p]
<1>1. /\ list \in [Lists -> Seq(Jobs)] /\ list[l] \in Seq(Jobs) /\ e \in Jobs
      /\ job \in [Procs -> Jobs \cup {NoJob}]
  BY DEF TypeOK
<1>2. NoRepetition(list[l])
  BY DEF JobsConserved, NoRepetition
<1>3. Holds(p, e) /\ ~InList(e, l)
  <2>1. Holds(p, e)
    BY DEF Holds
  <2> QED BY <1>1, <2>1 DEF JobsConserved
<1>4. Append(list[l], e) \in Seq(Jobs)
  BY <1>1
<1>5. list' \in [Lists -> Seq(Jobs)]
  BY <1>1, <1>4
<1>6. /\ NoRepetition(Append(list[l], e))
      /\ \A x : (\E n \in 1..Len(Append(list[l], e)) : Append(list[l], e)[n] = x)
                <=> (\E n \in 1..Len(list[l]) : list[l][n] = x) \/ x = e
  <2>1. \A n \in 1..Len(list[l]) : list[l][n] # e
    BY <1>3 DEF InList
  <2> QED BY <1>1, <1>2, <2>1, AppendElements DEF NoRepetition
<1>7. /\ list'[l] = Append(list[l], e)
      /\ \A m \in Lists : m # l => list'[m] = list[m]
  BY <1>1
<1>8. ASSUME NEW x \in Jobs, NEW m \in Lists
      PROVE  InList(x, m)' <=> InList(x, m) \/ (m = l /\ x = e)
  BY <1>6, <1>7 DEF InList
<1>9. \A x \in Jobs, q \in Procs : Holds(q, x)' <=> Holds(q, x) /\ q # p
  BY <1>1, PoolAssumption DEF Holds, Jobs
<1>10. \A x \in Jobs : Holds(p, x) <=> x = e
  BY <1>1 DEF Holds
<1>11. /\ \A m \in Lists : ~InList(e, m)
       /\ \A q \in Procs : Holds(q, e) => q = p
  BY <1>1, <1>3 DEF JobsConserved
<1>12. JobsConserved'
  <2>1. ASSUME NEW m \in Lists PROVE NoRepetition(list'[m])
    <3>1. NoRepetition(list[m])
      BY DEF JobsConserved, NoRepetition
    <3> QED BY <1>6, <1>7, <3>1
  <2> QED
    <3>1. \A x \in Jobs : (\E m \in Lists : InList(x, m)) \/ (\E q \in Procs : Holds(q, x))
      BY DEF JobsConserved
    <3>2. \A x \in Jobs, m, n \in Lists : InList(x, m) /\ InList(x, n) => m = n
      BY DEF JobsConserved
    <3>3. \A x \in Jobs, m \in Lists, q \in Procs : ~(InList(x, m) /\ Holds(q, x))
      BY DEF JobsConserved
    <3>4. \A x \in Jobs, q, r \in Procs : Holds(q, x) /\ Holds(r, x) => q = r
      BY DEF JobsConserved
    <3>5. (\A x \in Jobs : (\E m \in Lists : InList(x, m)) \/ (\E q \in Procs : Holds(q, x)))'
      BY <3>1, <1>8, <1>9, <1>10
    <3>6. (\A m, n \in Lists : \A x \in Jobs : InList(x, m) /\ InList(x, n) => m = n)'
      BY <3>2, <3>3, <1>8, <1>3
    <3>7. (\A m \in Lists : \A q \in Procs : \A x \in Jobs : ~(InList(x, m) /\ Holds(q, x)))'
      BY <3>3, <3>4, <1>8, <1>3, <1>9
    <3>8. (\A q, r \in Procs : \A x \in Jobs : Holds(q, x) /\ Holds(r, x) => q = r)'
      BY <3>4, <1>9
    <3>9. (\A m \in Lists : \A a, b \in 1..Len(list[m]) : list[m][a] = list[m][b] => a = b)'
      BY <2>1 DEF NoRepetition
    <3> QED BY <3>5, <3>6, <3>7, <3>8, <3>9 DEF JobsConserved
<1> QED BY <1>1, <1>5, <1>8, <1>9, <1>10, <1>11, <1>12

-----------------------------------------------------------------------------
(* Counting: a thread that holds a job finds no list full, and the client  *)
(* finds a free job for every run.                                         *)

LEMMA JobsFinite == IsFiniteSet(Jobs) /\ Cardinality(Jobs) = Threads
BY PoolAssumption, FS_Interval DEF Jobs

LEMMA NotFull ==
  ASSUME TypeOK, JobsConserved, NEW p \in Procs, job[p] \in Jobs, NEW l \in Lists
  PROVE  ~IsFull(l)
<1> DEFINE n == Len(list[l])
           f == [i \in 1..n |-> list[l][i]]
           T == Jobs \ {job[p]}
<1>1. list[l] \in Seq(Jobs) /\ n \in Nat
  BY DEF TypeOK
<1>2. \A i \in 1..n : list[l][i] \in Jobs /\ list[l][i] # job[p]
  <2>1. Holds(p, job[p])
    BY DEF Holds
  <2>2. ~InList(job[p], l)
    BY <2>1 DEF JobsConserved
  <2> QED BY <1>1, <2>2 DEF InList
<1>3. \A i, k \in 1..n : f[i] = f[k] => i = k
  BY DEF JobsConserved
<1>4. f \in Injection(1..n, T)
  BY <1>2, <1>3 DEF Injection, IsInjective
<1>5. IsFiniteSet(T) /\ Cardinality(T) = Threads - 1
  BY JobsFinite, FS_RemoveElement
<1>6. Cardinality(1..n) <= Cardinality(T)
  BY <1>4, <1>5, FS_Injection
<1>7. Cardinality(1..n) = n
  BY <1>1, FS_Interval
<1> QED BY <1>1, <1>5, <1>6, <1>7, PoolAssumption DEF IsFull

LEMMA FreeJobAtPop ==
  ASSUME IInv, pc[Client] = "pop"
  PROVE  list["uninit"] # <<>>
<1> SUFFICES ASSUME list["uninit"] = <<>> PROVE FALSE
  OBVIOUS
<1> USE DEF IInv
<1>1. callArg \in active /\ active \subseteq Args /\ callArg \in Args
  BY DEF CallOK, TypeOK
<1>2. \A j \in Jobs : ~InList(j, "uninit")
  BY DEF InList
<1>3. \A j \in Jobs : Live(j)
  BY <1>2 DEF JobsConserved, Live, Lists
<1>4. \A j \in Jobs : jarg[j] \in Args \ {callArg}
  BY <1>1, <1>3 DEF ArgsDistinct, LiveArgs
<1> DEFINE f == [j \in Jobs |-> jarg[j]]
           T == Args \ {callArg}
<1>5. f \in Injection(Jobs, T)
  <2>1. f \in [Jobs -> T]
    BY <1>4
  <2>2. \A j, k \in Jobs : f[j] = f[k] => j = k
    BY <1>3 DEF ArgsDistinct
  <2> QED BY <2>1, <2>2 DEF Injection, IsInjective
<1>6. IsFiniteSet(T) /\ Cardinality(T) = Cardinality(Args) - 1
  BY <1>1, PoolAssumption, FS_RemoveElement
<1>7. Cardinality(Jobs) <= Cardinality(T)
  BY <1>5, <1>6, FS_Injection
<1>8. Cardinality(Args) \in Nat
  BY PoolAssumption, FS_CardinalityType
<1> QED BY <1>6, <1>7, <1>8, JobsFinite, PoolAssumption

-----------------------------------------------------------------------------
(* The inductive invariant, one step per action.                           *)

LEMMA ProcFacts ==
  /\ Client \notin Workers
  /\ Procs = Workers \cup {Client}
  /\ NoJob \notin Jobs
  /\ Threads \in Nat /\ Threads > 0
BY PoolAssumption DEF Client, Workers, Procs, Jobs

LEMMA CondFacts ==
  /\ Fill("run") \in Conds /\ Fill("done") \in Conds
  /\ Fill("run") # Fill("done")
  /\ Fill("run") # Awake /\ Fill("done") # Awake
  /\ \A l \in Lists : /\ Empty(l) # Awake
                     /\ Empty(l) # Fill("run")
                     /\ Empty(l) # Fill("done")
  /\ Fill("uninit") # Awake
  /\ Fill("uninit") # Fill("run")
  /\ Fill("uninit") # Fill("done")
BY DEF Fill, Empty, Awake, Conds, Lists

(* Steps that move no job.                                                 *)
LEMMA Unmoved ==
  ASSUME JobsConserved, UNCHANGED <<list, job>>
  PROVE  /\ JobsConserved'
         /\ \A x \in Jobs, m \in Lists : InList(x, m)' <=> InList(x, m)
         /\ \A x \in Jobs, q \in Procs : Holds(q, x)' <=> Holds(q, x)
BY DEF JobsConserved, InList, Holds

LEMMA InitIInv == Init => IInv
<1> SUFFICES ASSUME Init PROVE IInv
  OBVIOUS
<1> USE ProcFacts DEF Init
<1> DEFINE all == [i \in 1..Threads |-> i]
<1>0. /\ all \in Seq(Jobs) /\ Len(all) = Threads
      /\ \A i \in 1..Threads : all[i] = i
  BY DEF Jobs
<1>1. TypeOK
  <2>1. list \in [Lists -> Seq(Jobs)]
    BY <1>0
  <2>2. /\ pc \in [Procs -> WorkerPCs \cup ClientPCs]
        /\ \A w \in Workers : pc[w] \in WorkerPCs
        /\ pc[Client] \in ClientPCs
    BY DEF WorkerPCs, ClientPCs
  <2>3. /\ jarg \in [Jobs -> Args \cup {NoArg}]
        /\ jret \in [Jobs -> Results \cup {NoResult}]
        /\ job \in [Procs -> Jobs \cup {NoJob}]
        /\ waits \in [Procs -> Conds \cup {Awake}]
        /\ outcome \in [Args -> Results \cup {NoResult}]
    OBVIOUS
  <2> QED BY <2>1, <2>2, <2>3 DEF TypeOK
<1>2. \A j \in Jobs, l \in Lists : InList(j, l) <=> l = "uninit"
  <2>1. list["uninit"] = all /\ \A l \in Lists : l # "uninit" => list[l] = <<>>
    BY DEF Lists
  <2>2. ASSUME NEW j \in Jobs PROVE InList(j, "uninit")
    <3>1. j \in 1..Len(list["uninit"]) /\ list["uninit"][j] = j
      BY <1>0, <2>1 DEF Jobs
    <3> QED BY <3>1 DEF InList
  <2>3. ASSUME NEW j \in Jobs, NEW l \in Lists, l # "uninit" PROVE ~InList(j, l)
    BY <2>1, <2>3 DEF InList
  <2> QED BY <2>2, <2>3
<1>3. \A j \in Jobs, p \in Procs : ~Holds(p, j)
  BY DEF Holds
<1>4. JobsConserved
  <2>1. \A l \in Lists : \A i, k \in 1..Len(list[l]) : list[l][i] = list[l][k] => i = k
    BY DEF Lists
  <2> QED BY <1>2, <1>3, <2>1 DEF JobsConserved, Lists
<1>5. HolderPC /\ SleepPC /\ CallOK /\ NoLostWakeup
  BY DEF HolderPC, SleepPC, CallOK, NoLostWakeup, Fill, Awake
<1>6. \A j \in Jobs : ~Live(j) /\ ~Computed(j)
  BY <1>2, <1>3 DEF Live, Computed, Lists
<1>7. ArgsDistinct /\ ResultOK
  BY <1>6 DEF ArgsDistinct, ResultOK, WaitReturnsOwnResult
<1> QED BY <1>1, <1>4, <1>5, <1>7 DEF IInv

LEMMA WorkerLoopIInv ==
  ASSUME IInv, NEW w \in Workers, WorkerLoop(w) PROVE IInv'
<1> USE ProcFacts DEF IInv
<1>1. /\ UNCHANGED <<exit, list, jarg, jret, job, waits, callArg, active, retval, outcome>>
      /\ pc[w] = "top" /\ waits[w] = Awake
      /\ pc' = [pc EXCEPT ![w] = IF exit THEN "exited" ELSE "take"]
  BY DEF WorkerLoop, Ready, clientVars
<1>2. /\ JobsConserved'
      /\ \A x \in Jobs, m \in Lists : InList(x, m)' <=> InList(x, m)
      /\ \A x \in Jobs, q \in Procs : Holds(q, x)' <=> Holds(q, x)
  BY <1>1, Unmoved
<1>3. /\ pc'[Client] = pc[Client]
      /\ \A v \in Workers : v # w => pc'[v] = pc[v]
      /\ pc'[w] \in {"exited", "take"}
      /\ pc' \in [Procs -> WorkerPCs \cup ClientPCs]
  BY <1>1 DEF TypeOK, WorkerPCs
<1>4. TypeOK'
  BY <1>1, <1>3 DEF TypeOK, WorkerPCs
<1>5. HolderPC'
  BY <1>1, <1>3 DEF HolderPC
<1>6. SleepPC' /\ NoLostWakeup'
  BY <1>1, <1>3 DEF SleepPC, NoLostWakeup, Fill, Awake, Matches
<1>7. CallOK'
  BY <1>1, <1>3 DEF CallOK
<1>8. ArgsDistinct'
  BY <1>1, <1>2, <1>3 DEF ArgsDistinct, Live, LiveArgs, Lists
<1>9. ResultOK'
  BY <1>1, <1>2, <1>3 DEF ResultOK, Computed, WaitReturnsOwnResult, Lists
<1> QED BY <1>2, <1>4, <1>5, <1>6, <1>7, <1>8, <1>9

LEMMA WorkerExecIInv ==
  ASSUME IInv, NEW w \in Workers, WorkerExec(w) PROVE IInv'
<1> USE ProcFacts DEF IInv
<1> DEFINE e == job[w]
<1>1. /\ UNCHANGED <<exit, list, jarg, job, waits, callArg, active, retval>>
      /\ pc[w] = "exec" /\ waits[w] = Awake
      /\ pc' = [pc EXCEPT ![w] = "push"]
  BY DEF WorkerExec, Ready, clientVars
<1>2. /\ JobsConserved'
      /\ \A x \in Jobs, m \in Lists : InList(x, m)' <=> InList(x, m)
      /\ \A x \in Jobs, q \in Procs : Holds(q, x)' <=> Holds(q, x)
  BY <1>1, Unmoved
<1>3. /\ pc'[Client] = pc[Client]
      /\ \A v \in Workers : v # w => pc'[v] = pc[v]
      /\ pc'[w] = "push"
      /\ pc' \in [Procs -> WorkerPCs \cup ClientPCs]
  BY <1>1 DEF TypeOK, WorkerPCs
<1>4. /\ e \in Jobs /\ Holds(w, e) /\ Live(e)
      /\ \A x \in Jobs : Holds(w, x) => x = e
  BY <1>1 DEF TypeOK, HolderPC, Holds, Live
<1>5. PICK r \in Results : /\ jret' = [jret EXCEPT ![e] = r]
                          /\ outcome' = [outcome EXCEPT ![jarg[e]] = r]
  BY DEF WorkerExec
<1>6. /\ jarg[e] \in LiveArgs /\ jarg[e] \in Args
      /\ pc[Client] = "recSignal" => jarg[e] # callArg
  BY <1>4 DEF ArgsDistinct, LiveArgs, CallOK, TypeOK
<1>7. TypeOK'
  BY <1>1, <1>3, <1>5 DEF TypeOK, WorkerPCs
<1>8. HolderPC' /\ SleepPC' /\ CallOK'
  BY <1>1, <1>3 DEF HolderPC, SleepPC, CallOK, Awake, Fill
<1>9. NoLostWakeup'
  BY <1>1, <1>3 DEF NoLostWakeup, Matches
<1>10. ArgsDistinct'
  BY <1>1, <1>2, <1>3 DEF ArgsDistinct, Live, LiveArgs, Lists
<1>11. ResultOK'
  <2>1. ASSUME NEW j \in Jobs, Computed(j)'
        PROVE  jret'[j] \in Results /\ jret'[j] = outcome'[jarg[j]]
    <3>1. CASE j = e
      BY <3>1, <1>4, <1>5, <1>6 DEF TypeOK
    <3>2. CASE j # e
      <4>1. Computed(j)
        BY <2>1, <3>2, <1>1, <1>2, <1>3, <1>4 DEF Computed, Lists
      <4>2. Live(j)
        BY <4>1 DEF Computed, Live
      <4>3. jarg[j] # jarg[e]
        BY <4>2, <3>2, <1>4 DEF ArgsDistinct
      <4> QED BY <4>1, <4>3, <3>2, <1>4, <1>5, <1>6 DEF ResultOK, TypeOK
    <3> QED BY <3>1, <3>2
  <2>2. WaitReturnsOwnResult'
    BY <1>1, <1>3, <1>5, <1>6 DEF ResultOK, WaitReturnsOwnResult, CallOK, TypeOK
  <2> QED BY <2>1, <2>2, <1>1 DEF ResultOK
<1> QED BY <1>2, <1>7, <1>8, <1>9, <1>10, <1>11

LEMMA WorkerTakeIInv ==
  ASSUME IInv, NEW w \in Workers, WorkerTake(w) PROVE IInv'
<1> USE ProcFacts DEF IInv
<1>1. /\ UNCHANGED <<exit, jarg, jret, callArg, active, retval, outcome>>
      /\ pc[w] = "take" /\ waits[w] = Awake
      /\ job[w] = NoJob
  BY DEF WorkerTake, Ready, clientVars, HolderPC
<1>2. CASE list["run"] # <<>>
  <2> DEFINE e == list["run"][1]
  <2>1. TakeAt(w, "run", 1) /\ pc' = [pc EXCEPT ![w] = "exec"] /\ waits' = waits
    BY <1>2 DEF WorkerTake, Oldest
  <2>2. 1 \in 1..Len(list["run"]) /\ "run" \in Lists /\ w \in Procs
    BY <1>2 DEF TypeOK, Lists
  <2>3. /\ list' \in [Lists -> Seq(Jobs)]
        /\ job' = [job EXCEPT ![w] = e]
        /\ e \in Jobs
        /\ InList(e, "run")
        /\ \A x \in Jobs, m \in Lists :
              InList(x, m)' <=> InList(x, m) /\ ~(m = "run" /\ x = e)
        /\ \A x \in Jobs, q \in Procs : Holds(q, x)' <=> Holds(q, x) \/ (q = w /\ x = e)
        /\ JobsConserved'
    <3> HIDE DEF IInv
    <3>1. TypeOK /\ JobsConserved
      BY DEF IInv
    <3> QED BY <3>1, <2>1, <2>2, <1>1, TakeEffect
  <2>4. /\ pc'[Client] = pc[Client]
        /\ \A v \in Workers : v # w => pc'[v] = pc[v]
        /\ pc'[w] = "exec"
        /\ pc' \in [Procs -> WorkerPCs \cup ClientPCs]
    BY <2>1 DEF TypeOK, WorkerPCs
  <2>5. TypeOK'
    BY <1>1, <2>1, <2>3, <2>4 DEF TypeOK, WorkerPCs
  <2>6. HolderPC' /\ CallOK'
    BY <1>1, <2>3, <2>4 DEF HolderPC, CallOK, TypeOK
  <2>7. SleepPC'
    BY <1>1, <2>1, <2>4 DEF SleepPC, Awake, Fill
  <2>8. NoLostWakeup'
    <3>1. list'["done"] = list["done"]
      BY <2>1 DEF TakeAt, TypeOK, Lists
    <3>2. pc[Client] = pc'[Client] /\ waits' = waits
      BY <2>1, <2>4
    <3>3. \A v \in Workers : waits[v] = Fill("run") => ~exit /\ pc[Client] = "enqSignal"
      BY <1>2 DEF NoLostWakeup
    <3>4. Matches(callArg)' = Matches(callArg)
      BY <1>1, <3>1 DEF Matches
    <3>5. \A v \in Workers : pc[v] = "signal" => pc'[v] = "signal"
      BY <1>1, <2>4
    <3> QED BY <1>1, <3>2, <3>3, <3>4, <3>5 DEF NoLostWakeup
  <2>9. \A x \in Jobs : (Live(x)' <=> Live(x)) /\ (Computed(x)' => Computed(x))
    BY <1>1, <2>2, <2>3, <2>4 DEF Live, Computed, Lists
  <2>10. ArgsDistinct'
    BY <1>1, <2>4, <2>9 DEF ArgsDistinct, LiveArgs
  <2>11. ResultOK'
    BY <1>1, <2>4, <2>9 DEF ResultOK, WaitReturnsOwnResult
  <2> QED BY <2>3, <2>5, <2>6, <2>7, <2>8, <2>10, <2>11
<1>3. CASE list["run"] = <<>>
  <2>1. /\ UNCHANGED <<list, job>>
        /\ \/ exit /\ pc' = [pc EXCEPT ![w] = "top"] /\ waits' = waits
           \/ ~exit /\ waits' = [waits EXCEPT ![w] = Fill("run")] /\ pc' = pc
    BY <1>3 DEF WorkerTake, Sleep
  <2>2. /\ JobsConserved'
        /\ \A x \in Jobs, m \in Lists : InList(x, m)' <=> InList(x, m)
        /\ \A x \in Jobs, q \in Procs : Holds(q, x)' <=> Holds(q, x)
    BY <2>1, Unmoved
  <2>3. /\ pc'[Client] = pc[Client]
        /\ \A v \in Workers : v # w => pc'[v] = pc[v]
        /\ pc'[w] \in {"top", "take"}
        /\ pc' \in [Procs -> WorkerPCs \cup ClientPCs]
    BY <1>1, <2>1 DEF TypeOK, WorkerPCs
  <2>4. /\ waits' \in [Procs -> Conds \cup {Awake}]
        /\ waits'[Client] = waits[Client]
        /\ \A v \in Workers : v # w => waits'[v] = waits[v]
        /\ waits'[w] = Awake \/ (waits'[w] = Fill("run") /\ pc'[w] = "take" /\ ~exit)
    <3>1. Fill("run") \in Conds
      BY CondFacts
    <3>2. waits \in [Procs -> Conds \cup {Awake}]
      BY DEF TypeOK
    <3> QED BY <1>1, <2>1, <3>1, <3>2
  <2>5. TypeOK'
    BY <1>1, <2>1, <2>3, <2>4 DEF TypeOK, WorkerPCs
  <2>6. HolderPC' /\ SleepPC' /\ CallOK'
    BY <1>1, <2>1, <2>3, <2>4 DEF HolderPC, SleepPC, CallOK
  <2>7. NoLostWakeup'
    <3>1. Matches(callArg)' = Matches(callArg)
      BY <1>1, <2>1 DEF Matches
    <3>2. \A v \in Workers : pc[v] = "signal" => pc'[v] = "signal"
      BY <1>1, <2>3
    <3> QED BY <1>1, <1>3, <2>1, <2>3, <2>4, <3>1, <3>2 DEF NoLostWakeup, Fill, Awake
  <2>8. ArgsDistinct'
    BY <1>1, <2>2, <2>3 DEF ArgsDistinct, Live, LiveArgs, Lists
  <2>9. ResultOK'
    BY <1>1, <2>2, <2>3 DEF ResultOK, Computed, WaitReturnsOwnResult, Lists
  <2> QED BY <2>2, <2>5, <2>6, <2>7, <2>8, <2>9
<1> QED BY <1>2, <1>3

LEMMA WorkerPushIInv ==
  ASSUME IInv, NEW w \in Workers, WorkerPush(w) PROVE IInv'
<1> USE ProcFacts DEF IInv
<1> DEFINE e == job[w]
<1>1. /\ UNCHANGED <<exit, jarg, jret, callArg, active, retval, outcome>>
      /\ pc[w] = "push" /\ waits[w] = Awake
      /\ e \in Jobs /\ w \in Procs /\ "done" \in Lists
  BY DEF WorkerPush, Ready, clientVars, HolderPC, TypeOK, Lists
<1>2. ~IsFull("done")
  BY <1>1, NotFull
<1>3. /\ list' = [list EXCEPT !["done"] = Append(@, e)]
      /\ job' = [job EXCEPT ![w] = NoJob]
      /\ pc' = [pc EXCEPT ![w] = "signal"]
      /\ waits' = waits
  BY <1>2 DEF WorkerPush, Push
<1>4. /\ list' \in [Lists -> Seq(Jobs)]
      /\ \A x \in Jobs, m \in Lists : InList(x, m)' <=> InList(x, m) \/ (m = "done" /\ x = e)
      /\ \A x \in Jobs, q \in Procs : Holds(q, x)' <=> Holds(q, x) /\ q # w
      /\ \A x \in Jobs : Holds(w, x) <=> x = e
      /\ JobsConserved'
  <2> HIDE DEF IInv
  <2>1. TypeOK /\ JobsConserved
    BY DEF IInv
  <2> QED BY <2>1, <1>1, <1>3, PushEffect
<1>5. /\ pc'[Client] = pc[Client]
      /\ \A v \in Workers : v # w => pc'[v] = pc[v]
      /\ pc'[w] = "signal"
      /\ pc' \in [Procs -> WorkerPCs \cup ClientPCs]
  BY <1>3 DEF TypeOK, WorkerPCs
<1>6. TypeOK'
  BY <1>1, <1>3, <1>4, <1>5 DEF TypeOK, WorkerPCs
<1>7. HolderPC' /\ SleepPC' /\ CallOK'
  BY <1>1, <1>3, <1>5 DEF HolderPC, SleepPC, CallOK, TypeOK, Awake, Fill
<1>8. NoLostWakeup'
  <2>1. list'["run"] = list["run"]
    BY <1>3 DEF TypeOK, Lists
  <2> QED BY <1>1, <1>3, <1>5, <2>1 DEF NoLostWakeup
<1>9. \A x \in Jobs : (Live(x)' <=> Live(x)) /\ (Computed(x)' <=> Computed(x))
  BY <1>1, <1>4, <1>5 DEF Live, Computed, Lists
<1>10. ArgsDistinct'
  BY <1>1, <1>5, <1>9 DEF ArgsDistinct, LiveArgs
<1>11. ResultOK'
  BY <1>1, <1>5, <1>9 DEF ResultOK, WaitReturnsOwnResult
<1> QED BY <1>4, <1>6, <1>7, <1>8, <1>10, <1>11

(* A broadcast wakes everyone who sleeps on the condition, and only them.  *)
LEMMA BroadcastEffect ==
  ASSUME TypeOK, NEW c, Broadcast(c)
  PROVE  /\ waits' \in [Procs -> Conds \cup {Awake}]
         /\ \A p \in Procs : waits'[p] = IF waits[p] = c THEN Awake ELSE waits[p]
BY DEF TypeOK, Broadcast

LEMMA WorkerSignalIInv ==
  ASSUME IInv, NEW w \in Workers, WorkerSignal(w) PROVE IInv'
<1> USE ProcFacts DEF IInv
<1>1. /\ UNCHANGED <<exit, list, jarg, jret, job, callArg, active, retval, outcome>>
      /\ pc[w] = "signal" /\ waits[w] = Awake
      /\ pc' = [pc EXCEPT ![w] = "top"]
      /\ Broadcast(Fill("done"))
  BY DEF WorkerSignal, PushSignal, Ready, clientVars
<1>2. /\ JobsConserved'
      /\ \A x \in Jobs, m \in Lists : InList(x, m)' <=> InList(x, m)
      /\ \A x \in Jobs, q \in Procs : Holds(q, x)' <=> Holds(q, x)
  BY <1>1, Unmoved
<1>3. /\ pc'[Client] = pc[Client]
      /\ \A v \in Workers : v # w => pc'[v] = pc[v]
      /\ pc'[w] = "top"
      /\ pc' \in [Procs -> WorkerPCs \cup ClientPCs]
  BY <1>1 DEF TypeOK, WorkerPCs
<1>4. /\ waits' \in [Procs -> Conds \cup {Awake}]
      /\ waits'[Client] = Awake
      /\ \A v \in Workers : waits'[v] = waits[v]
  BY <1>1, BroadcastEffect, CondFacts DEF SleepPC
<1>5. TypeOK'
  BY <1>1, <1>3, <1>4 DEF TypeOK, WorkerPCs
<1>6. HolderPC' /\ SleepPC' /\ CallOK'
  BY <1>1, <1>3, <1>4 DEF HolderPC, SleepPC, CallOK
<1>7. NoLostWakeup'
  BY <1>1, <1>3, <1>4, CondFacts DEF NoLostWakeup
<1>8. ArgsDistinct'
  BY <1>1, <1>2, <1>3 DEF ArgsDistinct, Live, LiveArgs, Lists
<1>9. ResultOK'
  BY <1>1, <1>2, <1>3 DEF ResultOK, Computed, WaitReturnsOwnResult, Lists
<1> QED BY <1>2, <1>5, <1>6, <1>7, <1>8, <1>9

LEMMA RunCallIInv ==
  ASSUME IInv, NEW a \in Args, RunCall(a) PROVE IInv'
<1> USE ProcFacts DEF IInv
<1>1. /\ UNCHANGED <<exit, list, jarg, jret, job, waits, retval>>
      /\ pc[Client] = "idle" /\ waits[Client] = Awake
      /\ pc' = [pc EXCEPT ![Client] = "pop"]
      /\ a \notin active /\ active' = active \cup {a} /\ callArg' = a
      /\ outcome' = [outcome EXCEPT ![a] = NoResult]
  BY DEF RunCall, Ready, MayRun
<1>2. /\ JobsConserved'
      /\ \A x \in Jobs, m \in Lists : InList(x, m)' <=> InList(x, m)
      /\ \A x \in Jobs, q \in Procs : Holds(q, x)' <=> Holds(q, x)
  BY <1>1, Unmoved
<1>3. /\ pc'[Client] = "pop"
      /\ \A v \in Workers : pc'[v] = pc[v]
      /\ pc' \in [Procs -> WorkerPCs \cup ClientPCs]
  BY <1>1 DEF TypeOK, ClientPCs
<1>4. TypeOK'
  BY <1>1, <1>3 DEF TypeOK, ClientPCs
<1>5. HolderPC' /\ SleepPC' /\ CallOK'
  BY <1>1, <1>3 DEF HolderPC, SleepPC, CallOK
<1>6. NoLostWakeup'
  BY <1>1, <1>3, CondFacts DEF NoLostWakeup
<1>7. LiveArgs = active /\ LiveArgs' = active
  BY <1>1, <1>3 DEF LiveArgs
<1>8. \A x \in Jobs : (Live(x)' <=> Live(x)) /\ (Computed(x)' => Computed(x) /\ Live(x))
  BY <1>1, <1>2, <1>3 DEF Live, Computed, Lists
<1>9. ArgsDistinct'
  BY <1>1, <1>7, <1>8 DEF ArgsDistinct
<1>10. ResultOK'
  <2>1. \A x \in Jobs : Computed(x) /\ Live(x) => jarg[x] # a
    BY <1>1, <1>7 DEF ArgsDistinct
  <2> QED BY <1>1, <1>3, <1>8, <2>1 DEF ResultOK, WaitReturnsOwnResult, TypeOK
<1> QED BY <1>2, <1>4, <1>5, <1>6, <1>9, <1>10

LEMMA RunPopIInv ==
  ASSUME IInv, RunPop PROVE IInv'
<1> USE ProcFacts DEF IInv
<1> DEFINE n == Len(list["uninit"])
           e == list["uninit"][n]
<1>1. /\ UNCHANGED <<exit, jret, callArg, active, retval, outcome>>
      /\ pc[Client] = "pop" /\ waits[Client] = Awake
      /\ job[Client] = NoJob
  BY DEF RunPop, Ready, clientVars, HolderPC
<1>2. list["uninit"] # <<>>
  BY <1>1, FreeJobAtPop
<1>3. /\ TakeAt(Client, "uninit", n)
      /\ jarg' = [jarg EXCEPT ![e] = callArg]
      /\ Broadcast(Empty("uninit"))
      /\ pc' = [pc EXCEPT ![Client] = "enqueue"]
  BY <1>2 DEF RunPop, Last
<1>4. n \in 1..Len(list["uninit"]) /\ "uninit" \in Lists /\ Client \in Procs
  BY <1>2 DEF TypeOK, Lists
<1>5. /\ list' \in [Lists -> Seq(Jobs)]
      /\ job' = [job EXCEPT ![Client] = e]
      /\ e \in Jobs
      /\ \A x \in Jobs, m \in Lists :
            InList(x, m)' <=> InList(x, m) /\ ~(m = "uninit" /\ x = e)
      /\ \A x \in Jobs, q \in Procs : Holds(q, x)' <=> Holds(q, x) \/ (q = Client /\ x = e)
      /\ \A m \in Lists : m # "uninit" => ~InList(e, m)
      /\ \A q \in Procs : ~Holds(q, e)
      /\ JobsConserved'
  <2> HIDE DEF IInv
  <2>1. TypeOK /\ JobsConserved
    BY DEF IInv
  <2> QED BY <2>1, <1>1, <1>3, <1>4, TakeEffect
<1>6. /\ pc'[Client] = "enqueue"
      /\ \A v \in Workers : pc'[v] = pc[v]
      /\ pc' \in [Procs -> WorkerPCs \cup ClientPCs]
  BY <1>3 DEF TypeOK, ClientPCs
<1>7. waits' = waits
  <2>1. \A p \in Procs : waits[p] # Empty("uninit")
    BY CondFacts, <1>4 DEF SleepPC
  <2> QED BY <1>3, <2>1 DEF Broadcast, TypeOK
<1>8. callArg \in active /\ callArg \in Args
  BY <1>1 DEF CallOK, TypeOK
<1>9. /\ jarg'[e] = callArg
      /\ \A x \in Jobs : x # e => jarg'[x] = jarg[x]
      /\ jarg' \in [Jobs -> Args \cup {NoArg}]
  BY <1>3, <1>5, <1>8 DEF TypeOK
<1>10. TypeOK'
  BY <1>1, <1>5, <1>6, <1>7, <1>9 DEF TypeOK, ClientPCs
<1>11. HolderPC' /\ SleepPC' /\ CallOK'
  BY <1>1, <1>5, <1>6, <1>7, <1>8, <1>9 DEF HolderPC, SleepPC, CallOK, TypeOK
<1>12. NoLostWakeup'
  <2>1. list'["run"] = list["run"]
    BY <1>3 DEF TakeAt, TypeOK, Lists
  <2> QED BY <1>1, <1>6, <1>7, <2>1, CondFacts DEF NoLostWakeup
<1>13. /\ ~Live(e)
       /\ \A x \in Jobs : /\ Live(x)' <=> Live(x) \/ x = e
                          /\ Computed(x)' => Computed(x) /\ x # e
  BY <1>1, <1>4, <1>5, <1>6 DEF Live, Computed, Lists
<1>14. LiveArgs = active \ {callArg} /\ LiveArgs' = active
  BY <1>1, <1>6 DEF LiveArgs
<1>15. ArgsDistinct'
  BY <1>8, <1>9, <1>13, <1>14 DEF ArgsDistinct
<1>16. ResultOK'
  BY <1>1, <1>6, <1>9, <1>13 DEF ResultOK, WaitReturnsOwnResult
<1> QED BY <1>5, <1>10, <1>11, <1>12, <1>15, <1>16

LEMMA RunPushIInv ==
  ASSUME IInv, RunPush PROVE IInv'
<1> USE ProcFacts DEF IInv
<1> DEFINE e == job[Client]
<1>1. /\ UNCHANGED <<exit, jarg, jret, callArg, active, retval, outcome>>
      /\ pc[Client] = "enqueue" /\ waits[Client] = Awake
      /\ e \in Jobs /\ Client \in Procs /\ "run" \in Lists
  BY DEF RunPush, Ready, clientVars, HolderPC, TypeOK, Lists
<1>2. ~IsFull("run")
  BY <1>1, NotFull
<1>3. /\ list' = [list EXCEPT !["run"] = Append(@, e)]
      /\ job' = [job EXCEPT ![Client] = NoJob]
      /\ pc' = [pc EXCEPT ![Client] = "enqSignal"]
      /\ waits' = waits
  BY <1>2 DEF RunPush, Push
<1>4. /\ list' \in [Lists -> Seq(Jobs)]
      /\ \A x \in Jobs, m \in Lists : InList(x, m)' <=> InList(x, m) \/ (m = "run" /\ x = e)
      /\ \A x \in Jobs, q \in Procs : Holds(q, x)' <=> Holds(q, x) /\ q # Client
      /\ \A x \in Jobs : Holds(Client, x) <=> x = e
      /\ JobsConserved'
  <2> HIDE DEF IInv
  <2>1. TypeOK /\ JobsConserved
    BY DEF IInv
  <2> QED BY <2>1, <1>1, <1>3, PushEffect
<1>5. /\ pc'[Client] = "enqSignal"
      /\ \A v \in Workers : pc'[v] = pc[v]
      /\ pc' \in [Procs -> WorkerPCs \cup ClientPCs]
  BY <1>3 DEF TypeOK, ClientPCs
<1>6. TypeOK'
  BY <1>1, <1>3, <1>4, <1>5 DEF TypeOK, ClientPCs
<1>7. HolderPC' /\ SleepPC' /\ CallOK'
  BY <1>1, <1>3, <1>5 DEF HolderPC, SleepPC, CallOK, TypeOK
<1>8. NoLostWakeup'
  BY <1>1, <1>3, <1>5, CondFacts DEF NoLostWakeup
<1>9. \A x \in Jobs : (Live(x)' <=> Live(x)) /\ (Computed(x)' => Computed(x))
  BY <1>1, <1>4, <1>5 DEF Live, Computed, Lists
<1>10. ArgsDistinct'
  BY <1>1, <1>5, <1>9 DEF ArgsDistinct, LiveArgs
<1>11. ResultOK'
  BY <1>1, <1>5, <1>9 DEF ResultOK, WaitReturnsOwnResult
<1> QED BY <1>4, <1>6, <1>7, <1>8, <1>10, <1>11

LEMMA RunSignalIInv ==
  ASSUME IInv, RunSignal PROVE IInv'
<1> USE ProcFacts DEF IInv
<1>1. /\ UNCHANGED <<exit, list, jarg, jret, job, callArg, active, retval, outcome>>
      /\ pc[Client] = "enqSignal" /\ waits[Client] = Awake
      /\ pc' = [pc EXCEPT ![Client] = "idle"]
      /\ Broadcast(Fill("run"))
  BY DEF RunSignal, PushSignal, Ready, clientVars
<1>2. /\ JobsConserved'
      /\ \A x \in Jobs, m \in Lists : InList(x, m)' <=> InList(x, m)
      /\ \A x \in Jobs, q \in Procs : Holds(q, x)' <=> Holds(q, x)
  BY <1>1, Unmoved
<1>3. /\ pc'[Client] = "idle"
      /\ \A v \in Workers : pc'[v] = pc[v]
      /\ pc' \in [Procs -> WorkerPCs \cup ClientPCs]
  BY <1>1 DEF TypeOK, ClientPCs
<1>4. /\ waits' \in [Procs -> Conds \cup {Awake}]
      /\ \A p \in Procs : waits'[p] = Awake
  BY <1>1, BroadcastEffect, CondFacts DEF SleepPC
<1>5. TypeOK'
  BY <1>1, <1>3, <1>4 DEF TypeOK, ClientPCs
<1>6. HolderPC' /\ SleepPC' /\ CallOK'
  BY <1>1, <1>3, <1>4 DEF HolderPC, SleepPC, CallOK
<1>7. NoLostWakeup'
  BY <1>4, CondFacts DEF NoLostWakeup
<1>8. ArgsDistinct'
  BY <1>1, <1>2, <1>3 DEF ArgsDistinct, Live, LiveArgs, Lists
<1>9. ResultOK'
  BY <1>1, <1>2, <1>3 DEF ResultOK, Computed, WaitReturnsOwnResult, Lists
<1> QED BY <1>2, <1>5, <1>6, <1>7, <1>8, <1>9

LEMMA WaitCallIInv ==
  ASSUME IInv, NEW a \in Args, WaitCall(a) PROVE IInv'
<1> USE ProcFacts DEF IInv
<1>1. /\ UNCHANGED <<exit, list, jarg, jret, job, waits, retval, outcome>>
      /\ pc[Client] = "idle" /\ waits[Client] = Awake
      /\ pc' = [pc EXCEPT ![Client] = "scan"]
      /\ a \in active /\ active' = active \ {a} /\ callArg' = a
  BY DEF WaitCall, Ready
<1>2. /\ JobsConserved'
      /\ \A x \in Jobs, m \in Lists : InList(x, m)' <=> InList(x, m)
      /\ \A x \in Jobs, q \in Procs : Holds(q, x)' <=> Holds(q, x)
  BY <1>1, Unmoved
<1>3. /\ pc'[Client] = "scan"
      /\ \A v \in Workers : pc'[v] = pc[v]
      /\ pc' \in [Procs -> WorkerPCs \cup ClientPCs]
  BY <1>1 DEF TypeOK, ClientPCs
<1>4. TypeOK'
  BY <1>1, <1>3 DEF TypeOK, ClientPCs
<1>5. HolderPC' /\ SleepPC' /\ CallOK'
  BY <1>1, <1>3 DEF HolderPC, SleepPC, CallOK
<1>6. NoLostWakeup'
  BY <1>1, <1>3, CondFacts DEF NoLostWakeup
<1>7. LiveArgs' = LiveArgs
  BY <1>1, <1>3 DEF LiveArgs
<1>8. \A x \in Jobs : (Live(x)' <=> Live(x)) /\ (Computed(x)' => Computed(x))
  BY <1>1, <1>2, <1>3 DEF Live, Computed, Lists
<1>9. ArgsDistinct'
  BY <1>1, <1>7, <1>8 DEF ArgsDistinct
<1>10. ResultOK'
  BY <1>1, <1>3, <1>8 DEF ResultOK, WaitReturnsOwnResult
<1> QED BY <1>2, <1>4, <1>5, <1>6, <1>9, <1>10

LEMMA WaitScanIInv ==
  ASSUME IInv, WaitScan PROVE IInv'
<1> USE ProcFacts DEF IInv
<1>1. /\ UNCHANGED <<exit, jarg, jret, callArg, active, retval, outcome>>
      /\ pc[Client] = "scan" /\ waits[Client] = Awake
      /\ job[Client] = NoJob
  BY DEF WaitScan, Ready, clientVars, HolderPC
<1>2. CASE Matches(callArg) = {} /\ Sleep(Client, Fill("done")) /\ UNCHANGED <<list, job, pc>>
  <2>1. /\ JobsConserved'
        /\ \A x \in Jobs, m \in Lists : InList(x, m)' <=> InList(x, m)
        /\ \A x \in Jobs, q \in Procs : Holds(q, x)' <=> Holds(q, x)
    BY <1>2, Unmoved
  <2>2. /\ waits' \in [Procs -> Conds \cup {Awake}]
        /\ waits'[Client] = Fill("done")
        /\ \A v \in Workers : waits'[v] = waits[v]
    <3>1. waits \in [Procs -> Conds \cup {Awake}] /\ Fill("done") \in Conds
      BY CondFacts DEF TypeOK
    <3> QED BY <1>2, <3>1 DEF Sleep
  <2>3. TypeOK'
    BY <1>1, <1>2, <2>2 DEF TypeOK
  <2>4. HolderPC' /\ SleepPC' /\ CallOK'
    BY <1>1, <1>2, <2>2 DEF HolderPC, SleepPC, CallOK
  <2>5. NoLostWakeup'
    BY <1>1, <1>2, <2>2 DEF NoLostWakeup, Matches
  <2>6. ArgsDistinct'
    BY <1>1, <1>2, <2>1 DEF ArgsDistinct, Live, LiveArgs, Lists
  <2>7. ResultOK'
    BY <1>1, <1>2, <2>1 DEF ResultOK, Computed, WaitReturnsOwnResult, Lists
  <2> QED BY <2>1, <2>3, <2>4, <2>5, <2>6, <2>7
<1>3. ASSUME NEW i \in Matches(callArg), TakeAt(Client, "done", i),
             pc' = [pc EXCEPT ![Client] = "recycle"], waits' = waits
      PROVE  IInv'
  <2> DEFINE e == list["done"][i]
  <2>1. /\ i \in 1..Len(list["done"]) /\ "done" \in Lists /\ Client \in Procs
        /\ jarg[e] = callArg
    BY DEF Matches, Lists
  <2>2. /\ list' \in [Lists -> Seq(Jobs)]
        /\ job' = [job EXCEPT ![Client] = e]
        /\ e \in Jobs
        /\ InList(e, "done")
        /\ \A x \in Jobs, m \in Lists :
              InList(x, m)' <=> InList(x, m) /\ ~(m = "done" /\ x = e)
        /\ \A x \in Jobs, q \in Procs : Holds(q, x)' <=> Holds(q, x) \/ (q = Client /\ x = e)
        /\ JobsConserved'
    <3> HIDE DEF IInv
    <3>1. TypeOK /\ JobsConserved
      BY DEF IInv
    <3> QED BY <3>1, <1>1, <1>3, <2>1, TakeEffect
  <2>3. /\ pc'[Client] = "recycle"
        /\ \A v \in Workers : pc'[v] = pc[v]
        /\ pc' \in [Procs -> WorkerPCs \cup ClientPCs]
    BY <1>3 DEF TypeOK, ClientPCs
  <2>4. TypeOK'
    BY <1>1, <1>3, <2>2, <2>3 DEF TypeOK, ClientPCs
  <2>5. HolderPC' /\ SleepPC' /\ CallOK'
    BY <1>1, <1>3, <2>1, <2>2, <2>3 DEF HolderPC, SleepPC, CallOK, TypeOK
  <2>6. NoLostWakeup'
    <3>1. list'["run"] = list["run"]
      BY <1>3 DEF TakeAt, TypeOK, Lists
    <3> QED BY <1>1, <1>3, <2>3, <3>1, CondFacts DEF NoLostWakeup
  <2>7. \A x \in Jobs : (Live(x)' <=> Live(x)) /\ (Computed(x)' => Computed(x))
    <3>1. "run" \in Lists /\ "run" # "done"
      BY DEF Lists
    <3>2. \A x \in Jobs : Live(x)' <=> Live(x)
      BY <2>1, <2>2, <3>1 DEF Live
    <3>3. \A x \in Jobs : ~Holds(Client, x)
      BY <1>1 DEF Holds
    <3>4. \A x \in Jobs : Computed(x)' => Computed(x)
      BY <2>1, <2>2, <2>3, <3>3 DEF Computed
    <3> QED BY <3>2, <3>4
  <2>8. ArgsDistinct'
    BY <1>1, <2>3, <2>7 DEF ArgsDistinct, LiveArgs
  <2>9. ResultOK'
    BY <1>1, <2>3, <2>7 DEF ResultOK, WaitReturnsOwnResult
  <2> QED BY <2>2, <2>4, <2>5, <2>6, <2>8, <2>9
<1> QED BY <1>2, <1>3 DEF WaitScan

LEMMA WaitPushIInv ==
  ASSUME IInv, WaitPush PROVE IInv'
<1> USE ProcFacts DEF IInv
<1> DEFINE e == job[Client]
<1>1. /\ UNCHANGED <<exit, jarg, jret, callArg, active, outcome>>
      /\ pc[Client] = "recycle" /\ waits[Client] = Awake
      /\ e \in Jobs /\ Client \in Procs /\ "uninit" \in Lists
  BY DEF WaitPush, Ready, HolderPC, TypeOK, Lists
<1>2. ~IsFull("uninit")
  BY <1>1, NotFull
<1>3. /\ list' = [list EXCEPT !["uninit"] = Append(@, e)]
      /\ job' = [job EXCEPT ![Client] = NoJob]
      /\ pc' = [pc EXCEPT ![Client] = "recSignal"]
      /\ waits' = waits
      /\ retval' = jret[e]
  BY <1>2 DEF WaitPush, Push, Ret
<1>4. /\ list' \in [Lists -> Seq(Jobs)]
      /\ \A x \in Jobs, m \in Lists : InList(x, m)' <=> InList(x, m) \/ (m = "uninit" /\ x = e)
      /\ \A x \in Jobs, q \in Procs : Holds(q, x)' <=> Holds(q, x) /\ q # Client
      /\ \A x \in Jobs : Holds(Client, x) <=> x = e
      /\ \A m \in Lists : ~InList(e, m)
      /\ \A q \in Procs : Holds(q, e) => q = Client
      /\ JobsConserved'
  <2> HIDE DEF IInv
  <2>1. TypeOK /\ JobsConserved
    BY DEF IInv
  <2> QED BY <2>1, <1>1, <1>3, PushEffect
<1>5. /\ pc'[Client] = "recSignal"
      /\ \A v \in Workers : pc'[v] = pc[v]
      /\ pc' \in [Procs -> WorkerPCs \cup ClientPCs]
  BY <1>3 DEF TypeOK, ClientPCs
<1>6. TypeOK'
  BY <1>1, <1>3, <1>4, <1>5 DEF TypeOK, ClientPCs
<1>7. HolderPC' /\ SleepPC' /\ CallOK'
  BY <1>1, <1>3, <1>5 DEF HolderPC, SleepPC, CallOK, TypeOK
<1>8. NoLostWakeup'
  <2>1. list'["run"] = list["run"]
    BY <1>3 DEF TypeOK, Lists
  <2> QED BY <1>1, <1>3, <1>5, <2>1, CondFacts DEF NoLostWakeup
<1>9. /\ Live(e) /\ Computed(e) /\ jarg[e] = callArg
      /\ \A x \in Jobs : /\ Live(x)' <=> Live(x) /\ x # e
                         /\ Computed(x)' => Computed(x)
  BY <1>1, <1>4, <1>5 DEF Live, Computed, Lists, CallOK
<1>10. ArgsDistinct'
  <2>1. LiveArgs = active \cup {callArg} /\ LiveArgs' = active
    BY <1>1, <1>5 DEF LiveArgs
  <2> QED BY <1>1, <1>9, <2>1 DEF ArgsDistinct
<1>11. ResultOK'
  BY <1>1, <1>3, <1>5, <1>9 DEF ResultOK, WaitReturnsOwnResult
<1> QED BY <1>4, <1>6, <1>7, <1>8, <1>10, <1>11

LEMMA WaitSignalIInv ==
  ASSUME IInv, WaitSignal PROVE IInv'
<1> USE ProcFacts DEF IInv
<1>1. /\ UNCHANGED <<exit, list, jarg, jret, job, callArg, active, retval, outcome>>
      /\ pc[Client] = "recSignal" /\ waits[Client] = Awake
      /\ pc' = [pc EXCEPT ![Client] = "idle"]
      /\ Broadcast(Fill("uninit"))
  BY DEF WaitSignal, PushSignal, Ready, clientVars
<1>2. /\ JobsConserved'
      /\ \A x \in Jobs, m \in Lists : InList(x, m)' <=> InList(x, m)
      /\ \A x \in Jobs, q \in Procs : Holds(q, x)' <=> Holds(q, x)
  BY <1>1, Unmoved
<1>3. /\ pc'[Client] = "idle"
      /\ \A v \in Workers : pc'[v] = pc[v]
      /\ pc' \in [Procs -> WorkerPCs \cup ClientPCs]
  BY <1>1 DEF TypeOK, ClientPCs
<1>4. waits' = waits
  <2>1. \A p \in Procs : waits[p] # Fill("uninit")
    BY CondFacts DEF SleepPC
  <2> QED BY <1>1, <2>1 DEF Broadcast, TypeOK
<1>5. TypeOK'
  BY <1>1, <1>3, <1>4 DEF TypeOK, ClientPCs
<1>6. HolderPC' /\ SleepPC' /\ CallOK'
  BY <1>1, <1>3, <1>4 DEF HolderPC, SleepPC, CallOK
<1>7. NoLostWakeup'
  BY <1>1, <1>3, <1>4, CondFacts DEF NoLostWakeup, Matches
<1>8. ArgsDistinct'
  BY <1>1, <1>2, <1>3 DEF ArgsDistinct, Live, LiveArgs, Lists
<1>9. ResultOK'
  BY <1>1, <1>2, <1>3 DEF ResultOK, Computed, WaitReturnsOwnResult, Lists
<1> QED BY <1>2, <1>5, <1>6, <1>7, <1>8, <1>9

LEMMA DeleteCallIInv ==
  ASSUME IInv, DeleteCall PROVE IInv'
<1> USE ProcFacts DEF IInv
<1>1. /\ UNCHANGED <<list, jarg, jret, job, callArg, active, retval, outcome>>
      /\ pc[Client] = "idle" /\ waits[Client] = Awake
      /\ pc' = [pc EXCEPT ![Client] = "join"]
      /\ exit' = TRUE
      /\ Broadcast(Fill("run"))
  BY DEF DeleteCall, Ready, clientVars
<1>2. /\ JobsConserved'
      /\ \A x \in Jobs, m \in Lists : InList(x, m)' <=> InList(x, m)
      /\ \A x \in Jobs, q \in Procs : Holds(q, x)' <=> Holds(q, x)
  BY <1>1, Unmoved
<1>3. /\ pc'[Client] = "join"
      /\ \A v \in Workers : pc'[v] = pc[v]
      /\ pc' \in [Procs -> WorkerPCs \cup ClientPCs]
  BY <1>1 DEF TypeOK, ClientPCs
<1>4. /\ waits' \in [Procs -> Conds \cup {Awake}]
      /\ \A p \in Procs : waits'[p] = Awake
  BY <1>1, BroadcastEffect, CondFacts DEF SleepPC
<1>5. TypeOK'
  BY <1>1, <1>3, <1>4 DEF TypeOK, ClientPCs
<1>6. HolderPC' /\ SleepPC' /\ CallOK'
  BY <1>1, <1>3, <1>4 DEF HolderPC, SleepPC, CallOK
<1>7. NoLostWakeup'
  BY <1>4, CondFacts DEF NoLostWakeup
<1>8. ArgsDistinct'
  BY <1>1, <1>2, <1>3 DEF ArgsDistinct, Live, LiveArgs, Lists
<1>9. ResultOK'
  BY <1>1, <1>2, <1>3 DEF ResultOK, Computed, WaitReturnsOwnResult, Lists
<1> QED BY <1>2, <1>5, <1>6, <1>7, <1>8, <1>9

LEMMA DeleteJoinIInv ==
  ASSUME IInv, DeleteJoin PROVE IInv'
<1> USE ProcFacts DEF IInv
<1>1. /\ UNCHANGED <<exit, list, jarg, jret, job, waits, callArg, active, retval, outcome>>
      /\ pc[Client] = "join" /\ waits[Client] = Awake
      /\ \A w \in Workers : pc[w] = "exited"
      /\ pc' = [pc EXCEPT ![Client] = "closed"]
  BY DEF DeleteJoin, Ready, clientVars, AllJoined
<1>2. /\ JobsConserved'
      /\ \A x \in Jobs, m \in Lists : InList(x, m)' <=> InList(x, m)
      /\ \A x \in Jobs, q \in Procs : Holds(q, x)' <=> Holds(q, x)
  BY <1>1, Unmoved
<1>3. /\ pc'[Client] = "closed"
      /\ \A v \in Workers : pc'[v] = pc[v]
      /\ pc' \in [Procs -> WorkerPCs \cup ClientPCs]
  BY <1>1 DEF TypeOK, ClientPCs
<1>4. TypeOK'
  BY <1>1, <1>3 DEF TypeOK, ClientPCs
<1>5. HolderPC' /\ SleepPC' /\ CallOK'
  BY <1>1, <1>3 DEF HolderPC, SleepPC, CallOK
<1>6. NoLostWakeup'
  BY <1>1, <1>3, CondFacts DEF NoLostWakeup, SleepPC
<1>7. ArgsDistinct'
  BY <1>1, <1>2, <1>3 DEF ArgsDistinct, Live, LiveArgs, Lists
<1>8. ResultOK'
  BY <1>1, <1>2, <1>3 DEF ResultOK, Computed, WaitReturnsOwnResult, Lists
<1> QED BY <1>2, <1>4, <1>5, <1>6, <1>7, <1>8

LEMMA SpuriousWakeupIInv ==
  ASSUME IInv, NEW p \in Procs, SpuriousWakeup(p) PROVE IInv'
<1> USE ProcFacts DEF IInv
<1>1. /\ UNCHANGED <<exit, list, jarg, jret, pc, job, callArg, active, retval, outcome>>
      /\ waits' = [waits EXCEPT ![p] = Awake]
  BY DEF SpuriousWakeup, clientVars
<1>2. /\ JobsConserved'
      /\ \A x \in Jobs, m \in Lists : InList(x, m)' <=> InList(x, m)
      /\ \A x \in Jobs, q \in Procs : Holds(q, x)' <=> Holds(q, x)
  BY <1>1, Unmoved
<1>3. /\ waits' \in [Procs -> Conds \cup {Awake}]
      /\ \A q \in Procs : waits'[q] = Awake \/ waits'[q] = waits[q]
  BY <1>1 DEF TypeOK
<1>4. TypeOK'
  BY <1>1, <1>3 DEF TypeOK
<1>5. HolderPC' /\ SleepPC' /\ CallOK'
  BY <1>1, <1>3 DEF HolderPC, SleepPC, CallOK
<1>6. NoLostWakeup'
  <2>1. Matches(callArg)' = Matches(callArg)
    BY <1>1 DEF Matches
  <2> QED BY <1>1, <1>3, <2>1, CondFacts DEF NoLostWakeup
<1>7. ArgsDistinct'
  BY <1>1, <1>2 DEF ArgsDistinct, Live, LiveArgs, Lists
<1>8. ResultOK'
  BY <1>1, <1>2 DEF ResultOK, Computed, WaitReturnsOwnResult, Lists
<1> QED BY <1>2, <1>4, <1>5, <1>6, <1>7, <1>8

LEMMA StutterIInv ==
  ASSUME IInv, UNCHANGED vars PROVE IInv'
BY DEF IInv, vars, TypeOK, JobsConserved, HolderPC, SleepPC, CallOK, ArgsDistinct,
       ResultOK, NoLostWakeup, InList, Holds, Live, LiveArgs, Computed, Matches,
       WaitReturnsOwnResult

LEMMA NextIInv == IInv /\ [Next]_vars => IInv'
<1> SUFFICES ASSUME IInv, [Next]_vars PROVE IInv'
  OBVIOUS
<1>1. CASE \E w \in Workers : WorkerStep(w)
  BY <1>1, WorkerLoopIInv, WorkerTakeIInv, WorkerExecIInv, WorkerPushIInv,
     WorkerSignalIInv DEF WorkerStep
<1>2. CASE ClientStep
  BY <1>2, RunPopIInv, RunPushIInv, RunSignalIInv, WaitScanIInv, WaitPushIInv,
     WaitSignalIInv, DeleteJoinIInv DEF ClientStep
<1>3. CASE ClientCall
  BY <1>3, RunCallIInv, WaitCallIInv, DeleteCallIInv DEF ClientCall
<1>4. CASE \E p \in Procs : SpuriousWakeup(p)
  BY <1>4, SpuriousWakeupIInv
<1>5. CASE Terminated \/ UNCHANGED vars
  BY <1>5, StutterIInv DEF Terminated
<1> QED BY <1>1, <1>2, <1>3, <1>4, <1>5 DEF Next

-----------------------------------------------------------------------------
(* The theorems.                                                           *)

(* IInv is an invariant of the specification.                              *)
THEOREM InductiveInvariant == Spec => []IInv
BY InitIInv, NextIInv, PTL DEF Spec

(* Every variable keeps its type.                                          *)
THEOREM TypeCorrect == Spec => []TypeOK
<1>1. IInv => TypeOK
  BY DEF IInv
<1> QED BY <1>1, InductiveInvariant, PTL

(* However many threads there are, no job object is lost or in two places. *)
THEOREM JobConservation == Spec => []JobsConserved
<1>1. IInv => JobsConserved
  BY DEF IInv
<1> QED BY <1>1, InductiveInvariant, PTL

(* As long as the client has no more arguments than the pool has threads,  *)
(* no push finds its list full and no run finds no free job: the missing   *)
(* signals on cv_empty are never needed.                                   *)
THEOREM NobodySleepsForRoom == Spec => []NoSleepForRoom
<1>1. IInv => NoSleepForRoom
  BY CondFacts, ProcFacts DEF IInv, SleepPC, NoSleepForRoom
<1> QED BY <1>1, InductiveInvariant, PTL

(* A thread that sleeps while what it waits for is there is about to be    *)
(* woken, although push broadcasts outside of the critical section.        *)
THEOREM NoWakeupLost == Spec => []NoLostWakeup
<1>1. IInv => NoLostWakeup
  BY DEF IInv
<1> QED BY <1>1, InductiveInvariant, PTL

(* The scan of the done list never has a choice.                           *)
THEOREM DoneDistinct == Spec => []DoneArgsDistinct
<1>1. IInv => DoneArgsDistinct
  <2> SUFFICES ASSUME IInv, NEW i \in 1..Len(list["done"]), NEW k \in 1..Len(list["done"]),
                      jarg[list["done"][i]] = jarg[list["done"][k]]
               PROVE  i = k
    BY DEF DoneArgsDistinct
  <2>1. "done" \in Lists
    BY DEF Lists
  <2>2. list["done"][i] \in Jobs /\ list["done"][k] \in Jobs
    BY <2>1 DEF IInv, TypeOK
  <2>3. Live(list["done"][i]) /\ Live(list["done"][k])
    BY DEF Live, InList
  <2>4. list["done"][i] = list["done"][k]
    BY <2>2, <2>3 DEF IInv, ArgsDistinct
  <2> QED BY <2>1, <2>4 DEF IInv, JobsConserved
<1> QED BY <1>1, InductiveInvariant, PTL

(* A wait returns the result of the last run of its argument.              *)
THEOREM OwnResult == Spec => []WaitReturnsOwnResult
<1>1. IInv => WaitReturnsOwnResult
  BY DEF IInv, ResultOK
<1> QED BY <1>1, InductiveInvariant, PTL

(* When all threads are joined every job is in a list, so delete, which    *)
(* frees the lists, frees every job.                                       *)
THEOREM DeleteFrees == Spec => []DeleteFreesEveryJob
<1>1. IInv => DeleteFreesEveryJob
  <2> SUFFICES ASSUME IInv, pc[Client] = "closed", NEW j \in Jobs
               PROVE  \E l \in Lists : InList(j, l)
    BY DEF DeleteFreesEveryJob
  <2>1. \A p \in Procs : job[p] = NoJob
    BY ProcFacts DEF IInv, CallOK, HolderPC
  <2>2. \A p \in Procs : ~Holds(p, j)
    BY <2>1, ProcFacts DEF Holds
  <2> QED BY <2>2 DEF IInv, JobsConserved
<1> QED BY <1>1, InductiveInvariant, PTL
-----------------------------------------------------------------------------
(* ThreadPool implements TaskPool.  The refinement mapping speaks of       *)
(* arguments, the steps of the pool of jobs.  Stage(j) is the phase of the *)
(* argument job j carries, told by the place j is in; since the jobs in    *)
(* flight carry different arguments (ArgsDistinct), a step that changes    *)
(* the stage of one job changes the phase of its argument and of no other  *)
(* (OneJobMoves).                                                          *)
Stage(j) ==
  IF InList(j, "run") THEN "queued"
  ELSE IF \E w \in Workers : pc[w] = "exec" /\ Holds(w, j) THEN "started"
  ELSE IF \E w \in Workers : pc[w] = "push" /\ Holds(w, j) THEN "computed"
  ELSE IF InList(j, "done") \/ (pc[Client] = "recycle" /\ Holds(Client, j)) THEN "finished"
  ELSE "free"

HasResult(stage) == stage \in {"computed", "finished"}

(* The mapping, told by the jobs.                                          *)
BarsByJob ==
  /\ \A j \in Jobs : Stage(j) # "free" =>
        /\ phaseBar[jarg[j]] = Stage(j)
        /\ resultBar[jarg[j]] = IF HasResult(Stage(j)) THEN jret[j] ELSE NoResult
  /\ \A a \in Args : (\A j \in Jobs : Stage(j) # "free" => jarg[j] # a) =>
        phaseBar[a] = "free" /\ resultBar[a] = NoResult

(* The pool is being deleted from the call on.                             *)
ExitOK == exit <=> pc[Client] \in {"join", "closed"}

-----------------------------------------------------------------------------
(* Jobs and arguments.                                                     *)

LEMMA LiveArgOK ==
  ASSUME IInv, NEW j \in Jobs, Live(j) PROVE jarg[j] \in Args
<1>1. LiveArgs \subseteq Args
  BY DEF LiveArgs, IInv, TypeOK, CallOK
<1> QED BY <1>1 DEF IInv, ArgsDistinct

LEMMA StageLive ==
  ASSUME IInv, NEW j \in Jobs, Stage(j) # "free" PROVE Live(j)
BY ProcFacts DEF Stage, Live

LEMMA StageSets ==
  ASSUME IInv
  PROVE  /\ ListSet("run") = {j \in Jobs : Stage(j) = "queued"}
         /\ StartedJobs = {j \in Jobs : Stage(j) = "started"}
         /\ ComputedJobs = {j \in Jobs : Stage(j) = "computed"}
         /\ FinishedJobs = {j \in Jobs : Stage(j) = "finished"}
<1>1. /\ "run" \in Lists /\ "done" \in Lists /\ list \in [Lists -> Seq(Jobs)]
      /\ \A w \in Workers : pc[w] \in {"exec", "push"} => job[w] \in Jobs
      /\ pc[Client] = "recycle" => job[Client] \in Jobs
  BY ProcFacts DEF IInv, TypeOK, HolderPC, Lists
<1>2. \A l \in {"run", "done"} : ListSet(l) = {j \in Jobs : InList(j, l)}
  BY <1>1 DEF ListSet, InList
<1>3. \A at \in {"exec", "push"} :
         UNION {HeldAt(w, at) : w \in Workers}
           = {j \in Jobs : \E w \in Workers : pc[w] = at /\ Holds(w, j)}
  BY <1>1 DEF HeldAt, Holds
<1>4. HeldAt(Client, "recycle") = {j \in Jobs : pc[Client] = "recycle" /\ Holds(Client, j)}
  BY <1>1 DEF HeldAt, Holds
<1>5. ASSUME NEW j \in Jobs
      PROVE  /\ InList(j, "run") => /\ ~InList(j, "done") /\ \A p \in Procs : ~Holds(p, j)
             /\ InList(j, "done") => \A p \in Procs : ~Holds(p, j)
             /\ \A p, q \in Procs : Holds(p, j) /\ Holds(q, j) => p = q
  BY <1>1 DEF IInv, JobsConserved
<1>6. ListSet("run") = {j \in Jobs : Stage(j) = "queued"}
  BY <1>2 DEF Stage
<1>7. StartedJobs = {j \in Jobs : Stage(j) = "started"}
  BY <1>3, <1>5, ProcFacts DEF Stage, StartedJobs
<1>8. ComputedJobs = {j \in Jobs : Stage(j) = "computed"}
  BY <1>3, <1>5, ProcFacts DEF Stage, ComputedJobs
<1>9. FinishedJobs = {j \in Jobs : Stage(j) = "finished"}
  BY <1>2, <1>4, <1>5, ProcFacts DEF Stage, FinishedJobs
<1> QED BY <1>6, <1>7, <1>8, <1>9

LEMMA BarsOfJobs == IInv => BarsByJob
<1> SUFFICES ASSUME IInv PROVE BarsByJob
  OBVIOUS
<1> DEFINE In(stages, a) == {j \in Jobs : Stage(j) \in stages /\ jarg[j] = a}
           Pick(S) == CHOOSE j \in S : TRUE
<1>1. ASSUME NEW a \in Args
      PROVE  /\ JobsAt(ListSet("run"), a) = In({"queued"}, a)
             /\ JobsAt(StartedJobs, a) = In({"started"}, a)
             /\ JobsAt(ComputedJobs, a) = In({"computed"}, a)
             /\ JobsAt(FinishedJobs, a) = In({"finished"}, a)
             /\ JobsAt(ComputedJobs \cup FinishedJobs, a) = In({"computed", "finished"}, a)
  BY StageSets DEF JobsAt
<1>2. ASSUME NEW a \in Args
      PROVE  /\ phaseBar[a] = IF In({"queued"}, a) # {} THEN "queued"
                              ELSE IF In({"started"}, a) # {} THEN "started"
                              ELSE IF In({"computed"}, a) # {} THEN "computed"
                              ELSE IF In({"finished"}, a) # {} THEN "finished"
                              ELSE "free"
             /\ resultBar[a] = IF In({"computed", "finished"}, a) # {}
                               THEN jret[Pick(In({"computed", "finished"}, a))]
                               ELSE NoResult
  <2>1. phaseBar[a] = IF JobsAt(ListSet("run"), a) # {} THEN "queued"
                      ELSE IF JobsAt(StartedJobs, a) # {} THEN "started"
                      ELSE IF JobsAt(ComputedJobs, a) # {} THEN "computed"
                      ELSE IF JobsAt(FinishedJobs, a) # {} THEN "finished"
                      ELSE "free"
    BY DEF phaseBar
  <2>2. resultBar[a] = IF JobsAt(ComputedJobs \cup FinishedJobs, a) # {}
                       THEN jret[Pick(JobsAt(ComputedJobs \cup FinishedJobs, a))]
                       ELSE NoResult
    BY DEF resultBar
  <2> HIDE DEF In, Pick
  <2> QED BY <1>1, <2>1, <2>2
<1>3. ASSUME NEW j \in Jobs, Stage(j) # "free"
      PROVE  /\ phaseBar[jarg[j]] = Stage(j)
             /\ resultBar[jarg[j]] = IF HasResult(Stage(j)) THEN jret[j] ELSE NoResult
  <2>1. jarg[j] \in Args
    BY <1>3, StageLive, LiveArgOK
  <2>2. \A k \in Jobs : Stage(k) # "free" /\ jarg[k] = jarg[j] => k = j
    BY <1>3, StageLive DEF IInv, ArgsDistinct
  <2>3. Stage(j) \in {"queued", "started", "computed", "finished"}
    BY <1>3 DEF Stage
  <2>4. \A s \in {"queued", "started", "computed", "finished"} :
           In({s}, jarg[j]) = IF Stage(j) = s THEN {j} ELSE {}
    BY <2>2
  <2>5. In({"computed", "finished"}, jarg[j]) = IF HasResult(Stage(j)) THEN {j} ELSE {}
    BY <2>2 DEF HasResult
  <2>6. Pick({j}) = j
    OBVIOUS
  <2> HIDE DEF In, Pick
  <2>7. phaseBar[jarg[j]] = Stage(j)
    BY <1>2, <2>1, <2>3, <2>4
  <2>8. resultBar[jarg[j]] = IF HasResult(Stage(j)) THEN jret[j] ELSE NoResult
    BY <1>2, <2>1, <2>5, <2>6
  <2> QED BY <2>7, <2>8
<1>4. ASSUME NEW a \in Args, \A j \in Jobs : Stage(j) # "free" => jarg[j] # a
      PROVE  phaseBar[a] = "free" /\ resultBar[a] = NoResult
  <2>1. \A s \in {"queued", "started", "computed", "finished"} : In({s}, a) = {}
    BY <1>4
  <2>2. In({"computed", "finished"}, a) = {}
    BY <1>4
  <2> HIDE DEF In
  <2> QED BY <1>2, <2>1, <2>2
<1> QED BY <1>3, <1>4 DEF BarsByJob

LEMMA BarsOfJobsNext == IInv' => BarsByJob'
BY BarsOfJobs, PTL

LEMMA BarsAreFunctions ==
  /\ phaseBar = [a \in Args |-> phaseBar[a]] /\ resultBar = [a \in Args |-> resultBar[a]]
  /\ phaseBar' = [a \in Args |-> phaseBar'[a]] /\ resultBar' = [a \in Args |-> resultBar'[a]]
BY DEF phaseBar, resultBar

(* Two functions on Args that differ at a only.                            *)
LEMMA ChangesAt ==
  ASSUME NEW f, NEW g, NEW a \in Args, NEW v,
         f = [b \in Args |-> f[b]], g = [b \in Args |-> g[b]],
         g[a] = v, \A b \in Args \ {a} : g[b] = f[b]
  PROVE  g = [f EXCEPT ![a] = v] /\ (v = f[a] => g = f)
OBVIOUS

(* The stage of one job changes, and with it the phase of its argument.    *)
LEMMA OneJobMoves ==
  ASSUME IInv, IInv', NEW e \in Jobs, Live(e), jarg'[e] = jarg[e],
         \A x \in Jobs \ {e} :
            /\ Stage(x)' = Stage(x)
            /\ Stage(x) # "free" => jarg'[x] = jarg[x] /\ jret'[x] = jret[x]
  PROVE  LET a == jarg[e]
         IN  /\ a \in Args
             /\ phaseBar[a] = Stage(e)
             /\ phaseBar' = [phaseBar EXCEPT ![a] = Stage(e)']
             /\ resultBar[a] = IF HasResult(Stage(e)) THEN jret[e] ELSE NoResult
             /\ resultBar' = [resultBar EXCEPT ![a] =
                                IF HasResult(Stage(e)') THEN jret'[e] ELSE NoResult]
             /\ UNCHANGED jret /\ HasResult(Stage(e)') = HasResult(Stage(e)) =>
                   resultBar' = resultBar
<1> DEFINE a == jarg[e]
<1>1. a \in Args
  BY LiveArgOK
<1>2. BarsByJob /\ BarsByJob'
  BY BarsOfJobs, BarsOfJobsNext
<1>3. \A x \in Jobs : Stage(x) # "free" /\ jarg[x] = a => x = e
  BY StageLive DEF IInv, ArgsDistinct
<1>4. phaseBar[a] = Stage(e) /\ resultBar[a] = IF HasResult(Stage(e)) THEN jret[e] ELSE NoResult
  <2>1. CASE Stage(e) # "free"
    BY <1>2, <2>1 DEF BarsByJob
  <2>2. CASE Stage(e) = "free"
    <3>1. \A x \in Jobs : Stage(x) # "free" => jarg[x] # a
      BY <1>3, <2>2
    <3> QED BY <1>1, <1>2, <2>2, <3>1 DEF BarsByJob, HasResult
  <2> QED BY <2>1, <2>2
<1>5. /\ phaseBar'[a] = Stage(e)'
      /\ resultBar'[a] = IF HasResult(Stage(e)') THEN jret'[e] ELSE NoResult
  <2>1. CASE Stage(e)' # "free"
    BY <1>2, <2>1 DEF BarsByJob
  <2>2. CASE Stage(e)' = "free"
    <3>1. \A x \in Jobs : Stage(x)' # "free" => jarg'[x] # a
      BY <1>3, <2>2
    <3> QED BY <1>1, <1>2, <2>2, <3>1 DEF BarsByJob, HasResult
  <2> QED BY <2>1, <2>2
<1>6. ASSUME NEW b \in Args \ {a}
      PROVE  phaseBar'[b] = phaseBar[b] /\ resultBar'[b] = resultBar[b]
  <2>1. CASE \E x \in Jobs : Stage(x) # "free" /\ jarg[x] = b
    <3>1. PICK x \in Jobs : Stage(x) # "free" /\ jarg[x] = b
      BY <2>1
    <3>2. /\ x # e /\ Stage(x)' = Stage(x)
          /\ jarg'[x] = b /\ jret'[x] = jret[x]
      BY <3>1
    <3> QED BY <1>2, <3>1, <3>2 DEF BarsByJob
  <2>2. CASE \A x \in Jobs : Stage(x) # "free" => jarg[x] # b
    <3>1. \A x \in Jobs : Stage(x)' # "free" => jarg'[x] # b
      BY <2>2
    <3> QED BY <1>2, <2>2, <3>1 DEF BarsByJob
  <2> QED BY <2>1, <2>2
<1>7. phaseBar' = [phaseBar EXCEPT ![a] = Stage(e)']
  BY <1>1, <1>5, <1>6, BarsAreFunctions, ChangesAt
<1> DEFINE r == IF HasResult(Stage(e)') THEN jret'[e] ELSE NoResult
<1>8. resultBar' = [resultBar EXCEPT ![a] = r] /\ (r = resultBar[a] => resultBar' = resultBar)
  <2> HIDE DEF r
  <2>1. resultBar'[a] = r
    BY <1>5 DEF r
  <2> QED BY <1>1, <1>6, <2>1, BarsAreFunctions, ChangesAt
<1>9. UNCHANGED jret /\ HasResult(Stage(e)') = HasResult(Stage(e)) => r = resultBar[a]
  BY <1>4
<1> QED BY <1>1, <1>4, <1>7, <1>8, <1>9

(* The stage of no job changes.                                            *)
LEMMA NoJobMoves ==
  ASSUME IInv, IInv',
         \A x \in Jobs :
            /\ Stage(x)' = Stage(x)
            /\ Stage(x) # "free" => jarg'[x] = jarg[x] /\ jret'[x] = jret[x]
  PROVE  phaseBar' = phaseBar /\ resultBar' = resultBar
<1>1. BarsByJob /\ BarsByJob'
  BY BarsOfJobs, BarsOfJobsNext
<1>2. ASSUME NEW b \in Args
      PROVE  phaseBar'[b] = phaseBar[b] /\ resultBar'[b] = resultBar[b]
  <2>1. CASE \E x \in Jobs : Stage(x) # "free" /\ jarg[x] = b
    <3>1. PICK x \in Jobs : Stage(x) # "free" /\ jarg[x] = b
      BY <2>1
    <3> QED BY <1>1, <3>1 DEF BarsByJob
  <2>2. CASE \A x \in Jobs : Stage(x) # "free" => jarg[x] # b
    <3>1. \A x \in Jobs : Stage(x)' # "free" => jarg'[x] # b
      BY <2>2
    <3> QED BY <1>1, <2>2, <3>1 DEF BarsByJob
  <2> QED BY <2>1, <2>2
<1> QED BY <1>2, BarsAreFunctions

-----------------------------------------------------------------------------
(* Steps that move no job: thread p goes on to another program counter.    *)

LEMMA PcChanges ==
  ASSUME TypeOK, NEW p \in Procs, NEW to, pc' = [pc EXCEPT ![p] = to]
  PROVE  pc'[p] = to /\ \A q \in Procs : q # p => pc'[q] = pc[q]
BY DEF TypeOK

LEMMA QuietRefines ==
  ASSUME IInv, IInv', UNCHANGED <<list, job, jarg, jret>>, NEW p \in Procs,
         \/ pc' = pc
         \/ /\ pc[p] \notin {"exec", "push", "recycle"}
            /\ \E to \in {"top", "take", "exited", "idle", "pop", "scan", "join", "closed"} :
                  pc' = [pc EXCEPT ![p] = to]
  PROVE  UNCHANGED <<phaseBar, queueBar, resultBar>>
<1>1. \A q \in Procs, at \in {"exec", "push", "recycle"} : pc'[q] = at <=> pc[q] = at
  BY PcChanges DEF IInv
<1>2. ASSUME NEW x \in Jobs PROVE Stage(x)' = Stage(x)
  BY <1>1, ProcFacts DEF Stage, InList, Holds
<1>3. phaseBar' = phaseBar /\ resultBar' = resultBar
  BY <1>2, NoJobMoves
<1>4. queueBar' = queueBar
  BY DEF queueBar
<1> QED BY <1>3, <1>4

-----------------------------------------------------------------------------
(* Steps that move a job.                                                  *)

(* WorkerTake starts the oldest task.                                      *)
LEMMA TakeRefines ==
  ASSUME IInv, IInv', NEW w \in Workers, TakeAt(w, "run", 1), list["run"] # <<>>,
         pc[w] = "take", pc' = [pc EXCEPT ![w] = "exec"],
         UNCHANGED <<exit, jarg, jret, retval>>
  PROVE  Abstract!Start
<1> DEFINE s == list["run"]
<1>1. TypeOK /\ JobsConserved /\ w \in Procs /\ "run" \in Lists /\ job[w] = NoJob
  BY ProcFacts DEF IInv, HolderPC, Lists
<1>2. s \in Seq(Jobs) /\ Len(s) \in Nat /\ 1 \in 1..Len(s)
  BY <1>1 DEF TypeOK
<1>0. PICK e \in Jobs : e = s[1]
  BY <1>2
<1>3. /\ InList(e, "run")
      /\ \A x \in Jobs, m \in Lists : InList(x, m)' <=> InList(x, m) /\ ~(m = "run" /\ x = e)
      /\ \A x \in Jobs, q \in Procs : Holds(q, x)' <=> Holds(q, x) \/ (q = w /\ x = e)
      /\ \A m \in Lists : m # "run" => ~InList(e, m)
      /\ \A q \in Procs : ~Holds(q, e)
      /\ \A x \in Jobs : ~Holds(w, x)
  <2>1. \A x \in Jobs : ~Holds(w, x)
    BY <1>1, ProcFacts DEF Holds
  <2> QED BY <1>0, <1>1, <1>2, <2>1, TakeEffect
<1>4. pc'[w] = "exec" /\ \A q \in Procs : q # w => pc'[q] = pc[q]
  BY <1>1, PcChanges
<1>5. \A x \in Jobs \ {e} : Stage(x)' = Stage(x)
  BY <1>1, <1>3, <1>4, ProcFacts DEF Stage, Lists
<1>6. Stage(e) = "queued" /\ Stage(e)' = "started" /\ Live(e)
  BY <1>1, <1>3, <1>4 DEF Stage, Live
<1>7. /\ jarg[e] \in Args
      /\ phaseBar' = [phaseBar EXCEPT ![jarg[e]] = "started"]
      /\ resultBar' = resultBar
  BY <1>3, <1>5, <1>6, OneJobMoves DEF HasResult
<1>8. /\ queueBar # <<>> /\ Head(queueBar) = jarg[e] /\ queueBar' = Tail(queueBar)
  <2>1. \A x \in Jobs : jarg[x] \in Args \cup {NoArg}
    BY <1>1 DEF TypeOK
  <2>2. queueBar \in Seq(Args \cup {NoArg}) /\ Len(queueBar) = Len(s)
    BY <1>2, <2>1 DEF queueBar
  <2>3. \A i \in 1..Len(s) : queueBar[i] = jarg[s[i]]
    BY DEF queueBar
  <2>4. list'["run"] = RemoveAt(s, 1)
    BY <1>1 DEF TakeAt, TypeOK
  <2>5. /\ Len(list'["run"]) = Len(s) - 1
        /\ \A i \in 1..(Len(s) - 1) : list'["run"][i] = s[i + 1]
    <3>1. /\ Len(RemoveAt(s, 1)) = Len(s) - 1
          /\ \A i \in 1..(Len(s) - 1) :
                RemoveAt(s, 1)[i] = IF i < 1 THEN s[i] ELSE s[i + 1]
      BY <1>2, RemoveAtFacts
    <3> HIDE DEF s
    <3> QED BY <2>4, <3>1
  <2>6. /\ queueBar' \in Seq(Args \cup {NoArg}) /\ Len(queueBar') = Len(s) - 1
        /\ \A i \in 1..(Len(s) - 1) : queueBar'[i] = jarg[s[i + 1]]
    <3>1. queueBar' = [i \in 1..(Len(s) - 1) |-> jarg[s[i + 1]]]
      BY <2>5 DEF queueBar
    <3>2. \A i \in 1..(Len(s) - 1) : jarg[s[i + 1]] \in Args \cup {NoArg}
      BY <1>2, <2>1
    <3>3. Len(s) - 1 \in Nat
      BY <1>2
    <3> HIDE DEF s
    <3> QED BY <3>1, <3>2, <3>3
  <2> HIDE DEF s
  <2>7. /\ queueBar # <<>> /\ Tail(queueBar) \in Seq(Args \cup {NoArg})
        /\ Len(Tail(queueBar)) = Len(s) - 1
        /\ \A i \in 1..(Len(s) - 1) : Tail(queueBar)[i] = queueBar[i + 1]
    <3>1. queueBar # <<>>
      BY <1>2, <2>2
    <3> QED BY <2>2, <3>1, HeadTailProperties
  <2>8. queueBar' = Tail(queueBar)
    <3>1. \A i \in 1..(Len(s) - 1) : queueBar'[i] = Tail(queueBar)[i]
      BY <1>2, <2>3, <2>6, <2>7
    <3> QED BY <2>6, <2>7, <3>1, SeqEqual
  <2>9. queueBar # <<>> /\ Head(queueBar) = jarg[s[1]]
    BY <1>2, <2>2, <2>3
  <2> QED BY <1>0, <2>8, <2>9 DEF s
<1> DEFINE Running == {a \in Args : phaseBar[a] \in {"started", "computed"}}
<1>9. Cardinality(Running) < Threads
  <2> DEFINE Others == Workers \ {w}
             by(a) == CHOOSE v \in Others : job[v] \in Jobs /\ jarg[job[v]] = a
             f == [a \in Running |-> by(a)]
  <2>1. ASSUME NEW a \in Running
        PROVE  \E v \in Others : job[v] \in Jobs /\ jarg[job[v]] = a
    <3>1. PICK x \in Jobs : jarg[x] = a /\ Stage(x) \in {"started", "computed"}
      BY BarsOfJobs DEF BarsByJob
    <3>2. PICK v \in Workers : pc[v] \in {"exec", "push"} /\ Holds(v, x)
      BY <3>1 DEF Stage
    <3> QED BY <3>1, <3>2 DEF Holds
  <2>2. \A a \in Running : by(a) \in Others /\ jarg[job[by(a)]] = a
    BY <2>1
  <2> HIDE DEF by
  <2>3. f \in Injection(Running, Others)
    BY <2>2 DEF Injection, IsInjective
  <2>4. IsFiniteSet(Workers) /\ Cardinality(Workers) = Threads
    BY JobsFinite DEF Workers, Jobs
  <2>5. IsFiniteSet(Others) /\ Cardinality(Others) = Threads - 1
    BY <2>4, FS_RemoveElement
  <2> HIDE DEF f, Others, Running
  <2>6. Cardinality(Running) <= Cardinality(Others) /\ IsFiniteSet(Running)
    BY <2>3, <2>5, FS_Injection
  <2>7. Cardinality(Running) \in Nat
    BY <2>6, FS_CardinalityType
  <2> QED BY <2>5, <2>6, <2>7, ProcFacts
<1>11. Abstract!Cardinality(Running) = Cardinality(Running)
  BY DEF Abstract!Cardinality, Cardinality
<1>10. UNCHANGED <<resultBar, retval, ~exit>>
  BY <1>7
<1> QED BY <1>7, <1>8, <1>9, <1>10, <1>11 DEF Abstract!Start

(* WorkerExec computes the result of a task.                               *)
LEMMA ExecRefines ==
  ASSUME IInv, IInv', NEW w \in Workers, WorkerExec(w)
  PROVE  \E a \in Args : Abstract!Compute(a)
<1>2. /\ UNCHANGED <<exit, list, jarg, job, retval>>
      /\ pc[w] = "exec" /\ pc' = [pc EXCEPT ![w] = "push"]
      /\ TypeOK /\ JobsConserved /\ w \in Procs /\ job[w] \in Jobs
  BY ProcFacts DEF WorkerExec, Ready, clientVars, IInv, HolderPC, TypeOK
<1>0. PICK e \in Jobs : e = job[w]
  BY <1>2
<1>1. PICK r \in Results : jret' = [jret EXCEPT ![e] = r]
  BY <1>0 DEF WorkerExec
<1>3. pc'[w] = "push" /\ \A q \in Procs : q # w => pc'[q] = pc[q]
  BY <1>2, PcChanges
<1>4. /\ jret'[e] = r /\ \A x \in Jobs \ {e} : jret'[x] = jret[x]
  BY <1>1, <1>2 DEF TypeOK
<1>5. /\ Holds(w, e) /\ Live(e)
      /\ \A m \in Lists : ~InList(e, m)
      /\ \A q \in Procs : Holds(q, e) => q = w
      /\ \A x \in Jobs \ {e} : ~Holds(w, x)
  BY <1>0, <1>2 DEF Holds, Live, JobsConserved
<1>6. ASSUME NEW x \in Jobs
      PROVE  /\ \A m \in Lists : InList(x, m)' <=> InList(x, m)
             /\ \A q \in Procs : Holds(q, x)' <=> Holds(q, x)
  BY <1>2 DEF InList, Holds
<1>7. \A x \in Jobs \ {e} : Stage(x)' = Stage(x)
  BY <1>3, <1>5, <1>6, ProcFacts DEF Stage, Lists
<1>8. Stage(e) = "started" /\ Stage(e)' = "computed"
  BY <1>2, <1>3, <1>5, <1>6, ProcFacts DEF Stage, Lists
<1>9. /\ jarg[e] \in Args /\ phaseBar[jarg[e]] = "started"
      /\ phaseBar' = [phaseBar EXCEPT ![jarg[e]] = "computed"]
      /\ resultBar' = [resultBar EXCEPT ![jarg[e]] = r]
  BY <1>2, <1>4, <1>5, <1>7, <1>8, OneJobMoves DEF HasResult
<1>10. queueBar' = queueBar
  BY <1>2 DEF queueBar
<1> QED BY <1>2, <1>9, <1>10 DEF Abstract!Compute

(* WorkerPush finishes it.                                                 *)
LEMMA FinishRefines ==
  ASSUME IInv, IInv', NEW w \in Workers, WorkerPush(w)
  PROVE  \E a \in Args : Abstract!Finish(a)
<1>1. /\ UNCHANGED <<exit, jarg, jret, retval>>
      /\ pc[w] = "push" /\ job[w] \in Jobs
      /\ TypeOK /\ JobsConserved /\ w \in Procs /\ "done" \in Lists
  BY ProcFacts DEF WorkerPush, Ready, clientVars, IInv, HolderPC, TypeOK, Lists
<1>2. ~IsFull("done")
  BY <1>1, NotFull
<1>3. /\ list' = [list EXCEPT !["done"] = Append(@, job[w])]
      /\ job' = [job EXCEPT ![w] = NoJob]
      /\ pc' = [pc EXCEPT ![w] = "signal"]
  BY <1>2 DEF WorkerPush, Push
<1>4. PICK e \in Jobs : e = job[w]
  BY <1>1
<1>5. /\ \A x \in Jobs, m \in Lists : InList(x, m)' <=> InList(x, m) \/ (m = "done" /\ x = e)
      /\ \A x \in Jobs, q \in Procs : Holds(q, x)' <=> Holds(q, x) /\ q # w
      /\ \A x \in Jobs : Holds(w, x) <=> x = e
      /\ \A m \in Lists : ~InList(e, m)
      /\ \A q \in Procs : Holds(q, e) => q = w
  BY <1>1, <1>3, <1>4, PushEffect
<1>6. pc'[w] = "signal" /\ \A q \in Procs : q # w => pc'[q] = pc[q]
  BY <1>1, <1>3, PcChanges
<1>7. \A x \in Jobs \ {e} : Stage(x)' = Stage(x)
  BY <1>1, <1>5, <1>6, ProcFacts DEF Stage, Lists
<1>8. Stage(e) = "computed" /\ Stage(e)' = "finished" /\ Live(e)
  BY <1>1, <1>5, <1>6, ProcFacts DEF Stage, Lists, Live
<1>9. /\ jarg[e] \in Args /\ phaseBar[jarg[e]] = "computed"
      /\ phaseBar' = [phaseBar EXCEPT ![jarg[e]] = "finished"]
      /\ resultBar' = resultBar
  BY <1>1, <1>7, <1>8, OneJobMoves DEF HasResult
<1>10. queueBar' = queueBar
  <2>1. list'["run"] = list["run"]
    BY <1>1, <1>3 DEF TypeOK, Lists
  <2> QED BY <1>1, <2>1 DEF queueBar
<1> QED BY <1>1, <1>9, <1>10 DEF Abstract!Finish

(* A job taken out of the free list is not yet submitted.                  *)
LEMMA PopRefines ==
  ASSUME IInv, IInv', RunPop
  PROVE  UNCHANGED <<phaseBar, queueBar, resultBar>>
<1> DEFINE n == Len(list["uninit"])
<1>1. /\ pc[Client] = "pop" /\ jret' = jret
      /\ TypeOK /\ JobsConserved /\ Client \in Procs /\ "uninit" \in Lists
      /\ job[Client] = NoJob
  BY ProcFacts DEF RunPop, Ready, IInv, HolderPC, Lists
<1>2. list["uninit"] # <<>>
  BY <1>1, FreeJobAtPop
<1>3. n \in 1..Len(list["uninit"]) /\ list["uninit"][n] \in Jobs
  BY <1>1, <1>2 DEF TypeOK
<1>4. PICK e \in Jobs : e = list["uninit"][n]
  BY <1>3
<1>5. /\ TakeAt(Client, "uninit", n)
      /\ jarg' = [jarg EXCEPT ![e] = callArg]
      /\ pc' = [pc EXCEPT ![Client] = "enqueue"]
  BY <1>2, <1>4 DEF RunPop, Last
<1>6. /\ \A x \in Jobs, m \in Lists : InList(x, m)' <=> InList(x, m) /\ ~(m = "uninit" /\ x = e)
      /\ \A x \in Jobs, q \in Procs : Holds(q, x)' <=> Holds(q, x) \/ (q = Client /\ x = e)
      /\ \A m \in Lists : m # "uninit" => ~InList(e, m)
      /\ \A q \in Procs : ~Holds(q, e)
  BY <1>1, <1>3, <1>4, <1>5, TakeEffect
<1>7. pc'[Client] = "enqueue" /\ \A q \in Procs : q # Client => pc'[q] = pc[q]
  BY <1>1, <1>5, PcChanges
<1>8. \A x \in Jobs : Stage(x)' = Stage(x)
  BY <1>1, <1>6, <1>7, ProcFacts DEF Stage, Lists
<1>9. Stage(e) = "free" /\ \A x \in Jobs \ {e} : jarg'[x] = jarg[x]
  BY <1>1, <1>5, <1>6, ProcFacts DEF Stage, Lists, TypeOK
<1>10. phaseBar' = phaseBar /\ resultBar' = resultBar
  BY <1>1, <1>8, <1>9, NoJobMoves
<1>11. queueBar' = queueBar
  <2>1. list'["run"] = list["run"] /\ list["run"] \in Seq(Jobs)
    BY <1>1, <1>5 DEF TakeAt, TypeOK, Lists
  <2>2. \A i \in 1..Len(list["run"]) : list["run"][i] # e
    BY <1>6 DEF InList, Lists
  <2>3. \A i \in 1..Len(list["run"]) : jarg'[list["run"][i]] = jarg[list["run"][i]]
    BY <1>9, <2>1, <2>2
  <2> QED BY <2>1, <2>3 DEF queueBar
<1> QED BY <1>10, <1>11

(* RunPush submits it.                                                     *)
LEMMA SubmitRefines ==
  ASSUME IInv, IInv', ExitOK, RunPush
  PROVE  \E a \in Args : Abstract!Submit(a)
<1> DEFINE s == list["run"]
<1>1. /\ UNCHANGED <<exit, jarg, jret, retval>>
      /\ pc[Client] = "enqueue" /\ job[Client] \in Jobs /\ ~exit
      /\ TypeOK /\ JobsConserved /\ Client \in Procs /\ "run" \in Lists
  BY ProcFacts DEF RunPush, Ready, clientVars, IInv, HolderPC, TypeOK, Lists, ExitOK
<1>2. ~IsFull("run")
  BY <1>1, NotFull
<1>3. /\ list' = [list EXCEPT !["run"] = Append(@, job[Client])]
      /\ job' = [job EXCEPT ![Client] = NoJob]
      /\ pc' = [pc EXCEPT ![Client] = "enqSignal"]
  BY <1>2 DEF RunPush, Push
<1>4. PICK e \in Jobs : e = job[Client]
  BY <1>1
<1>5. /\ \A x \in Jobs, m \in Lists : InList(x, m)' <=> InList(x, m) \/ (m = "run" /\ x = e)
      /\ \A x \in Jobs, q \in Procs : Holds(q, x)' <=> Holds(q, x) /\ q # Client
      /\ \A x \in Jobs : Holds(Client, x) <=> x = e
      /\ \A m \in Lists : ~InList(e, m)
      /\ \A q \in Procs : Holds(q, e) => q = Client
  BY <1>1, <1>3, <1>4, PushEffect
<1>6. pc'[Client] = "enqSignal" /\ \A q \in Procs : q # Client => pc'[q] = pc[q]
  BY <1>1, <1>3, PcChanges
<1>7. \A x \in Jobs \ {e} : Stage(x)' = Stage(x)
  BY <1>1, <1>5, <1>6, ProcFacts DEF Stage, Lists
<1>8. Stage(e) = "free" /\ Stage(e)' = "queued" /\ Live(e)
  BY <1>1, <1>5, <1>6, ProcFacts DEF Stage, Lists, Live
<1>9. /\ jarg[e] \in Args /\ phaseBar[jarg[e]] = "free"
      /\ phaseBar' = [phaseBar EXCEPT ![jarg[e]] = "queued"]
      /\ resultBar' = resultBar
  BY <1>1, <1>7, <1>8, OneJobMoves DEF HasResult
<1>10. queueBar' = Append(queueBar, jarg[e])
  <2>1. s \in Seq(Jobs) /\ Len(s) \in Nat /\ list'["run"] = Append(s, e)
    BY <1>1, <1>3, <1>4 DEF TypeOK
  <2> HIDE DEF s
  <2>2. /\ Len(list'["run"]) = Len(s) + 1 /\ list'["run"][Len(s) + 1] = e
        /\ \A i \in 1..Len(s) : list'["run"][i] = s[i]
    BY <2>1
  <2>3. queueBar = [i \in 1..Len(s) |-> jarg[s[i]]]
    BY DEF queueBar, s
  <2>4. queueBar' = [i \in 1..(Len(s) + 1) |-> jarg[list'["run"][i]]]
    BY <1>1, <2>2 DEF queueBar
  <2>5. \A x \in Jobs : jarg[x] \in Args \cup {NoArg}
    BY <1>1 DEF TypeOK
  <2>6. queueBar \in Seq(Args \cup {NoArg}) /\ Len(queueBar) = Len(s)
    BY <2>1, <2>3, <2>5
  <2>7. queueBar' \in Seq(Args \cup {NoArg}) /\ Len(queueBar') = Len(s) + 1
    <3>1. \A i \in 1..(Len(s) + 1) : list'["run"][i] \in Jobs
      BY <2>1, <2>2
    <3> QED BY <2>1, <2>4, <2>5, <3>1
  <2>8. /\ Append(queueBar, jarg[e]) \in Seq(Args \cup {NoArg})
        /\ Len(Append(queueBar, jarg[e])) = Len(s) + 1
        /\ \A i \in 1..(Len(s) + 1) :
              Append(queueBar, jarg[e])[i] = IF i = Len(s) + 1 THEN jarg[e] ELSE queueBar[i]
    BY <2>1, <2>5, <2>6
  <2>9. \A i \in 1..(Len(s) + 1) : queueBar'[i] = Append(queueBar, jarg[e])[i]
    BY <2>1, <2>2, <2>3, <2>4, <2>8
  <2> QED BY <2>7, <2>8, <2>9, SeqEqual
<1> QED BY <1>1, <1>9, <1>10 DEF Abstract!Submit

(* A task stays finished while the client carries its job from the done    *)
(* list to the point where it reads ret.                                   *)
LEMMA ScanRefines ==
  ASSUME IInv, IInv', WaitScan, Matches(callArg) # {}
  PROVE  UNCHANGED <<phaseBar, queueBar, resultBar>>
<1>1. /\ UNCHANGED <<jarg, jret>> /\ pc[Client] = "scan"
      /\ TypeOK /\ JobsConserved /\ Client \in Procs /\ "done" \in Lists
      /\ job[Client] = NoJob
  BY ProcFacts DEF WaitScan, Ready, IInv, HolderPC, Lists
<1>2. PICK i \in 1..Len(list["done"]) :
        TakeAt(Client, "done", i) /\ pc' = [pc EXCEPT ![Client] = "recycle"]
  BY DEF WaitScan, Matches
<1>3. PICK e \in Jobs : e = list["done"][i]
  BY <1>1 DEF TypeOK
<1>4. /\ InList(e, "done")
      /\ \A x \in Jobs, m \in Lists : InList(x, m)' <=> InList(x, m) /\ ~(m = "done" /\ x = e)
      /\ \A x \in Jobs, q \in Procs : Holds(q, x)' <=> Holds(q, x) \/ (q = Client /\ x = e)
      /\ \A m \in Lists : m # "done" => ~InList(e, m)
      /\ \A q \in Procs : ~Holds(q, e)
      /\ \A x \in Jobs : ~Holds(Client, x)
  <2>1. \A x \in Jobs : ~Holds(Client, x)
    BY <1>1, ProcFacts DEF Holds
  <2> QED BY <1>1, <1>2, <1>3, <2>1, TakeEffect
<1>5. pc'[Client] = "recycle" /\ \A q \in Procs : q # Client => pc'[q] = pc[q]
  BY <1>1, <1>2, PcChanges
<1>6. ASSUME NEW x \in Jobs PROVE Stage(x)' = Stage(x)
  <2>1. CASE x = e
    <3>1. Stage(x) = "finished"
      BY <1>1, <1>4, <2>1, ProcFacts DEF Stage, Lists
    <3>2. Stage(x)' = "finished"
      BY <1>1, <1>4, <1>5, <2>1, ProcFacts DEF Stage, Lists
    <3> QED BY <3>1, <3>2
  <2>2. CASE x # e
    BY <1>1, <1>4, <1>5, <2>2, ProcFacts DEF Stage, Lists
  <2> QED BY <2>1, <2>2
<1>7. phaseBar' = phaseBar /\ resultBar' = resultBar
  BY <1>1, <1>6, NoJobMoves
<1>8. queueBar' = queueBar
  <2>1. list'["run"] = list["run"]
    BY <1>1, <1>2 DEF TakeAt, TypeOK, Lists
  <2> QED BY <1>1, <2>1 DEF queueBar
<1> QED BY <1>7, <1>8

(* WaitPush reads it: the task is collected.                               *)
LEMMA CollectRefines ==
  ASSUME IInv, IInv', ExitOK, WaitPush
  PROVE  \E a \in Args : Abstract!Collect(a)
<1>1. /\ UNCHANGED <<exit, jarg, jret>>
      /\ pc[Client] = "recycle" /\ job[Client] \in Jobs /\ ~exit
      /\ TypeOK /\ JobsConserved /\ Client \in Procs /\ "uninit" \in Lists
  BY ProcFacts DEF WaitPush, Ready, clientVars, IInv, HolderPC, TypeOK, Lists, ExitOK
<1>2. ~IsFull("uninit")
  BY <1>1, NotFull
<1>3. PICK e \in Jobs : e = job[Client]
  BY <1>1
<1>4. /\ list' = [list EXCEPT !["uninit"] = Append(@, job[Client])]
      /\ job' = [job EXCEPT ![Client] = NoJob]
      /\ pc' = [pc EXCEPT ![Client] = "recSignal"]
      /\ retval' = jret[e]
  BY <1>2, <1>3 DEF WaitPush, Push, Ret
<1>5. /\ \A x \in Jobs, m \in Lists : InList(x, m)' <=> InList(x, m) \/ (m = "uninit" /\ x = e)
      /\ \A x \in Jobs, q \in Procs : Holds(q, x)' <=> Holds(q, x) /\ q # Client
      /\ \A x \in Jobs : Holds(Client, x) <=> x = e
      /\ \A m \in Lists : ~InList(e, m)
      /\ \A q \in Procs : Holds(q, e) => q = Client
  BY <1>1, <1>3, <1>4, PushEffect
<1>6. pc'[Client] = "recSignal" /\ \A q \in Procs : q # Client => pc'[q] = pc[q]
  BY <1>1, <1>4, PcChanges
<1>7. \A x \in Jobs \ {e} : Stage(x)' = Stage(x)
  BY <1>1, <1>5, <1>6, ProcFacts DEF Stage, Lists
<1>8. Stage(e) = "finished" /\ Stage(e)' = "free" /\ Live(e)
  BY <1>1, <1>5, <1>6, ProcFacts DEF Stage, Lists, Live
<1>9. /\ jarg[e] \in Args /\ phaseBar[jarg[e]] = "finished"
      /\ phaseBar' = [phaseBar EXCEPT ![jarg[e]] = "free"]
      /\ resultBar[jarg[e]] = jret[e]
      /\ resultBar' = [resultBar EXCEPT ![jarg[e]] = NoResult]
  BY <1>1, <1>7, <1>8, OneJobMoves DEF HasResult
<1>10. queueBar' = queueBar
  <2>1. list'["run"] = list["run"]
    BY <1>1, <1>4 DEF TypeOK, Lists
  <2> QED BY <1>1, <2>1 DEF queueBar
<1> QED BY <1>1, <1>4, <1>9, <1>10 DEF Abstract!Collect

-----------------------------------------------------------------------------
(* All steps.                                                              *)

LEMMA InitRefines == Init => Abstract!Init /\ ExitOK
<1> SUFFICES ASSUME Init PROVE Abstract!Init /\ ExitOK
  OBVIOUS
<1>1. IInv /\ BarsByJob
  BY InitIInv, BarsOfJobs
<1>2. list["run"] = <<>> /\ list["done"] = <<>>
  BY DEF Init, Lists
<1>3. \A p \in Procs : pc[p] \in {"idle", "top"}
  BY DEF Init
<1>4. \A j \in Jobs : Stage(j) = "free"
  BY <1>2, <1>3, ProcFacts DEF Stage, InList
<1>5. \A a \in Args : phaseBar[a] = "free" /\ resultBar[a] = NoResult
  BY <1>1, <1>4 DEF BarsByJob
<1>6. phaseBar = [a \in Args |-> "free"] /\ resultBar = [a \in Args |-> NoResult]
  BY <1>5, BarsAreFunctions
<1>7. queueBar = <<>>
  BY <1>2 DEF queueBar
<1>8. pc[Client] = "idle" /\ ~exit /\ retval = NoResult
  BY ProcFacts DEF Init
<1> QED BY <1>6, <1>7, <1>8 DEF Abstract!Init, ExitOK

LEMMA NextExit == TypeOK /\ ExitOK /\ [Next]_vars => ExitOK'
<1> SUFFICES ASSUME TypeOK, ExitOK, [Next]_vars PROVE ExitOK'
  OBVIOUS
<1>1. ASSUME NEW w \in Workers, WorkerStep(w)
      PROVE  exit' = exit /\ pc'[Client] = pc[Client]
  <2>1. exit' = exit /\ (pc' = pc \/ \E to \in WorkerPCs : pc' = [pc EXCEPT ![w] = to])
    BY <1>1 DEF WorkerStep, WorkerLoop, WorkerTake, WorkerExec, WorkerPush, WorkerSignal,
                Push, PushSignal, WorkerPCs
  <2> QED BY <2>1, ProcFacts DEF TypeOK
<1> DEFINE Calls == {"pop", "enqueue", "enqSignal", "scan", "recycle", "recSignal"}
<1>2. ASSUME ClientStep
      PROVE  /\ exit' = exit
             /\ \/ pc[Client] \in Calls /\ pc'[Client] \in Calls \cup {"idle"}
                \/ pc[Client] = "join" /\ pc'[Client] = "closed"
  <2>1. /\ exit' = exit
        /\ \/ /\ pc[Client] \in Calls
              /\ pc' = pc \/ \E to \in Calls \cup {"idle"} : pc' = [pc EXCEPT ![Client] = to]
           \/ pc[Client] = "join" /\ pc' = [pc EXCEPT ![Client] = "closed"]
    BY <1>2 DEF ClientStep, RunPop, RunPush, RunSignal, WaitScan, WaitPush, WaitSignal,
                DeleteJoin, Push, PushSignal, Ready
  <2> QED BY <2>1, ProcFacts DEF TypeOK
<1>3. ASSUME ClientCall
      PROVE  /\ pc[Client] = "idle"
             /\ \/ exit' = exit /\ pc'[Client] \in {"pop", "scan"}
                \/ exit' = TRUE /\ pc'[Client] = "join"
  BY <1>3, ProcFacts DEF ClientCall, RunCall, WaitCall, DeleteCall, Ready, TypeOK
<1>4. ASSUME \/ \E p \in Procs : SpuriousWakeup(p)
             \/ Terminated
             \/ UNCHANGED vars
      PROVE  exit' = exit /\ pc' = pc
  BY <1>4 DEF SpuriousWakeup, Terminated, vars
<1>5. CASE /\ exit' = exit
           /\ pc'[Client] \in {"join", "closed"} <=> pc[Client] \in {"join", "closed"}
  BY <1>5 DEF ExitOK
<1>6. CASE exit' = TRUE /\ pc'[Client] = "join"
  BY <1>6 DEF ExitOK
<1> QED BY <1>1, <1>2, <1>3, <1>4, <1>5, <1>6 DEF Next

(* A step that starts, computes or finishes nothing, and submits and       *)
(* collects nothing.                                                       *)
Unseen == UNCHANGED <<phaseBar, queueBar, resultBar, retval, exit>>

LEMMA WorkerRefines ==
  ASSUME IInv, IInv', NEW w \in Workers, WorkerStep(w)
  PROVE  Abstract!Next \/ Unseen
<1>1. CASE WorkerLoop(w) \/ WorkerSignal(w)
  <2>1. /\ UNCHANGED <<list, job, jarg, jret, retval, exit>>
        /\ pc[w] \in {"top", "signal"}
        /\ \E to \in {"top", "take", "exited"} : pc' = [pc EXCEPT ![w] = to]
    BY <1>1 DEF WorkerLoop, WorkerSignal, PushSignal, Ready, clientVars
  <2> QED BY <2>1, QuietRefines, ProcFacts DEF Unseen
<1>2. CASE WorkerTake(w)
  <2>1. UNCHANGED <<jarg, jret, retval, exit>> /\ pc[w] = "take"
    BY <1>2 DEF WorkerTake, Ready, clientVars
  <2>2. \/ list["run"] # <<>> /\ TakeAt(w, "run", 1) /\ pc' = [pc EXCEPT ![w] = "exec"]
        \/ UNCHANGED <<list, job>> /\ (pc' = pc \/ pc' = [pc EXCEPT ![w] = "top"])
    BY <1>2 DEF WorkerTake, Oldest
  <2>3. CASE list["run"] # <<>> /\ TakeAt(w, "run", 1) /\ pc' = [pc EXCEPT ![w] = "exec"]
    <3>1. Abstract!Start
      BY <2>1, <2>3, TakeRefines
    <3> QED BY <3>1 DEF Abstract!Next
  <2>4. CASE UNCHANGED <<list, job>> /\ (pc' = pc \/ pc' = [pc EXCEPT ![w] = "top"])
    BY <2>1, <2>4, QuietRefines, ProcFacts DEF Unseen
  <2> QED BY <2>2, <2>3, <2>4
<1>3. CASE WorkerExec(w)
  BY <1>3, ExecRefines DEF Abstract!Next
<1>4. CASE WorkerPush(w)
  BY <1>4, FinishRefines DEF Abstract!Next
<1> QED BY <1>1, <1>2, <1>3, <1>4 DEF WorkerStep

LEMMA ClientRefines ==
  ASSUME IInv, IInv', ExitOK, ClientStep
  PROVE  Abstract!Next \/ Unseen
<1>1. CASE RunSignal \/ WaitSignal \/ DeleteJoin
  <2>1. /\ UNCHANGED <<list, job, jarg, jret, retval, exit>>
        /\ pc[Client] \in {"enqSignal", "recSignal", "join"}
        /\ \E to \in {"idle", "closed"} : pc' = [pc EXCEPT ![Client] = to]
    BY <1>1 DEF RunSignal, WaitSignal, DeleteJoin, PushSignal, Ready, clientVars
  <2> QED BY <2>1, QuietRefines, ProcFacts DEF Unseen
<1>2. CASE RunPop
  <2>1. UNCHANGED <<retval, exit>>
    BY <1>2 DEF RunPop, clientVars
  <2> QED BY <1>2, <2>1, PopRefines DEF Unseen
<1>3. CASE RunPush
  BY <1>3, SubmitRefines DEF Abstract!Next
<1>4. CASE WaitScan
  <2>1. UNCHANGED <<jarg, jret, retval, exit>>
    BY <1>4 DEF WaitScan, clientVars
  <2>2. CASE Matches(callArg) = {}
    <3>1. UNCHANGED <<list, job, pc>>
      BY <1>4, <2>2 DEF WaitScan
    <3> QED BY <2>1, <3>1, QuietRefines, ProcFacts DEF Unseen
  <2>3. CASE Matches(callArg) # {}
    BY <1>4, <2>1, <2>3, ScanRefines DEF Unseen
  <2> QED BY <2>2, <2>3
<1>5. CASE WaitPush
  BY <1>5, CollectRefines DEF Abstract!Next
<1> QED BY <1>1, <1>2, <1>3, <1>4, <1>5 DEF ClientStep

LEMMA CallRefines ==
  ASSUME IInv, IInv', ExitOK, ClientCall
  PROVE  Abstract!Next \/ Unseen
<1>1. /\ UNCHANGED <<list, job, jarg, jret, retval>> /\ pc[Client] = "idle"
      /\ \E to \in {"pop", "scan", "join"} : pc' = [pc EXCEPT ![Client] = to]
      /\ exit' = exit \/ exit' = TRUE
  BY DEF ClientCall, RunCall, WaitCall, DeleteCall, Ready, clientVars
<1>2. UNCHANGED <<phaseBar, queueBar, resultBar>>
  BY <1>1, QuietRefines, ProcFacts
<1>3. CASE exit' = exit
  BY <1>1, <1>2, <1>3 DEF Unseen
<1>4. CASE exit' = TRUE
  <2>1. exit = FALSE
    BY <1>1 DEF ExitOK, IInv, TypeOK
  <2>2. Abstract!Shutdown
    BY <1>1, <1>2, <1>4, <2>1 DEF Abstract!Shutdown
  <2> QED BY <2>2 DEF Abstract!Next
<1> QED BY <1>1, <1>3, <1>4

LEMMA NextRefines ==
  IInv /\ IInv' /\ ExitOK /\ [Next]_vars => [Abstract!Next]_(Abstract!vars)
<1> SUFFICES ASSUME IInv, IInv', ExitOK, [Next]_vars PROVE Abstract!Next \/ Unseen
  BY DEF Abstract!vars, Unseen
<1>1. CASE \E w \in Workers : WorkerStep(w)
  BY <1>1, WorkerRefines
<1>2. CASE ClientStep
  BY <1>2, ClientRefines
<1>3. CASE ClientCall
  BY <1>3, CallRefines
<1>4. CASE (\E p \in Procs : SpuriousWakeup(p)) \/ Terminated \/ UNCHANGED vars
  <2>1. UNCHANGED <<list, job, jarg, jret, pc, retval, exit>>
    BY <1>4 DEF SpuriousWakeup, Terminated, vars, clientVars
  <2> QED BY <2>1, QuietRefines, ProcFacts DEF Unseen
<1> QED BY <1>1, <1>2, <1>3, <1>4 DEF Next

(* However many threads and arguments there are, the pool does what its    *)
(* caller is promised: tasks start in the order they were submitted, at    *)
(* most one per thread, each is finished once, a wait returns the result   *)
(* of its own argument, and nothing is submitted or collected after        *)
(* delete.                                                                 *)
THEOREM TaskPoolImplemented == Spec => ImplementsTaskPool
<1>1. IInv => TypeOK
  BY DEF IInv
<1> QED BY <1>1, InitRefines, NextExit, NextRefines, InductiveInvariant, PTL
        DEF Spec, ImplementsTaskPool, Abstract!Spec
=============================================================================
