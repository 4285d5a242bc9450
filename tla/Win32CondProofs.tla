--------------------------- MODULE Win32CondProofs --------------------------
(***************************************************************************)
(* Win32Cond implements CondVar, for any number of threads.                *)
(*                                                                         *)
(* The inductive invariant follows one broadcast or signal: who holds      *)
(* mtx_broadcast (HolderOK), how far the waiters it released have come     *)
(* (BroadcastOK, SignalOK), and that otherwise nobody is on the way and    *)
(* neither semaphore nor event is left over (Quiet).  waiterCount is the   *)
(* number of threads that will still subtract themselves from it.          *)
(***************************************************************************)
EXTENDS Win32Cond, FiniteSetTheorems, TLAPS

Holding == {"release", "released", "look", "releaseOne", "releasedOne", "clear", "leave"}
PCs     == Holding \cup {"idle", "wait", "counted", "asleep", "awake", "tell", "relock",
                         "broadcast", "signal"}

TypeOK ==
  /\ pc \in [Threads -> PCs]
  /\ mutex \in Threads \cup {NoThread}
  /\ mtxBroadcast \in Threads \cup {NoThread}
  /\ waiterCount \in Nat /\ semaphore \in Nat
  /\ isBroadcast \in BOOLEAN /\ waitersDone \in BOOLEAN

MutexOK ==
  \A t \in Threads :
    /\ pc[t] \in {"wait", "counted"} => mutex = t
    /\ pc[t] \in {"asleep", "awake", "tell", "relock"} => mutex # t

HolderOK ==
  /\ \A t \in Threads : mtxBroadcast = t <=> pc[t] \in Holding
  /\ isBroadcast <=> \E t \in Threads : pc[t] \in {"released", "clear"}

At(where) == {t \in Threads : pc[t] = where}
Sleepers  == At("counted") \cup At("asleep")
Waiters   == Sleepers \cup At("awake")

CountOK == IsFiniteSet(Waiters) /\ waiterCount = Cardinality(Waiters)

(* One thread is at where, or nobody.                                      *)
OneAt(where) == \E t \in Threads : At(where) = {t}
NoneAt(where) == At(where) = {}

Quiet == semaphore = 0 /\ NoneAt("awake") /\ NoneAt("tell") /\ ~waitersDone

BroadcastOK ==
  \/ /\ waiterCount > 0 /\ semaphore = Cardinality(Sleepers)
     /\ NoneAt("tell") /\ ~waitersDone
  \/ waiterCount = 0 /\ semaphore = 0 /\ OneAt("tell") /\ ~waitersDone
  \/ waiterCount = 0 /\ semaphore = 0 /\ NoneAt("tell") /\ waitersDone

SignalOK ==
  \/ semaphore = 1 /\ NoneAt("awake") /\ NoneAt("tell") /\ ~waitersDone
  \/ semaphore = 0 /\ OneAt("awake") /\ NoneAt("tell") /\ ~waitersDone
  \/ semaphore = 0 /\ NoneAt("awake") /\ OneAt("tell") /\ ~waitersDone
  \/ semaphore = 0 /\ NoneAt("awake") /\ NoneAt("tell") /\ waitersDone

Released(where) == \E t \in Threads : pc[t] = where

ReleasesOK ==
  /\ Released("released") => BroadcastOK
  /\ Released("releasedOne") => SignalOK
  /\ ~Released("released") /\ ~Released("releasedOne") => Quiet
  /\ Released("clear") => waiterCount = 0

IInv == TypeOK /\ MutexOK /\ HolderOK /\ CountOK /\ ReleasesOK

-----------------------------------------------------------------------------
LEMMA InitIInv == Init => IInv
<1> SUFFICES ASSUME Init PROVE IInv
  OBVIOUS
<1> USE DEF Init
<1>1. TypeOK /\ MutexOK /\ HolderOK
  BY Win32CondAssumption DEF TypeOK, PCs, Holding, MutexOK, HolderOK
<1>2. Waiters = {}
  BY DEF Waiters, Sleepers, At
<1>3. CountOK
  BY <1>2, FS_EmptySet DEF CountOK
<1>4. ReleasesOK
  BY DEF ReleasesOK, Released, Quiet, NoneAt, At
<1> QED BY <1>1, <1>3, <1>4 DEF IInv

(* Nobody else is between lock and unlock of mtx_broadcast.                *)
LEMMA OneHolder ==
  ASSUME IInv, NEW t \in Threads, NEW u \in Threads, pc[t] \in Holding, pc[u] \in Holding
  PROVE  u = t
BY DEF IInv, HolderOK

LEMMA AtMoves ==
  ASSUME IInv, NEW t \in Threads, NEW to \in PCs, pc' = [pc EXCEPT ![t] = to]
  PROVE  /\ pc'[t] = to /\ \A u \in Threads \ {t} : pc'[u] = pc[u]
         /\ pc' \in [Threads -> PCs]
         /\ \A where : At(where)' = (At(where) \ {t}) \cup (IF where = to THEN {t} ELSE {})
<1>1. /\ pc'[t] = to /\ \A u \in Threads \ {t} : pc'[u] = pc[u]
      /\ pc' \in [Threads -> PCs]
  BY DEF IInv, TypeOK
<1>2. \A where : At(where)' = (At(where) \ {t}) \cup (IF where = to THEN {t} ELSE {})
  BY <1>1 DEF At
<1> QED BY <1>1, <1>2

(* The waiters are those between the two changes of waiterCount.           *)
LEMMA NoWaiters ==
  ASSUME IInv
  PROVE  /\ waiterCount = 0 <=> Waiters = {}
         /\ IsFiniteSet(Sleepers) /\ (Sleepers = {} <=> Cardinality(Sleepers) = 0)
         /\ waiterCount = 0 => Sleepers = {} /\ NoneAt("awake")
<1>1. IsFiniteSet(Sleepers)
  BY FS_Subset DEF IInv, CountOK, Waiters
<1>2. waiterCount = 0 <=> Waiters = {}
  BY FS_EmptySet DEF IInv, CountOK
<1>3. Sleepers = {} <=> Cardinality(Sleepers) = 0
  BY <1>1, FS_EmptySet
<1> QED BY <1>1, <1>2, <1>3 DEF Waiters, NoneAt

(* A step of a thread that is neither a counted waiter nor a releaser.     *)
Apart == PCs \ {"counted", "asleep", "awake", "tell", "released", "releasedOne", "clear"}

LEMMA ApartStep ==
  ASSUME IInv, NEW t \in Threads, NEW to \in Apart, pc[t] \in Apart,
         pc' = [pc EXCEPT ![t] = to], UNCHANGED cond
  PROVE  /\ CountOK' /\ ReleasesOK'
         /\ pc' \in [Threads -> PCs] /\ pc'[t] = to
         /\ \A u \in Threads \ {t} : pc'[u] = pc[u]
         /\ isBroadcast' <=> \E u \in Threads : pc'[u] \in {"released", "clear"}
<1>1. /\ pc'[t] = to /\ \A u \in Threads \ {t} : pc'[u] = pc[u]
      /\ pc' \in [Threads -> PCs]
      /\ \A where : At(where)' = (At(where) \ {t}) \cup (IF where = to THEN {t} ELSE {})
  BY AtMoves DEF Apart
<1>2. \A where \in {"counted", "asleep", "awake", "tell"} : At(where)' = At(where)
  BY <1>1 DEF At, Apart
<1>3. Waiters' = Waiters /\ Sleepers' = Sleepers
  BY <1>2 DEF Waiters, Sleepers
<1>4. CountOK'
  BY <1>3 DEF IInv, CountOK, cond
<1>5. \A where \in {"released", "releasedOne", "clear"} : Released(where)' <=> Released(where)
  BY <1>1 DEF Released, Apart
<1>6. ReleasesOK'
  BY <1>2, <1>3, <1>5
     DEF IInv, ReleasesOK, Quiet, BroadcastOK, SignalOK, NoneAt, OneAt, cond
<1>7. isBroadcast' <=> \E u \in Threads : pc'[u] \in {"released", "clear"}
  BY <1>5 DEF IInv, HolderOK, Released, cond
<1> QED BY <1>1, <1>4, <1>6, <1>7

LEMMA UserIInv ==
  ASSUME IInv, NEW t \in Threads, Lock(t) \/ Unlock(t) PROVE IInv'
<1> USE DEF IInv, cond, Lock, Unlock
<1>1. TypeOK' /\ MutexOK' /\ HolderOK'
  BY Win32CondAssumption DEF TypeOK, MutexOK, HolderOK
<1>2. CountOK' /\ ReleasesOK'
  BY DEF CountOK, Waiters, Sleepers, At, ReleasesOK, Released, Quiet, BroadcastOK, SignalOK,
         NoneAt, OneAt
<1> QED BY <1>1, <1>2

LEMMA ApartIInv ==
  ASSUME IInv, NEW t \in Threads,
         Call(t) \/ WaitRelock(t) \/ LockBroadcast(t) \/ NobodyThere(t) \/ SomebodyThere(t)
         \/ Leave(t)
  PROVE  IInv'
<1> USE DEF IInv
<1>1. PICK to \in Apart : pc[t] \in Apart /\ pc' = [pc EXCEPT ![t] = to] /\ UNCHANGED cond
  BY DEF Call, WaitRelock, LockBroadcast, NobodyThere, SomebodyThere, Leave, Goto, Apart, PCs,
         Holding
<1>2. /\ CountOK' /\ ReleasesOK'
      /\ pc' \in [Threads -> PCs] /\ pc'[t] = to
      /\ \A u \in Threads \ {t} : pc'[u] = pc[u]
      /\ isBroadcast' <=> \E u \in Threads : pc'[u] \in {"released", "clear"}
  BY <1>1, ApartStep
<1>3. mutex' \in Threads \cup {NoThread} /\ mtxBroadcast' \in Threads \cup {NoThread}
  BY DEF Call, WaitRelock, LockBroadcast, NobodyThere, SomebodyThere, Leave, TypeOK
<1>4. TypeOK'
  BY <1>1, <1>2, <1>3 DEF TypeOK, cond
<1>5. MutexOK' /\ \A u \in Threads : mtxBroadcast' = u <=> pc'[u] \in Holding
  <2>1. CASE Call(t)
    BY <1>2, <2>1 DEF Call, Goto, MutexOK, HolderOK, Holding, TypeOK
  <2>2. CASE WaitRelock(t)
    BY <1>2, <2>2, Win32CondAssumption DEF WaitRelock, Goto, MutexOK, HolderOK, Holding, TypeOK
  <2>3. CASE LockBroadcast(t)
    BY <1>2, <2>3, Win32CondAssumption
       DEF LockBroadcast, Goto, MutexOK, HolderOK, Holding, TypeOK
  <2>4. CASE NobodyThere(t) \/ SomebodyThere(t)
    BY <1>2, <2>4 DEF NobodyThere, SomebodyThere, Goto, MutexOK, HolderOK, Holding, TypeOK
  <2>5. CASE Leave(t)
    BY <1>2, <2>5, Win32CondAssumption DEF Leave, Goto, MutexOK, HolderOK, Holding, TypeOK
  <2> QED BY <2>1, <2>2, <2>3, <2>4, <2>5
<1> QED BY <1>2, <1>4, <1>5 DEF HolderOK

-----------------------------------------------------------------------------
(* The steps of waiters and releasers: what they leave of the types, the   *)
(* mutex and mtx_broadcast.                                                *)
LEMMA BaseStep ==
  ASSUME IInv, NEW t \in Threads, NEW to \in PCs, pc' = [pc EXCEPT ![t] = to],
         UNCHANGED mtxBroadcast, mutex' \in {mutex, NoThread},
         pc[t] \in Holding <=> to \in Holding,
         to \notin {"wait", "counted"},
         to \in {"asleep", "awake", "tell", "relock"} => mutex' # t,
         mutex' = NoThread => mutex \in {t, NoThread},
         waiterCount' \in Nat, semaphore' \in Nat, waitersDone' \in BOOLEAN,
         isBroadcast' \in BOOLEAN,
         isBroadcast' <=> \E u \in Threads : pc'[u] \in {"released", "clear"}
  PROVE  TypeOK' /\ MutexOK' /\ HolderOK'
<1>1. /\ pc'[t] = to /\ \A u \in Threads \ {t} : pc'[u] = pc[u]
      /\ pc' \in [Threads -> PCs]
  BY AtMoves
<1>2. TypeOK'
  BY <1>1 DEF IInv, TypeOK
<1>3. MutexOK'
  BY <1>1, Win32CondAssumption DEF IInv, TypeOK, MutexOK
<1>4. HolderOK'
  BY <1>1 DEF IInv, HolderOK
<1> QED BY <1>2, <1>3, <1>4

LEMMA WaitIInv ==
  ASSUME IInv, NEW t \in Threads, Wait(t) PROVE IInv'
<1> USE DEF IInv
<1>1. /\ pc[t] = "wait" /\ pc' = [pc EXCEPT ![t] = "counted"] /\ mtxBroadcast = NoThread
      /\ waiterCount' = waiterCount + 1
      /\ UNCHANGED <<mutex, mtxBroadcast, isBroadcast, semaphore, waitersDone>>
  BY DEF Wait, Goto
<1>2. /\ pc'[t] = "counted" /\ \A u \in Threads \ {t} : pc'[u] = pc[u]
      /\ pc' \in [Threads -> PCs]
      /\ \A where : At(where)' = (At(where) \ {t}) \cup (IF where = "counted" THEN {t} ELSE {})
  BY <1>1, AtMoves DEF PCs
<1>3. \A u \in Threads : pc[u] \notin Holding /\ pc'[u] \notin Holding
  BY <1>1, <1>2, Win32CondAssumption DEF HolderOK, Holding
<1>4. TypeOK' /\ MutexOK' /\ HolderOK'
  <2>1. TypeOK' /\ MutexOK'
    BY <1>1, <1>2 DEF TypeOK, MutexOK
  <2>2. HolderOK'
    BY <1>1, <1>3, Win32CondAssumption DEF HolderOK, Holding
  <2> QED BY <2>1, <2>2
<1>5. CountOK'
  <2>1. t \notin Waiters /\ Waiters' = Waiters \cup {t}
    BY <1>1, <1>2 DEF Waiters, Sleepers, At
  <2> QED BY <1>1, <2>1, FS_AddElement DEF CountOK
<1>6. ReleasesOK'
  <2>1. Quiet
    BY <1>3 DEF ReleasesOK, Released, Holding
  <2>2. Quiet'
    BY <1>1, <1>2, <2>1 DEF Quiet, NoneAt
  <2> QED BY <1>3, <2>2 DEF ReleasesOK, Released, Holding
<1> QED BY <1>4, <1>5, <1>6

LEMMA WaitUnlockIInv ==
  ASSUME IInv, NEW t \in Threads, WaitUnlock(t) PROVE IInv'
<1> USE DEF IInv
<1>1. /\ pc[t] = "counted" /\ pc' = [pc EXCEPT ![t] = "asleep"] /\ mutex' = NoThread
      /\ UNCHANGED <<mtxBroadcast, cond>>
  BY DEF WaitUnlock, Goto
<1>2. /\ pc'[t] = "asleep" /\ \A u \in Threads \ {t} : pc'[u] = pc[u]
      /\ pc' \in [Threads -> PCs]
      /\ \A where : At(where)' = (At(where) \ {t}) \cup (IF where = "asleep" THEN {t} ELSE {})
  BY <1>1, AtMoves DEF PCs
<1>3. \A where \in Holding \cup {"awake", "tell"} : At(where)' = At(where)
  BY <1>1, <1>2 DEF At, Holding
<1>4. Sleepers' = Sleepers /\ Waiters' = Waiters
  BY <1>1, <1>2, <1>3 DEF Sleepers, Waiters, At
<1>5. TypeOK' /\ MutexOK' /\ HolderOK'
  <2>1. isBroadcast' <=> \E u \in Threads : pc'[u] \in {"released", "clear"}
    BY <1>1, <1>2 DEF HolderOK, cond
  <2>2. mutex = t /\ t # NoThread
    BY <1>1, Win32CondAssumption DEF MutexOK
  <2>3. /\ waiterCount \in Nat /\ semaphore \in Nat
        /\ isBroadcast \in BOOLEAN /\ waitersDone \in BOOLEAN
        /\ "asleep" \in PCs \ Holding /\ pc[t] \notin Holding
    BY <1>1 DEF TypeOK, PCs, Holding
  <2> QED BY <1>1, <2>1, <2>2, <2>3, BaseStep DEF cond
<1>6. CountOK' /\ ReleasesOK'
  <2>1. \A where \in Holding : Released(where)' <=> Released(where)
    BY <1>1, <1>2 DEF Released, Holding
  <2> QED BY <1>1, <1>3, <1>4, <2>1
          DEF CountOK, ReleasesOK, Quiet, BroadcastOK, SignalOK, NoneAt, OneAt, cond, Holding
<1> QED BY <1>5, <1>6

(* A waiter gets through the semaphore that was released for it.           *)
LEMMA WaitSemaphoreIInv ==
  ASSUME IInv, NEW t \in Threads, WaitSemaphore(t) PROVE IInv'
<1> USE DEF IInv
<1>1. /\ pc[t] = "asleep" /\ pc' = [pc EXCEPT ![t] = "awake"]
      /\ semaphore > 0 /\ semaphore' = semaphore - 1
      /\ UNCHANGED <<mutex, mtxBroadcast, waiterCount, isBroadcast, waitersDone>>
  BY DEF WaitSemaphore, Goto
<1>2. /\ pc'[t] = "awake" /\ \A u \in Threads \ {t} : pc'[u] = pc[u]
      /\ pc' \in [Threads -> PCs]
      /\ \A where : At(where)' = (At(where) \ {t}) \cup (IF where = "awake" THEN {t} ELSE {})
  BY <1>1, AtMoves DEF PCs
<1>3. /\ t \in Sleepers /\ Sleepers' = Sleepers \ {t} /\ Waiters' = Waiters
      /\ At("tell")' = At("tell") /\ At("awake")' = At("awake") \cup {t}
  BY <1>1, <1>2 DEF Sleepers, Waiters, At
<1>4. TypeOK' /\ MutexOK' /\ HolderOK'
  <2>1. isBroadcast' <=> \E u \in Threads : pc'[u] \in {"released", "clear"}
    BY <1>1, <1>2 DEF HolderOK
  <2>2. mutex # t /\ semaphore' \in Nat
    BY <1>1 DEF MutexOK, TypeOK
  <2>3. /\ waiterCount \in Nat
        /\ isBroadcast \in BOOLEAN /\ waitersDone \in BOOLEAN
        /\ "awake" \in PCs \ Holding /\ pc[t] \notin Holding
    BY <1>1 DEF TypeOK, PCs, Holding
  <2> QED BY <1>1, <2>1, <2>2, <2>3, BaseStep
<1>5. CountOK'
  BY <1>1, <1>3 DEF CountOK
<1>6. \A where \in Holding : Released(where)' <=> Released(where)
  BY <1>1, <1>2 DEF Released, Holding
<1>7. waiterCount > 0
  BY <1>3, NoWaiters DEF Waiters, TypeOK
<1>8. Released("released") => BroadcastOK'
  <2>1. Cardinality(Sleepers') = Cardinality(Sleepers) - 1
    BY <1>3, NoWaiters, FS_RemoveElement
  <2> QED BY <1>1, <1>3, <1>7, <2>1 DEF ReleasesOK, BroadcastOK, NoneAt
<1>9. Released("releasedOne") => SignalOK'
  BY <1>1, <1>3 DEF ReleasesOK, SignalOK, NoneAt, OneAt
<1>10. Released("released") \/ Released("releasedOne")
  BY <1>1 DEF ReleasesOK, Quiet
<1> QED BY <1>1, <1>4, <1>5, <1>6, <1>8, <1>9, <1>10 DEF ReleasesOK, Holding

(* The last of a broadcast's waiters, or the one of a signal, has to tell. *)
LEMMA WaitCountIInv ==
  ASSUME IInv, NEW t \in Threads, WaitCount(t) PROVE IInv'
<1> USE DEF IInv
<1>1. PICK to \in {"tell", "relock"} :
        /\ pc[t] = "awake" /\ pc' = [pc EXCEPT ![t] = to]
        /\ to = "tell" <=> LastWaiter(waiterCount - 1)
        /\ waiterCount' = waiterCount - 1
        /\ UNCHANGED <<mutex, mtxBroadcast, isBroadcast, semaphore, waitersDone>>
  BY DEF WaitCount, Goto
<1>2. /\ pc'[t] = to /\ \A u \in Threads \ {t} : pc'[u] = pc[u]
      /\ pc' \in [Threads -> PCs]
      /\ \A where : At(where)' = (At(where) \ {t}) \cup (IF where = to THEN {t} ELSE {})
  BY <1>1, AtMoves DEF PCs
<1>3. /\ t \in Waiters /\ t \in At("awake") /\ t \notin At("tell")
      /\ Waiters' = Waiters \ {t} /\ Sleepers' = Sleepers
      /\ At("awake")' = At("awake") \ {t}
      /\ At("tell")' = At("tell") \cup (IF to = "tell" THEN {t} ELSE {})
  BY <1>1, <1>2 DEF Sleepers, Waiters, At
<1>4. waiterCount > 0 /\ waiterCount \in Nat
  BY <1>3, NoWaiters DEF TypeOK
<1>5. CountOK'
  BY <1>1, <1>3, FS_RemoveElement DEF CountOK
<1>6. TypeOK' /\ MutexOK' /\ HolderOK'
  <2>1. isBroadcast' <=> \E u \in Threads : pc'[u] \in {"released", "clear"}
    BY <1>1, <1>2 DEF HolderOK
  <2>2. mutex # t /\ waiterCount' \in Nat
    BY <1>1, <1>4 DEF MutexOK
  <2>3. /\ semaphore \in Nat
        /\ isBroadcast \in BOOLEAN /\ waitersDone \in BOOLEAN
        /\ to \in PCs \ Holding /\ to \notin {"wait", "counted"} /\ pc[t] \notin Holding
    BY <1>1 DEF TypeOK, PCs, Holding
  <2> QED BY <1>1, <2>1, <2>2, <2>3, BaseStep
<1>7. \A where \in Holding : Released(where)' <=> Released(where)
  BY <1>1, <1>2 DEF Released, Holding
<1>8. Released("released") => BroadcastOK'
  <2> SUFFICES ASSUME Released("released") PROVE BroadcastOK'
    OBVIOUS
  <2>1. semaphore = Cardinality(Sleepers) /\ NoneAt("tell") /\ ~waitersDone /\ isBroadcast
    BY <1>4 DEF ReleasesOK, BroadcastOK, HolderOK, Released
  <2>2. CASE waiterCount = 1
    <3>1. to = "tell" /\ waiterCount' = 0
      BY <1>1, <2>2 DEF LastWaiter
    <3>2. Waiters' = {}
      BY <1>5, <3>1, FS_EmptySet DEF CountOK
    <3>3. semaphore = 0
      BY <1>3, <2>1, <3>2, FS_EmptySet DEF Waiters
    <3> QED BY <1>1, <1>3, <2>1, <3>1, <3>3 DEF BroadcastOK, OneAt, NoneAt
  <2>3. CASE waiterCount # 1
    <3>1. to = "relock" /\ waiterCount' > 0
      BY <1>1, <1>4, <2>1, <2>3 DEF LastWaiter
    <3> QED BY <1>1, <1>3, <2>1, <3>1 DEF BroadcastOK, NoneAt
  <2> QED BY <2>2, <2>3
<1>9. Released("releasedOne") => SignalOK'
  <2> SUFFICES ASSUME Released("releasedOne") PROVE SignalOK'
    OBVIOUS
  <2>1. semaphore = 0 /\ At("awake") = {t} /\ NoneAt("tell") /\ ~waitersDone
    BY <1>3 DEF ReleasesOK, SignalOK, NoneAt, OneAt
  <2>2. ~isBroadcast
    BY OneHolder DEF HolderOK, Released, Holding
  <2>3. to = "tell"
    BY <1>1, <2>2 DEF LastWaiter
  <2> QED BY <1>1, <1>3, <2>1, <2>3 DEF SignalOK, NoneAt, OneAt
<1>10. Released("released") \/ Released("releasedOne")
  BY <1>3 DEF ReleasesOK, Quiet, NoneAt
<1>11. ~Released("clear")
  BY <1>4 DEF ReleasesOK
<1> QED BY <1>5, <1>6, <1>7, <1>8, <1>9, <1>10, <1>11 DEF ReleasesOK, Holding

LEMMA WaitTellIInv ==
  ASSUME IInv, NEW t \in Threads, WaitTell(t) PROVE IInv'
<1> USE DEF IInv
<1>1. /\ pc[t] = "tell" /\ pc' = [pc EXCEPT ![t] = "relock"] /\ waitersDone' = TRUE
      /\ UNCHANGED <<mutex, mtxBroadcast, waiterCount, isBroadcast, semaphore>>
  BY DEF WaitTell, Goto
<1>2. /\ pc'[t] = "relock" /\ \A u \in Threads \ {t} : pc'[u] = pc[u]
      /\ pc' \in [Threads -> PCs]
      /\ \A where : At(where)' = (At(where) \ {t}) \cup (IF where = "relock" THEN {t} ELSE {})
  BY <1>1, AtMoves DEF PCs
<1>3. /\ t \in At("tell") /\ Waiters' = Waiters /\ Sleepers' = Sleepers
      /\ At("awake")' = At("awake") /\ At("tell")' = At("tell") \ {t}
  BY <1>1, <1>2 DEF Sleepers, Waiters, At
<1>4. CountOK'
  BY <1>1, <1>3 DEF CountOK
<1>5. TypeOK' /\ MutexOK' /\ HolderOK'
  <2>1. isBroadcast' <=> \E u \in Threads : pc'[u] \in {"released", "clear"}
    BY <1>1, <1>2 DEF HolderOK
  <2>2. mutex # t
    BY <1>1 DEF MutexOK
  <2>3. /\ waiterCount \in Nat /\ semaphore \in Nat
        /\ isBroadcast \in BOOLEAN
        /\ "relock" \in PCs \ Holding /\ pc[t] \notin Holding
    BY <1>1 DEF TypeOK, PCs, Holding
  <2> QED BY <1>1, <2>1, <2>2, <2>3, BaseStep
<1>6. \A where \in Holding : Released(where)' <=> Released(where)
  BY <1>1, <1>2 DEF Released, Holding
<1>7. Released("released") => BroadcastOK'
  BY <1>1, <1>3 DEF ReleasesOK, BroadcastOK, NoneAt, OneAt
<1>8. Released("releasedOne") => SignalOK'
  BY <1>1, <1>3 DEF ReleasesOK, SignalOK, NoneAt, OneAt
<1>9. Released("released") \/ Released("releasedOne")
  BY <1>3 DEF ReleasesOK, Quiet, NoneAt
<1> QED BY <1>1, <1>4, <1>5, <1>6, <1>7, <1>8, <1>9 DEF ReleasesOK, Holding

(* Who holds mtx_broadcast goes on and changes the semaphore or the event. *)
LEMMA HolderStep ==
  ASSUME IInv, NEW t \in Threads, NEW to \in Holding, pc[t] \in Holding,
         pc' = [pc EXCEPT ![t] = to], UNCHANGED <<mutex, mtxBroadcast, waiterCount>>,
         semaphore' \in Nat, waitersDone' \in BOOLEAN, isBroadcast' \in BOOLEAN,
         isBroadcast' <=> to \in {"released", "clear"}
  PROVE  /\ TypeOK' /\ MutexOK' /\ HolderOK' /\ CountOK'
         /\ Sleepers' = Sleepers /\ Waiters' = Waiters
         /\ At("awake")' = At("awake") /\ At("tell")' = At("tell")
         /\ \A where \in Holding : Released(where)' <=> where = to
<1>1. /\ pc'[t] = to /\ \A u \in Threads \ {t} : pc'[u] = pc[u]
      /\ pc' \in [Threads -> PCs]
      /\ \A where : At(where)' = (At(where) \ {t}) \cup (IF where = to THEN {t} ELSE {})
  BY AtMoves DEF PCs
<1>2. \A where \in {"counted", "asleep", "awake", "tell"} : At(where)' = At(where)
  BY <1>1 DEF At, Holding
<1>3. Sleepers' = Sleepers /\ Waiters' = Waiters
  BY <1>2 DEF Sleepers, Waiters
<1>4. CountOK'
  BY <1>3 DEF IInv, CountOK
<1>5. \A u \in Threads \ {t} : pc'[u] \notin Holding
  BY <1>1, OneHolder
<1>6. \A where \in Holding : Released(where)' <=> where = to
  BY <1>1, <1>5 DEF Released
<1>7. isBroadcast' <=> \E u \in Threads : pc'[u] \in {"released", "clear"}
  BY <1>1, <1>5 DEF Holding
<1>8. to \in PCs /\ to \notin {"wait", "counted", "asleep", "awake", "tell", "relock"}
      /\ waiterCount' \in Nat /\ (mutex' = NoThread => mutex \in {t, NoThread})
  BY DEF PCs, Holding, IInv, TypeOK
<1>9. TypeOK' /\ MutexOK' /\ HolderOK'
  BY <1>7, <1>8, BaseStep
<1> QED BY <1>2, <1>3, <1>4, <1>6, <1>9

LEMMA ReleaseIInv ==
  ASSUME IInv, NEW t \in Threads, ReleaseAll(t) \/ ReleaseOne(t) PROVE IInv'
<1> USE DEF IInv
<1> DEFINE to == IF pc[t] = "release" THEN "released" ELSE "releasedOne"
<1>1. /\ pc[t] \in {"release", "releaseOne"} /\ pc' = [pc EXCEPT ![t] = to]
      /\ pc[t] = "release" => /\ waiterCount > 0 /\ isBroadcast' = TRUE
                              /\ semaphore' = semaphore + waiterCount
      /\ pc[t] = "releaseOne" => isBroadcast' = isBroadcast /\ semaphore' = semaphore + 1
      /\ UNCHANGED <<mutex, mtxBroadcast, waiterCount, waitersDone>>
  BY DEF ReleaseAll, ReleaseOne, Goto
<1>2. ~isBroadcast /\ ~Released("released") /\ ~Released("releasedOne")
  BY <1>1, OneHolder DEF HolderOK, Released, Holding
<1>3. Quiet
  BY <1>2 DEF ReleasesOK
<1>4. /\ semaphore' \in Nat /\ waitersDone' \in BOOLEAN /\ isBroadcast' \in BOOLEAN
      /\ isBroadcast' <=> to \in {"released", "clear"}
      /\ to \in Holding /\ pc[t] \in Holding
  <2>1. CASE pc[t] = "release"
    BY <1>1, <2>1 DEF TypeOK, Holding
  <2>2. CASE pc[t] = "releaseOne"
    BY <1>1, <1>2, <2>2 DEF TypeOK, Holding
  <2> QED BY <1>1, <2>1, <2>2
<1>5. /\ TypeOK' /\ MutexOK' /\ HolderOK' /\ CountOK'
      /\ Sleepers' = Sleepers /\ Waiters' = Waiters
      /\ At("awake")' = At("awake") /\ At("tell")' = At("tell")
      /\ \A where \in Holding : Released(where)' <=> where = to
  BY <1>1, <1>4, HolderStep
<1>6. to = "released" => BroadcastOK'
  <2>1. waiterCount = Cardinality(Sleepers)
    BY <1>3 DEF CountOK, Waiters, Quiet, NoneAt
  <2> QED BY <1>1, <1>3, <1>5, <2>1 DEF BroadcastOK, Quiet, NoneAt, TypeOK
<1>7. to = "releasedOne" => SignalOK'
  BY <1>1, <1>3, <1>5 DEF SignalOK, Quiet, NoneAt
<1> QED BY <1>5, <1>6, <1>7 DEF ReleasesOK, Holding

LEMMA ToldIInv ==
  ASSUME IInv, NEW t \in Threads, Told(t) \/ Clear(t) PROVE IInv'
<1> USE DEF IInv
<1> DEFINE to == IF pc[t] = "released" THEN "clear" ELSE "leave"
<1>1. /\ pc[t] \in {"released", "releasedOne", "clear"} /\ pc' = [pc EXCEPT ![t] = to]
      /\ pc[t] = "clear" => isBroadcast' = FALSE /\ waitersDone' = waitersDone
      /\ pc[t] # "clear" => waitersDone /\ waitersDone' = FALSE /\ isBroadcast' = isBroadcast
      /\ UNCHANGED <<mutex, mtxBroadcast, waiterCount, semaphore>>
  BY DEF Told, Clear, Goto
<1>2. \A where \in Holding : Released(where) <=> where = pc[t]
  BY <1>1, OneHolder DEF Released, Holding
<1>3. isBroadcast <=> pc[t] \in {"released", "clear"}
  BY <1>2 DEF HolderOK, Released, Holding
<1>4. /\ semaphore' \in Nat /\ waitersDone' \in BOOLEAN /\ isBroadcast' \in BOOLEAN
      /\ isBroadcast' <=> to \in {"released", "clear"}
      /\ to \in Holding /\ pc[t] \in Holding
  BY <1>1, <1>3 DEF TypeOK, Holding
<1>5. /\ TypeOK' /\ MutexOK' /\ HolderOK' /\ CountOK'
      /\ Sleepers' = Sleepers /\ Waiters' = Waiters
      /\ At("awake")' = At("awake") /\ At("tell")' = At("tell")
      /\ \A where \in Holding : Released(where)' <=> where = to
  BY <1>1, <1>4, HolderStep
<1>6. Quiet'
  <2>1. CASE pc[t] = "released"
    BY <1>1, <1>2, <1>5, <2>1, NoWaiters
       DEF ReleasesOK, BroadcastOK, Quiet, NoneAt, Holding, TypeOK
  <2>2. CASE pc[t] = "releasedOne"
    BY <1>1, <1>2, <1>5, <2>2 DEF ReleasesOK, SignalOK, Quiet, NoneAt, Holding
  <2>3. CASE pc[t] = "clear"
    BY <1>1, <1>2, <1>5, <2>3 DEF ReleasesOK, Quiet, NoneAt, Holding
  <2> QED BY <1>1, <2>1, <2>2, <2>3
<1>7. to = "clear" => waiterCount' = 0
  BY <1>1, <1>2 DEF ReleasesOK, BroadcastOK, Holding, TypeOK
<1> QED BY <1>5, <1>6, <1>7 DEF ReleasesOK, Holding

LEMMA StutterIInv == IInv /\ UNCHANGED vars => IInv'
BY DEF vars, cond, IInv, TypeOK, MutexOK, HolderOK, CountOK, Waiters, Sleepers, At, ReleasesOK,
       Released, Quiet, BroadcastOK, SignalOK, NoneAt, OneAt

LEMMA NextIInv == IInv /\ [Next]_vars => IInv'
BY UserIInv, ApartIInv, WaitIInv, WaitUnlockIInv, WaitSemaphoreIInv, WaitCountIInv, WaitTellIInv,
   ReleaseIInv, ToldIInv, StutterIInv DEF Next, InCall

(* The semaphore, the counter, the event and mtx_broadcast fit together,   *)
(* whatever threads wait, broadcast and signal.                            *)
THEOREM Win32CondInvariant == Spec => []IInv
BY InitIInv, NextIInv, PTL DEF Spec

-----------------------------------------------------------------------------
(* The refinement.  What the mapping says of one thread.                   *)
LEMMA StateBarOf ==
  \A t \in Threads :
    /\ pc[t] \in {"counted", "asleep"} =>
         stateBar[t] = IF isBroadcast THEN "woken" ELSE "waiting"
    /\ pc[t] \in {"awake", "tell", "relock"} => stateBar[t] = "woken"
    /\ pc[t] \notin {"counted", "asleep", "awake", "tell", "relock"} =>
         stateBar[t] = IF mutex = t THEN "in" ELSE "out"
BY DEF stateBar

LEMMA CallBarOf ==
  \A t \in Threads :
    /\ pc[t] \in {"broadcast", "release"} => callBar[t] = "broadcast"
    /\ pc[t] \in {"signal", "look", "releaseOne"} => callBar[t] = "signal"
    /\ pc[t] = "releasedOne" => callBar[t] = IF semaphore > 0 THEN "signal" ELSE "done"
    /\ pc[t] \in {"released", "clear", "leave"} => callBar[t] = "done"
    /\ pc[t] \notin Holding \cup {"broadcast", "signal"} => callBar[t] = "none"
<1> TAKE t \in Threads
<1>1. pc[t] \in {"broadcast", "release"} => callBar[t] = "broadcast"
  BY DEF callBar
<1>2. pc[t] \in {"signal", "look", "releaseOne"} => callBar[t] = "signal"
  BY DEF callBar
<1>3. pc[t] = "releasedOne" => callBar[t] = IF semaphore > 0 THEN "signal" ELSE "done"
  BY DEF callBar
<1>4. pc[t] \in {"released", "clear", "leave"} => callBar[t] = "done"
  BY DEF callBar
<1>5. pc[t] \notin Holding \cup {"broadcast", "signal"} => callBar[t] = "none"
  BY DEF callBar, Holding
<1> QED BY <1>1, <1>2, <1>3, <1>4, <1>5

LEMMA BarsAreFunctions ==
  /\ stateBar = [t \in Threads |-> stateBar[t]] /\ callBar = [t \in Threads |-> callBar[t]]
  /\ stateBar' = [t \in Threads |-> stateBar'[t]] /\ callBar' = [t \in Threads |-> callBar'[t]]
BY DEF stateBar, callBar

(* Two functions on Threads that differ at t only.                         *)
LEMMA ChangesAt ==
  ASSUME NEW f, NEW g, NEW t \in Threads, NEW v,
         f = [u \in Threads |-> f[u]], g = [u \in Threads |-> g[u]],
         g[t] = v, \A u \in Threads \ {t} : g[u] = f[u]
  PROVE  g = [f EXCEPT ![t] = v] /\ (v = f[t] => g = f)
OBVIOUS

LEMMA InitRefines == Init => Abstract!Init
BY Win32CondAssumption DEF Init, Abstract!Init, stateBar, callBar

(* Nobody has the mutex, or nobody sleeps, in the abstract state.          *)
LEMMA FreeBar == IInv /\ mutex = NoThread => Abstract!Free
BY StateBarOf, Win32CondAssumption DEF Abstract!Free

LEMMA SleepingBar ==
  IInv => /\ ~isBroadcast => Abstract!Sleeping = Sleepers
          /\ isBroadcast => Abstract!Sleeping = {}
BY StateBarOf DEF Abstract!Sleeping, Sleepers, At

(* A step that changes neither call nor the state of another thread.       *)
LEMMA OnlyState ==
  ASSUME IInv, NEW t \in Threads, NEW to \in PCs \ (Holding \cup {"broadcast", "signal"}),
         pc[t] \notin Holding \cup {"broadcast", "signal"},
         pc' = [pc EXCEPT ![t] = to],
         UNCHANGED <<semaphore, isBroadcast>>,
         \A u \in Threads \ {t} : mutex' = u <=> mutex = u
  PROVE  /\ callBar' = callBar /\ callBar[t] = "none" /\ pc'[t] = to
         /\ stateBar' = [stateBar EXCEPT ![t] = stateBar'[t]]
<1>1. /\ pc'[t] = to /\ \A u \in Threads \ {t} : pc'[u] = pc[u]
  BY AtMoves
<1>2. \A u \in Threads \ {t} : stateBar'[u] = stateBar[u]
  BY <1>1 DEF stateBar
<1>3. \A u \in Threads : callBar'[u] = callBar[u]
  <2>1. callBar[t] = "none" /\ callBar'[t] = "none"
    BY <1>1, CallBarOf DEF callBar, Holding
  <2>2. \A u \in Threads \ {t} : callBar'[u] = callBar[u]
    BY <1>1 DEF callBar
  <2> QED BY <2>1, <2>2
<1>4. callBar' = callBar
  BY <1>3, BarsAreFunctions, ChangesAt
<1>5. stateBar' = [stateBar EXCEPT ![t] = stateBar'[t]]
  BY <1>2, BarsAreFunctions, ChangesAt
<1> QED BY <1>1, <1>4, <1>5, CallBarOf

LEMMA UserRefines ==
  ASSUME IInv, NEW t \in Threads, Lock(t) \/ Unlock(t) PROVE Abstract!Next
<1>1. /\ pc[t] = "idle" /\ pc' = pc /\ UNCHANGED <<semaphore, isBroadcast>>
      /\ \/ Lock(t) /\ mutex = NoThread /\ mutex' = t
         \/ Unlock(t) /\ mutex = t /\ mutex' = NoThread
  BY DEF Lock, Unlock, cond
<1>2. pc' = [pc EXCEPT ![t] = "idle"] /\ t # NoThread
  BY <1>1, Win32CondAssumption DEF IInv, TypeOK
<1>3. /\ callBar' = callBar /\ callBar[t] = "none"
      /\ stateBar' = [stateBar EXCEPT ![t] = stateBar'[t]]
  <2>1. /\ "idle" \in PCs \ (Holding \cup {"broadcast", "signal"})
        /\ pc[t] \notin Holding \cup {"broadcast", "signal"}
    BY <1>1 DEF PCs, Holding
  <2>2. \A u \in Threads \ {t} : mutex' = u <=> mutex = u
    BY <1>1, Win32CondAssumption
  <2> QED BY <1>1, <1>2, <2>1, <2>2, OnlyState
<1>4. /\ stateBar[t] = IF mutex = t THEN "in" ELSE "out"
      /\ stateBar'[t] = IF mutex' = t THEN "in" ELSE "out"
  BY <1>1 DEF stateBar
<1>5. CASE Lock(t)
  <2>1. Abstract!Lock(t)
    BY <1>1, <1>2, <1>3, <1>4, <1>5, FreeBar DEF Abstract!Lock, Abstract!Idle, Abstract!Moves, Lock
  <2> QED BY <2>1 DEF Abstract!Next
<1>6. CASE Unlock(t)
  <2>1. Abstract!Unlock(t)
    BY <1>1, <1>2, <1>3, <1>4, <1>6 DEF Abstract!Unlock, Abstract!Idle, Abstract!Moves, Unlock
  <2> QED BY <2>1 DEF Abstract!Next
<1> QED BY <1>1, <1>5, <1>6

(* A thread goes through a wait.                                           *)
LEMMA WaitRefines ==
  ASSUME IInv, NEW t \in Threads,
         Wait(t) \/ WaitUnlock(t) \/ WaitCount(t) \/ WaitTell(t) \/ WaitRelock(t)
  PROVE  Abstract!Next \/ UNCHANGED <<stateBar, callBar>>
<1>1. PICK to \in {"counted", "asleep", "tell", "relock", "idle"} :
        /\ pc[t] \in {"wait", "counted", "awake", "tell", "relock"}
        /\ pc' = [pc EXCEPT ![t] = to]
        /\ UNCHANGED <<semaphore, isBroadcast>>
        /\ \/ pc[t] = "wait" /\ to = "counted" /\ mtxBroadcast = NoThread /\ mutex' = mutex
           \/ pc[t] = "counted" /\ to = "asleep" /\ mutex' = NoThread
           \/ pc[t] \in {"awake", "tell"} /\ to \in {"tell", "relock"} /\ mutex' = mutex
           \/ pc[t] = "relock" /\ to = "idle" /\ mutex = NoThread /\ mutex' = t
  BY DEF Wait, WaitUnlock, WaitCount, WaitTell, WaitRelock, Goto, cond
<1>2. t # NoThread /\ (pc[t] \in {"wait", "counted"} => mutex = t)
  BY Win32CondAssumption DEF IInv, MutexOK
<1>3. \A u \in Threads \ {t} : mutex' = u <=> mutex = u
  BY <1>1, <1>2, Win32CondAssumption
<1>4. /\ to \in PCs \ (Holding \cup {"broadcast", "signal"})
      /\ pc[t] \notin Holding \cup {"broadcast", "signal"}
  BY <1>1 DEF PCs, Holding
<1>5. /\ callBar' = callBar /\ callBar[t] = "none" /\ pc'[t] = to
      /\ stateBar' = [stateBar EXCEPT ![t] = stateBar'[t]]
  BY <1>1, <1>3, <1>4, OnlyState
<1>6. CASE pc[t] = "wait"
  <2>1. ~isBroadcast
    BY <1>1, <1>6, Win32CondAssumption DEF IInv, HolderOK, Holding
  <2>2. stateBar[t] = "in" /\ stateBar'[t] = "waiting"
    BY <1>1, <1>2, <1>5, <1>6, <2>1 DEF stateBar
  <2>3. Abstract!Wait(t)
    BY <1>5, <2>2 DEF Abstract!Wait, Abstract!Idle, Abstract!Moves
  <2> QED BY <2>3 DEF Abstract!Next
<1>7. CASE pc[t] \in {"counted", "awake", "tell"}
  <2>1. stateBar'[t] = stateBar[t]
    BY <1>1, <1>5, <1>7 DEF stateBar
  <2>2. stateBar' = stateBar
    BY <1>5, <2>1, BarsAreFunctions
  <2> QED BY <1>5, <2>2
<1>8. CASE pc[t] = "relock"
  <2>1. stateBar[t] = "woken" /\ stateBar'[t] = "in"
    BY <1>1, <1>5, <1>8 DEF stateBar
  <2>2. Abstract!Relock(t)
    BY <1>1, <1>5, <1>8, <2>1, FreeBar DEF Abstract!Relock, Abstract!Idle, Abstract!Moves
  <2> QED BY <2>2 DEF Abstract!Next
<1> QED BY <1>1, <1>6, <1>7, <1>8

(* A step of a thread that has no part in a wait: what it does to itself.  *)
Outside == Holding \cup {"idle", "wait", "broadcast", "signal"}

LEMMA OnlyCall ==
  ASSUME IInv, NEW t \in Threads, NEW to \in Outside, pc[t] \in Outside,
         pc' = [pc EXCEPT ![t] = to], UNCHANGED mutex,
         semaphore' = semaphore \/ pc[t] \in Holding
  PROVE  /\ pc'[t] = to /\ stateBar'[t] = stateBar[t]
         /\ stateBar[t] \in {"in", "out"}
         /\ callBar' = [callBar EXCEPT ![t] = callBar'[t]]
         /\ \A u \in Threads \ {t} : pc'[u] = pc[u]
         /\ UNCHANGED isBroadcast => UNCHANGED stateBar
<1>1. /\ pc'[t] = to /\ \A u \in Threads \ {t} : pc'[u] = pc[u]
  BY AtMoves DEF PCs, Outside
<1>2. stateBar'[t] = stateBar[t] /\ stateBar[t] \in {"in", "out"}
  BY <1>1 DEF stateBar, Outside, Holding
<1>3. ASSUME NEW u \in Threads \ {t} PROVE callBar'[u] = callBar[u]
  <2>1. CASE semaphore' = semaphore
    BY <1>1, <2>1 DEF callBar
  <2>2. CASE pc[t] \in Holding
    <3>1. pc[u] # "releasedOne"
      BY <2>2, OneHolder DEF Holding
    <3> QED BY <1>1, <3>1 DEF callBar
  <2> QED BY <2>1, <2>2
<1>4. callBar' = [callBar EXCEPT ![t] = callBar'[t]]
  BY <1>3, BarsAreFunctions, ChangesAt
<1>5. ASSUME UNCHANGED isBroadcast PROVE UNCHANGED stateBar
  <2>1. \A u \in Threads \ {t} : stateBar'[u] = stateBar[u]
    BY <1>1, <1>5 DEF stateBar
  <2> QED BY <1>2, <2>1, BarsAreFunctions, ChangesAt
<1> QED BY <1>1, <1>2, <1>4, <1>5

LEMMA CallRefines ==
  ASSUME IInv, NEW t \in Threads, Call(t) \/ Leave(t)
  PROVE  Abstract!Next \/ UNCHANGED <<stateBar, callBar>>
<1>1. PICK to \in {"wait", "broadcast", "signal", "idle"} :
        /\ pc[t] \in {"idle", "leave"} /\ pc' = [pc EXCEPT ![t] = to]
        /\ pc[t] = "leave" <=> to = "idle"
        /\ UNCHANGED <<mutex, semaphore, isBroadcast>>
  BY DEF Call, Leave, Goto, cond
<1>2. to \in Outside /\ pc[t] \in Outside
  BY <1>1 DEF Outside, Holding
<1>3. /\ pc'[t] = to /\ stateBar' = stateBar /\ stateBar[t] \in {"in", "out"}
      /\ callBar' = [callBar EXCEPT ![t] = callBar'[t]]
  BY <1>1, <1>2, OnlyCall
<1>4. /\ callBar[t] = IF pc[t] = "leave" THEN "done" ELSE "none"
      /\ callBar'[t] = IF to \in {"wait", "idle"} THEN "none" ELSE to
  BY <1>1, <1>3 DEF callBar
<1>5. CASE to = "wait"
  <2>1. callBar' = callBar
    BY <1>1, <1>3, <1>4, <1>5, BarsAreFunctions
  <2> QED BY <1>3, <2>1
<1>6. CASE to \in {"broadcast", "signal"}
  <2>1. Abstract!Begin(t)
    BY <1>1, <1>3, <1>4, <1>6 DEF Abstract!Begin
  <2> QED BY <2>1 DEF Abstract!Next
<1>7. CASE to = "idle"
  <2>1. Abstract!Return(t)
    BY <1>1, <1>3, <1>4, <1>7 DEF Abstract!Return
  <2> QED BY <2>1 DEF Abstract!Next
<1> QED BY <1>5, <1>6, <1>7

(* The steps on the way to the effect of a call, and after it.             *)
LEMMA OnTheWayRefines ==
  ASSUME IInv, NEW t \in Threads,
         LockBroadcast(t) \/ SomebodyThere(t) \/ ReleaseOne(t) \/ Told(t)
  PROVE  UNCHANGED <<stateBar, callBar>>
<1>1. PICK to \in {"release", "look", "releaseOne", "releasedOne", "clear", "leave"} :
        /\ pc' = [pc EXCEPT ![t] = to]
        /\ UNCHANGED <<mutex, isBroadcast>>
        /\ \/ pc[t] = "broadcast" /\ to = "release" /\ semaphore' = semaphore
           \/ pc[t] = "signal" /\ to = "look" /\ semaphore' = semaphore
           \/ pc[t] = "look" /\ to = "releaseOne" /\ semaphore' = semaphore
           \/ pc[t] = "releaseOne" /\ to = "releasedOne" /\ semaphore' = semaphore + 1
           \/ pc[t] = "released" /\ to = "clear" /\ semaphore' = semaphore
           \/ pc[t] = "releasedOne" /\ to = "leave" /\ semaphore' = semaphore /\ waitersDone
  BY DEF LockBroadcast, SomebodyThere, ReleaseOne, Told, Goto, cond
<1>2. to \in Outside /\ pc[t] \in Outside /\ (semaphore' = semaphore \/ pc[t] \in Holding)
  BY <1>1 DEF Outside, Holding
<1>3. /\ pc'[t] = to /\ stateBar' = stateBar
      /\ callBar' = [callBar EXCEPT ![t] = callBar'[t]]
  BY <1>1, <1>2, OnlyCall
<1>4. pc[t] = "releasedOne" /\ waitersDone => semaphore = 0
  BY DEF IInv, ReleasesOK, Released, SignalOK
<1>5. semaphore + 1 > 0
  BY DEF IInv, TypeOK
<1>6. callBar'[t] = callBar[t]
  BY <1>1, <1>3, <1>4, <1>5 DEF callBar
<1>7. callBar' = callBar
  BY <1>3, <1>6, BarsAreFunctions
<1> QED BY <1>3, <1>7

(* Nobody waits: the broadcast or signal has no effect.                    *)
LEMMA NobodyThereRefines ==
  ASSUME IInv, NEW t \in Threads, NobodyThere(t) PROVE Abstract!Next
<1>1. /\ pc[t] \in {"release", "look"} /\ pc' = [pc EXCEPT ![t] = "leave"] /\ waiterCount = 0
      /\ UNCHANGED <<mutex, semaphore, isBroadcast>>
  BY DEF NobodyThere, Goto, cond
<1>2. "leave" \in Outside /\ pc[t] \in Outside
  BY <1>1 DEF Outside, Holding
<1>3. /\ pc'[t] = "leave" /\ stateBar' = stateBar
      /\ callBar' = [callBar EXCEPT ![t] = callBar'[t]]
  BY <1>1, <1>2, OnlyCall
<1>4. /\ callBar[t] = IF pc[t] = "release" THEN "broadcast" ELSE "signal"
      /\ callBar'[t] = "done"
  BY <1>1, <1>3 DEF callBar
<1>5. Abstract!Sleeping = {}
  BY <1>1, NoWaiters, SleepingBar DEF IInv, TypeOK
<1>6. Abstract!Broadcast(t) \/ Abstract!Signal(t)
  <2>1. CASE pc[t] = "release"
    <3>1. stateBar' = [u \in Threads |-> IF u \in Abstract!Sleeping THEN "woken" ELSE stateBar[u]]
      BY <1>3, <1>5, BarsAreFunctions
    <3> QED BY <1>3, <1>4, <2>1, <3>1 DEF Abstract!Broadcast, Abstract!Wake
  <2>2. CASE pc[t] = "look"
    BY <1>3, <1>4, <1>5, <2>2 DEF Abstract!Signal
  <2> QED BY <1>1, <2>1, <2>2
<1> QED BY <1>6 DEF Abstract!Next

(* A broadcast takes effect: every waiter has been released.               *)
LEMMA ReleaseAllRefines ==
  ASSUME IInv, NEW t \in Threads, ReleaseAll(t) PROVE Abstract!Next
<1>1. /\ pc[t] = "release" /\ pc' = [pc EXCEPT ![t] = "released"]
      /\ isBroadcast' = TRUE /\ UNCHANGED mutex
  BY DEF ReleaseAll, Goto
<1>2. "released" \in Outside /\ pc[t] \in Outside /\ pc[t] \in Holding
  BY <1>1 DEF Outside, Holding
<1>3. /\ pc'[t] = "released" /\ stateBar'[t] = stateBar[t] /\ stateBar[t] \in {"in", "out"}
      /\ callBar' = [callBar EXCEPT ![t] = callBar'[t]]
      /\ \A u \in Threads \ {t} : pc'[u] = pc[u]
  BY <1>1, <1>2, OnlyCall
<1>4. callBar[t] = "broadcast" /\ callBar'[t] = "done"
  BY <1>1, <1>3 DEF callBar
<1>5. ~isBroadcast
  BY <1>1, OneHolder DEF IInv, HolderOK, Holding
<1>6. \A u \in Threads : stateBar'[u] = IF u \in Abstract!Sleeping THEN "woken" ELSE stateBar[u]
  <2>1. Abstract!Sleeping = Sleepers
    BY <1>5, SleepingBar
  <2>2. ASSUME NEW u \in Sleepers PROVE stateBar'[u] = "woken"
    BY <1>1, <1>3 DEF stateBar, Sleepers, At
  <2>3. ASSUME NEW u \in Threads \ Sleepers PROVE stateBar'[u] = stateBar[u]
    <3>1. CASE u = t
      BY <1>3, <3>1
    <3>2. CASE u # t
      BY <1>1, <1>3, <2>3, <3>2 DEF stateBar, Sleepers, At
    <3> QED BY <3>1, <3>2
  <2> QED BY <2>1, <2>2, <2>3
<1>7. stateBar' = [u \in Threads |-> IF u \in Abstract!Sleeping THEN "woken" ELSE stateBar[u]]
  BY <1>6, BarsAreFunctions
<1>8. Abstract!Broadcast(t)
  BY <1>3, <1>4, <1>7 DEF Abstract!Broadcast, Abstract!Wake
<1> QED BY <1>8 DEF Abstract!Next

(* The broadcast is over only when nobody is left to be woken by it.       *)
LEMMA ClearRefines ==
  ASSUME IInv, NEW t \in Threads, Clear(t) PROVE UNCHANGED <<stateBar, callBar>>
<1>1. /\ pc[t] = "clear" /\ pc' = [pc EXCEPT ![t] = "leave"]
      /\ UNCHANGED <<mutex, semaphore>>
  BY DEF Clear, Goto
<1>2. "leave" \in Outside /\ pc[t] \in Outside
  BY <1>1 DEF Outside, Holding
<1>3. /\ pc'[t] = "leave" /\ stateBar'[t] = stateBar[t]
      /\ callBar' = [callBar EXCEPT ![t] = callBar'[t]]
      /\ \A u \in Threads \ {t} : pc'[u] = pc[u]
  BY <1>1, <1>2, OnlyCall
<1>4. callBar' = callBar
  <2>1. callBar'[t] = callBar[t]
    BY <1>1, <1>3 DEF callBar
  <2> QED BY <1>3, <2>1, BarsAreFunctions
<1>5. Sleepers = {}
  BY <1>1, NoWaiters DEF IInv, ReleasesOK, Released
<1>6. \A u \in Threads \ {t} : stateBar'[u] = stateBar[u]
  BY <1>1, <1>3, <1>5 DEF stateBar, Sleepers, At
<1>7. stateBar' = stateBar
  BY <1>3, <1>6, BarsAreFunctions, ChangesAt
<1> QED BY <1>4, <1>7

(* A waiter gets through: it was woken by the broadcast, or the signal has *)
(* its effect now.                                                         *)
LEMMA WaitSemaphoreRefines ==
  ASSUME IInv, NEW t \in Threads, WaitSemaphore(t)
  PROVE  Abstract!Next \/ UNCHANGED <<stateBar, callBar>>
<1>1. /\ pc[t] = "asleep" /\ pc' = [pc EXCEPT ![t] = "awake"]
      /\ semaphore > 0 /\ semaphore' = semaphore - 1
      /\ UNCHANGED <<mutex, isBroadcast>>
  BY DEF WaitSemaphore, Goto
<1>2. pc'[t] = "awake" /\ \A u \in Threads \ {t} : pc'[u] = pc[u]
  BY <1>1, AtMoves DEF PCs
<1>3. \A u \in Threads \ {t} : stateBar'[u] = stateBar[u]
  BY <1>1, <1>2 DEF stateBar
<1>4. stateBar[t] = (IF isBroadcast THEN "woken" ELSE "waiting") /\ stateBar'[t] = "woken"
  BY <1>1, <1>2 DEF stateBar
<1>5. CASE Released("released")
  <2>1. isBroadcast /\ ~Released("releasedOne")
    BY <1>5, OneHolder DEF IInv, HolderOK, Released, Holding
  <2>2. stateBar' = stateBar
    BY <1>3, <1>4, <2>1, BarsAreFunctions, ChangesAt
  <2>3. \A u \in Threads : callBar'[u] = callBar[u]
    BY <1>1, <1>2, <2>1 DEF callBar, Released
  <2>4. callBar' = callBar
    BY <2>3, BarsAreFunctions
  <2> QED BY <2>2, <2>4
<1>6. CASE Released("releasedOne")
  <2>1. PICK h \in Threads : pc[h] = "releasedOne"
    BY <1>6 DEF Released
  <2>2. ~isBroadcast /\ \A u \in Threads \ {h} : pc[u] # "releasedOne"
    BY <2>1, OneHolder DEF IInv, HolderOK, Holding
  <2>3. semaphore = 1 /\ semaphore' = 0
    BY <1>1, <1>6 DEF IInv, ReleasesOK, SignalOK
  <2>4. callBar[h] = "signal" /\ callBar'[h] = "done"
    BY <1>1, <1>2, <2>1, <2>3 DEF callBar
  <2>5. \A u \in Threads \ {h} : callBar'[u] = callBar[u]
    BY <1>1, <1>2, <2>2 DEF callBar
  <2>6. callBar' = [callBar EXCEPT ![h] = "done"]
    BY <2>4, <2>5, BarsAreFunctions, ChangesAt
  <2>7. t \in Abstract!Sleeping
    BY <1>1, <2>2, SleepingBar DEF Sleepers, At
  <2>8. \A u \in Threads : stateBar'[u] = IF u \in {t} THEN "woken" ELSE stateBar[u]
    BY <1>3, <1>4
  <2>9. stateBar' = [u \in Threads |-> IF u \in {t} THEN "woken" ELSE stateBar[u]]
    BY <2>8, BarsAreFunctions
  <2>10. Abstract!Signal(h)
    BY <2>4, <2>6, <2>7, <2>9 DEF Abstract!Signal, Abstract!Wake
  <2> QED BY <2>1, <2>10 DEF Abstract!Next
<1>7. Released("released") \/ Released("releasedOne")
  BY <1>1 DEF IInv, ReleasesOK, Quiet
<1> QED BY <1>5, <1>6, <1>7

LEMMA NextRefines ==
  IInv /\ [Next]_vars => [Abstract!Next]_(Abstract!vars)
<1> SUFFICES ASSUME IInv, [Next]_vars
             PROVE  Abstract!Next \/ UNCHANGED <<stateBar, callBar>>
  BY DEF Abstract!vars
<1>1. CASE UNCHANGED vars
  BY <1>1 DEF vars, cond, stateBar, callBar
<1>2. ASSUME NEW t \in Threads, Lock(t) \/ Unlock(t) \/ Call(t) \/ InCall(t)
      PROVE  Abstract!Next \/ UNCHANGED <<stateBar, callBar>>
  BY <1>2, UserRefines, CallRefines, WaitRefines, WaitSemaphoreRefines, OnTheWayRefines,
     NobodyThereRefines, ReleaseAllRefines, ClearRefines DEF InCall
<1> QED BY <1>1, <1>2 DEF Next

(* x264's own condition variables do what CondVar says of pthread ones:    *)
(* x264_pthread_cond_wait gives the mutex up and sleeps at once, a         *)
(* broadcast wakes everybody who waits, a signal one of them, and nothing  *)
(* else wakes anybody.                                                     *)
THEOREM CondVarImplemented == Spec => ImplementsCondVar
BY InitRefines, NextRefines, Win32CondInvariant, PTL DEF Spec, ImplementsCondVar, Abstract!Spec
=============================================================================
