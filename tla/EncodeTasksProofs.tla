------------------------- MODULE EncodeTasksProofs --------------------------
(***************************************************************************)
(* The safety of EncodeTasks for any number of processes, machines, tasks, *)
(* crashes and hundredths of a second.                                     *)
(*                                                                         *)
(* The inductive invariant adds to TypeOK what the proofs turn on: a       *)
(* message is in one place (Places), the time in a folder name is taken    *)
(* once (StampsOK), what lies in a folder whose name nobody else has is    *)
(* of its task (OutputsOK), a folder has a process that has still to       *)
(* remove it (TempOK), and a command left running by a crash works in the  *)
(* folder of its own task (OrphansOK).                                     *)
(***************************************************************************)
EXTENDS EncodeTasks, FiniteSetTheorems, TLAPS

(* The processes and their messages.                                       *)
ProcsOK ==
  /\ queue \subseteq Tasks /\ unheard \subseteq Tasks /\ crashed \subseteq Tasks
  /\ pc \in [Workers -> PCs]
  /\ task \in [Workers -> Tasks \cup {NoTask}]
  /\ \A w \in Workers : task[w] = NoTask <=> pc[w] = "idle"
  /\ named \in [Workers -> BOOLEAN]
  /\ result \in [Workers -> {"none", "success", "failed"}]
  /\ notices \subseteq [task : Tasks, action : {"success", "failed"}]

FilesOK ==
  /\ temp \subseteq Folders /\ fetched \subseteq temp
  /\ encoded \in [Folders -> Tasks \cup {NoTask, Partial}]
  /\ mux \in [Names -> Tasks \cup {NoTask, Partial}]
  /\ \A d \in Folders \ temp : encoded[d] = NoTask

AtWork(t) == \E w \in Workers : task[w] = t
Told(t)   == \E n \in notices : n.task = t

(* A message is at the broker, at work, told, unheard or crashed, and it   *)
(* is only one of these.                                                   *)
Places ==
  /\ \A w, u \in Workers : task[w] = task[u] /\ task[w] # NoTask => w = u
  /\ \A n, m \in notices : n.task = m.task => n = m
  /\ \A t \in Tasks :
       /\ t \in queue \/ AtWork(t) \/ Told(t) \/ t \in unheard \/ t \in crashed
       /\ t \in queue => ~AtWork(t) /\ ~Told(t) /\ t \notin unheard /\ t \notin crashed
       /\ AtWork(t) => ~Told(t) /\ t \notin unheard /\ t \notin crashed
       /\ Told(t) => t \notin unheard /\ t \notin crashed
       /\ t \in unheard => t \notin crashed

InFolder == {"fetch", "encode", "encoding", "mkdir", "copy"}

(* The time is taken when the folder is named, and never again.            *)
StampsOK ==
  /\ clock \in 0..MaxTick
  /\ stamp \in [Tasks -> 0..NoTime]
  /\ \A t \in queue : stamp[t] = NoTime
  /\ \A w \in Workers :
       /\ pc[w] = "begin" => stamp[task[w]] = NoTime
       /\ pc[w] \in {"idle", "begin"} => ~named[w] /\ result[w] = "none"
       /\ named[w] => stamp[task[w]] \in 0..MaxTick
       /\ pc[w] \in InFolder => named[w] /\ result[w] = "none"
       /\ pc[w] \in {"cleanup", "notify"} => result[w] # "none"
       /\ result[w] = "success" => named[w]
  /\ \A n \in notices : n.action = "success" => stamp[n.task] \in 0..MaxTick

OutputsOK ==
  /\ \A w \in Workers :
       /\ pc[w] \in {"mkdir", "copy"} /\ ~NameTaken(task[w]) =>
            encoded[Folder(w)] \in {task[w], NoTask}
       /\ result[w] = "success" /\ ~NameTaken(task[w]) => mux[Name(task[w])] = task[w]
  /\ OutputIsOwn

(* Somebody has still to remove a folder, or has crashed.                  *)
Keeps(w, d) == named[w] /\ pc[w] # "notify" /\ d = Folder(w)
TempOK ==
  \A d \in temp : (\E w \in Workers : Keeps(w, d)) \/ (\E t \in crashed : d[2] = Name(t))

(* What a crashed process left running works in the folder it had.         *)
OrphansOK ==
  /\ orphans \subseteq [task : Tasks, dir : Folders, at : {"fetch", "encoding", "copy"}]
  /\ \A o \in orphans : o.task \in crashed /\ o.dir[2] = Name(o.task)

IInv == ProcsOK /\ FilesOK /\ Places /\ StampsOK /\ OutputsOK /\ TempOK /\ OrphansOK

-----------------------------------------------------------------------------
(* What the invariant says of the runs' properties.                        *)
LEMMA IInvTypeOK == IInv => TypeOK
BY DEF IInv, ProcsOK, FilesOK, StampsOK, OrphansOK, TypeOK

LEMMA IInvNoTempLeft == IInv => NoTempLeft
BY DEF IInv, TempOK, Keeps, NoTempLeft

(* A set of which all elements are equal has none or one.                  *)
LEMMA AtMostOne ==
  ASSUME NEW S, \A x, y \in S : x = y
  PROVE  Cardinality(S) = IF S = {} THEN 0 ELSE 1
<1>1. CASE S = {}
  BY <1>1, FS_EmptySet
<1>2. CASE S # {}
  <2>1. PICK x \in S : TRUE
    BY <1>2
  <2>2. S = {x}
    BY <2>1
  <2> QED BY <1>2, <2>2, FS_Singleton
<1> QED BY <1>1, <1>2

LEMMA IInvEachTaskOnce == IInv => EachTaskOnce
<1> SUFFICES ASSUME IInv, NEW t \in Tasks
             PROVE  Cardinality({w \in Workers : task[w] = t})
                      + Cardinality({n \in notices : n.task = t})
                      + Cardinality({t} \cap queue) + Cardinality({t} \cap unheard)
                      + Cardinality({t} \cap crashed) = 1
  BY DEF EachTaskOnce
<1> DEFINE C(b) == IF b THEN 1 ELSE 0
<1>1. t # NoTask
  BY EncodeTasksAssumption
<1>2. Cardinality({w \in Workers : task[w] = t}) = C(AtWork(t))
  <2>1. \A w, u \in {v \in Workers : task[v] = t} : w = u
    BY <1>1 DEF IInv, Places
  <2> QED BY <2>1, AtMostOne DEF AtWork
<1>3. Cardinality({n \in notices : n.task = t}) = C(Told(t))
  <2>1. \A n, m \in {k \in notices : k.task = t} : n = m
    BY DEF IInv, Places
  <2> QED BY <2>1, AtMostOne DEF Told
<1>4. ASSUME NEW S PROVE Cardinality({t} \cap S) = C(t \in S)
  BY AtMostOne
<1>5. /\ Cardinality({t} \cap queue) = C(t \in queue)
      /\ Cardinality({t} \cap unheard) = C(t \in unheard)
      /\ Cardinality({t} \cap crashed) = C(t \in crashed)
  BY <1>4
<1> HIDE DEF C
<1>6. /\ t \in queue \/ AtWork(t) \/ Told(t) \/ t \in unheard \/ t \in crashed
      /\ t \in queue => ~AtWork(t) /\ ~Told(t) /\ t \notin unheard /\ t \notin crashed
      /\ AtWork(t) => ~Told(t) /\ t \notin unheard /\ t \notin crashed
      /\ Told(t) => t \notin unheard /\ t \notin crashed
      /\ t \in unheard => t \notin crashed
  BY DEF IInv, Places
<1> QED BY <1>2, <1>3, <1>5, <1>6 DEF C

-----------------------------------------------------------------------------
LEMMA InitIInv == Init => IInv
<1> SUFFICES ASSUME Init PROVE IInv
  OBVIOUS
<1> USE EncodeTasksAssumption DEF Init
<1>1. ProcsOK
  BY DEF ProcsOK, PCs
<1>2. FilesOK
  BY DEF FilesOK
<1>3. Places
  BY DEF Places, AtWork, Told
<1>4. StampsOK
  BY DEF StampsOK, NoTime, InFolder
<1>5. OutputsOK /\ TempOK /\ OrphansOK
  BY DEF OutputsOK, OutputIsOwn, TempOK, OrphansOK
<1> QED BY <1>1, <1>2, <1>3, <1>4, <1>5 DEF IInv

LEMMA FoldersFixed == Folders' = Folders /\ Names' = Names
BY DEF Folders, Names

(* A process at work goes on, with the folder, the time and the message it *)
(* has.                                                                    *)
OnItsWay(w, to, r) ==
  /\ pc[w] # "idle" /\ to \in PCs \ {"idle", "begin"} /\ r \in {"none", "success", "failed"}
  /\ pc' = [pc EXCEPT ![w] = to] /\ result' = [result EXCEPT ![w] = r]
  /\ UNCHANGED <<taskVars, notices, clock, crashed, orphans>>
  /\ to \in InFolder => named[w] /\ r = "none"
  /\ to \in {"cleanup", "notify"} => r # "none"
  /\ r = "success" => named[w]

LEMMA OnItsWayProcs ==
  ASSUME IInv, NEW w \in Workers, NEW to, NEW r, OnItsWay(w, to, r)
  PROVE  /\ ProcsOK' /\ Places' /\ StampsOK' /\ OrphansOK'
         /\ pc'[w] = to /\ result'[w] = r
         /\ \A u \in Workers \ {w} : pc'[u] = pc[u] /\ result'[u] = result[u]
         /\ \A u \in Workers : Folder(u)' = Folder(u)
         /\ \A t \in Tasks : Name(t)' = Name(t) /\ (NameTaken(t)' <=> NameTaken(t))
<1>1. /\ pc[w] # "idle" /\ to \in PCs \ {"idle", "begin"} /\ r \in {"none", "success", "failed"}
      /\ pc' = [pc EXCEPT ![w] = to] /\ result' = [result EXCEPT ![w] = r]
      /\ UNCHANGED <<queue, task, stamp, named, unheard, notices, clock, crashed, orphans>>
  BY DEF OnItsWay, taskVars
<1>2. /\ pc'[w] = to /\ result'[w] = r
      /\ \A u \in Workers \ {w} : pc'[u] = pc[u] /\ result'[u] = result[u]
  BY <1>1 DEF IInv, ProcsOK
<1>3. ProcsOK'
  BY <1>1, <1>2 DEF IInv, ProcsOK
<1>4. Places'
  BY <1>1 DEF IInv, Places, AtWork, Told
<1>5. StampsOK'
  BY <1>1, <1>2 DEF IInv, StampsOK, OnItsWay
<1>6. /\ \A t \in Tasks : Name(t)' = Name(t)
      /\ \A u \in Workers : Folder(u)' = Folder(u)
  BY <1>1 DEF Folder, Name
<1>7. \A t \in Tasks : NameTaken(t)' <=> NameTaken(t)
  BY <1>1 DEF NameTaken, Name
<1>8. OrphansOK'
  BY <1>1, <1>6, FoldersFixed DEF IInv, OrphansOK
<1> QED BY <1>2, <1>3, <1>4, <1>5, <1>6, <1>7, <1>8

(* One that changes no output, and keeps its folder.                       *)
LEMMA OnItsWayFiles ==
  ASSUME IInv, NEW w \in Workers,
         NEW to \in PCs \ {"mkdir", "notify"}, NEW r \in {"none", "failed"},
         OnItsWay(w, to, r), to = "copy" => pc[w] = "mkdir",
         UNCHANGED <<temp, encoded, mux>>, fetched' \subseteq temp
  PROVE  IInv'
<1>1. /\ ProcsOK' /\ Places' /\ StampsOK' /\ OrphansOK'
      /\ pc'[w] = to /\ result'[w] = r
      /\ \A u \in Workers \ {w} : pc'[u] = pc[u] /\ result'[u] = result[u]
      /\ \A u \in Workers : Folder(u)' = Folder(u)
      /\ \A t \in Tasks : Name(t)' = Name(t) /\ (NameTaken(t)' <=> NameTaken(t))
  BY OnItsWayProcs
<1>2. UNCHANGED <<task, named, notices, crashed>>
  BY DEF OnItsWay, taskVars
<1>3. FilesOK'
  BY FoldersFixed DEF IInv, FilesOK
<1>4. OutputsOK'
  <2>1. \A u \in Workers : pc[u] # "idle" => task[u] \in Tasks
    BY DEF IInv, ProcsOK
  <2>2. OutputIsOwn'
    BY <1>1, <1>2 DEF IInv, ProcsOK, OutputsOK, OutputIsOwn
  <2>3. \A u \in Workers : pc'[u] \in {"mkdir", "copy"} => pc[u] \in {"mkdir", "copy"}
    BY <1>1
  <2>4. \A u \in Workers : result'[u] = "success" => result[u] = "success" /\ pc[u] # "idle"
    BY <1>1 DEF IInv, StampsOK
  <2> QED BY <1>1, <1>2, <2>1, <2>2, <2>3, <2>4 DEF IInv, OutputsOK
<1>5. TempOK'
  <2>1. \A u \in Workers, d \in temp : Keeps(u, d) => Keeps(u, d)'
    BY <1>1, <1>2 DEF Keeps
  <2> QED BY <1>1, <1>2, <2>1 DEF IInv, TempOK, ProcsOK
<1> QED BY <1>1, <1>3, <1>4, <1>5 DEF IInv

LEMMA NoLinkIInv ==
  ASSUME IInv, NEW w \in Workers, NoLink(w) PROVE IInv'
<1>1. OnItsWay(w, "cleanup", "failed")
  BY DEF NoLink, Fails, Goto, OnItsWay, PCs, InFolder
<1> QED BY <1>1, OnItsWayFiles DEF NoLink, fileVars, IInv, FilesOK, PCs

LEMMA FetchIInv ==
  ASSUME IInv, NEW w \in Workers, Fetch(w) \/ FetchFails(w) PROVE IInv'
<1> USE DEF IInv
<1>1. CASE Fetch(w)
  <2>1. OnItsWay(w, "encode", "none")
    BY <1>1 DEF Fetch, Passes, Goto, OnItsWay, PCs, InFolder, StampsOK, ProcsOK
  <2>2. fetched' \subseteq temp
    BY <1>1 DEF Fetch, Exists, FilesOK
  <2> QED BY <1>1, <2>1, <2>2, OnItsWayFiles DEF Fetch, PCs
<1>2. CASE FetchFails(w)
  <2>1. OnItsWay(w, "cleanup", "failed")
    BY <1>2 DEF FetchFails, Fails, Goto, OnItsWay, PCs, InFolder
  <2> QED BY <1>2, <2>1, OnItsWayFiles DEF FetchFails, fileVars, FilesOK, PCs
<1> QED BY <1>1, <1>2

LEMMA FailsIInv ==
  ASSUME IInv, NEW w \in Workers, EncodeFails(w) \/ MkdirFails(w) \/ CopyFails(w) PROVE IInv'
<1>1. OnItsWay(w, "cleanup", "failed")
  BY DEF EncodeFails, MkdirFails, CopyFails, Fails, Goto, OnItsWay, PCs, InFolder
<1> QED BY <1>1, OnItsWayFiles
        DEF EncodeFails, MkdirFails, CopyFails, fileVars, IInv, FilesOK, PCs

LEMMA MkdirIInv ==
  ASSUME IInv, NEW w \in Workers, Mkdir(w) PROVE IInv'
<1>1. OnItsWay(w, "copy", "none") /\ pc[w] = "mkdir"
  BY DEF Mkdir, Passes, Goto, OnItsWay, PCs, InFolder, IInv, StampsOK, ProcsOK
<1> QED BY <1>1, OnItsWayFiles DEF Mkdir, fileVars, IInv, FilesOK, PCs

LEMMA InNames ==
  /\ \A t \in Tasks, i \in 0..MaxTick : <<Kind[t], Input[t], i>> \in Names
  /\ \A w \in Workers, n \in Names : <<Machine[w], n>> \in Folders
BY DEF Names, Folders

LEMMA StampedName ==
  ASSUME NEW t \in Tasks, stamp[t] \in 0..MaxTick PROVE Name(t) \in Names
BY InNames DEF Name

(* A folder has the name of its task; two processes with one folder have   *)
(* tasks of one name.                                                      *)
LEMMA FolderFacts ==
  ASSUME IInv, NEW w \in Workers, named[w]
  PROVE  /\ task[w] \in Tasks /\ Name(task[w]) \in Names /\ Folder(w) \in Folders
         /\ \A u \in Workers \ {w} :
              task[u] \in Tasks /\ Name(task[u]) = Name(task[w]) => NameTaken(task[u])
         /\ \A u \in Workers \ {w} :
              task[u] \in Tasks /\ Folder(u) = Folder(w) => NameTaken(task[u])
<1>1. task[w] \in Tasks /\ stamp[task[w]] \in 0..MaxTick
  BY DEF IInv, StampsOK, ProcsOK
<1>2. Name(task[w]) \in Names
  BY <1>1, StampedName
<1>3. Folder(w) \in Folders
  BY <1>2, InNames DEF Folder
<1>4. \A u \in Workers \ {w} : task[u] \in Tasks => task[u] # task[w]
  BY <1>1, EncodeTasksAssumption DEF IInv, Places
<1>5. \A u \in Workers \ {w} :
         task[u] \in Tasks /\ Name(task[u]) = Name(task[w]) => NameTaken(task[u])
  BY <1>1, <1>4 DEF NameTaken
<1>6. \A u \in Workers : Folder(u) = Folder(w) => Name(task[u]) = Name(task[w])
  BY DEF Folder
<1> QED BY <1>1, <1>2, <1>3, <1>5, <1>6

(* The encoder writes into the folder of its own task.                     *)
LEMMA EncodeIInv ==
  ASSUME IInv, NEW w \in Workers, EncodeStart(w) \/ EncodeEnd(w) PROVE IInv'
<1> USE DEF IInv
<1> DEFINE to == IF pc[w] = "encode" THEN "encoding" ELSE "mkdir"
<1>1. OnItsWay(w, to, "none") /\ UNCHANGED <<temp, fetched, mux>>
  BY DEF EncodeStart, EncodeEnd, Passes, Goto, OnItsWay, PCs, InFolder, StampsOK, ProcsOK
<1>2. named[w] /\ pc[w] \in {"encode", "encoding"}
  BY DEF EncodeStart, EncodeEnd, Passes, Goto, InFolder, StampsOK
<1> HIDE DEF to
<1>3. /\ ProcsOK' /\ Places' /\ StampsOK' /\ OrphansOK'
      /\ pc'[w] = to /\ result'[w] = "none"
      /\ \A u \in Workers \ {w} : pc'[u] = pc[u] /\ result'[u] = result[u]
      /\ \A u \in Workers : Folder(u)' = Folder(u)
      /\ \A t \in Tasks : Name(t)' = Name(t) /\ (NameTaken(t)' <=> NameTaken(t))
  BY <1>1, OnItsWayProcs
<1>4. UNCHANGED <<task, named, notices, crashed>>
  BY <1>1 DEF OnItsWay, taskVars
<1>5. task[w] \in Tasks /\ Folder(w) \in Folders
  BY <1>2, FolderFacts
<1>6. /\ encoded' \in [Folders -> Tasks \cup {NoTask, Partial}]
      /\ \A d \in Folders \ {Folder(w)} : encoded'[d] = encoded[d]
      /\ to = "mkdir" => encoded'[Folder(w)] \in {task[w], NoTask}
  <2>1. CASE EncodeStart(w)
    BY <1>5, <2>1 DEF EncodeStart, Passes, Goto, FilesOK, to
  <2>2. CASE EncodeEnd(w)
    <3>1. CASE Exists(w) /\ encoded[Folder(w)] # NoTask
      BY <1>5, <2>2, <3>1 DEF EncodeEnd, FilesOK
    <3>2. CASE ~Exists(w)
      <4>1. encoded' = encoded
        BY <2>2, <3>2 DEF EncodeEnd
      <4> QED BY <1>5, <3>2, <4>1 DEF FilesOK, Exists
    <3>3. CASE encoded[Folder(w)] = NoTask
      BY <1>5, <2>2, <3>3 DEF EncodeEnd, FilesOK
    <3> QED BY <3>1, <3>2, <3>3
  <2> QED BY <2>1, <2>2
<1>7. FilesOK'
  <2>1. encoded[Folder(w)] = NoTask /\ Folder(w) \notin temp => encoded'[Folder(w)] = NoTask
    BY DEF EncodeStart, EncodeEnd, CanEncode, Exists
  <2> QED BY <1>1, <1>5, <1>6, <2>1, FoldersFixed DEF FilesOK
<1>8. ASSUME NEW u \in Workers, pc'[u] \in {"mkdir", "copy"}, ~NameTaken(task[u])
      PROVE  encoded'[Folder(u)] \in {task[u], NoTask}
  <2>1. CASE u = w
    BY <1>3, <1>6, <1>8, <2>1 DEF to
  <2>2. CASE u # w
    <3>1. pc[u] \in {"mkdir", "copy"} /\ named[u] /\ task[u] \in Tasks
      BY <1>3, <1>8, <2>2 DEF StampsOK, InFolder, ProcsOK
    <3>2. Folder(u) # Folder(w) /\ Folder(u) \in Folders
      BY <1>2, <1>8, <2>2, <3>1, FolderFacts
    <3> QED BY <1>6, <1>8, <3>1, <3>2 DEF OutputsOK
  <2> QED BY <2>1, <2>2
<1>9. OutputsOK'
  <2>1. \A u \in Workers : pc'[u] # "idle" => task[u] \in Tasks
    BY <1>3, <1>4 DEF ProcsOK
  <2>2. \A u \in Workers : result'[u] = "success" => result[u] = "success" /\ pc'[u] # "idle"
    BY <1>3 DEF StampsOK
  <2>3. OutputIsOwn'
    BY <1>1, <1>3, <1>4 DEF OutputsOK, OutputIsOwn, ProcsOK
  <2> QED BY <1>1, <1>3, <1>4, <1>8, <2>1, <2>2, <2>3 DEF OutputsOK
<1>10. TempOK'
  <2>1. \A u \in Workers, d \in temp : Keeps(u, d) => Keeps(u, d)'
    BY <1>3, <1>4 DEF Keeps, to
  <2> QED BY <1>1, <1>3, <1>4, <2>1 DEF TempOK, ProcsOK
<1> QED BY <1>3, <1>7, <1>9, <1>10

(* rsync copies what is in the folder of w to the folder of w's name.      *)
LEMMA CopyIInv ==
  ASSUME IInv, NEW w \in Workers, Copy(w) PROVE IInv'
<1> USE DEF IInv
<1>1. /\ pc[w] = "copy" /\ encoded[Folder(w)] # NoTask
      /\ mux' = [mux EXCEPT ![Name(task[w])] = encoded[Folder(w)]]
      /\ UNCHANGED <<temp, fetched, encoded>>
  BY DEF Copy, Goto, CanCopy
<1>2. named[w] /\ OnItsWay(w, "cleanup", "success")
  BY <1>1 DEF Copy, Goto, OnItsWay, PCs, InFolder, StampsOK
<1>3. /\ ProcsOK' /\ Places' /\ StampsOK' /\ OrphansOK'
      /\ pc'[w] = "cleanup" /\ result'[w] = "success"
      /\ \A u \in Workers \ {w} : pc'[u] = pc[u] /\ result'[u] = result[u]
      /\ \A u \in Workers : Folder(u)' = Folder(u)
      /\ \A t \in Tasks : Name(t)' = Name(t) /\ (NameTaken(t)' <=> NameTaken(t))
  BY <1>2, OnItsWayProcs
<1>4. UNCHANGED <<task, named, notices, crashed>>
  BY <1>2 DEF OnItsWay, taskVars
<1>5. task[w] \in Tasks /\ Name(task[w]) \in Names /\ Folder(w) \in Folders
  BY <1>2, FolderFacts
<1>6. FilesOK'
  BY <1>1, <1>5, FoldersFixed DEF FilesOK
<1>7. \A n \in Names \ {Name(task[w])} : mux'[n] = mux[n]
  BY <1>1 DEF FilesOK
<1>8. ~NameTaken(task[w]) => mux'[Name(task[w])] = task[w]
  BY <1>1, <1>5 DEF FilesOK, OutputsOK
<1>9. ASSUME NEW u \in Workers, result'[u] = "success", ~NameTaken(task[u])
      PROVE  mux'[Name(task[u])] = task[u]
  <2>1. CASE u = w
    BY <1>8, <1>9, <2>1
  <2>2. CASE u # w
    <3>1. result[u] = "success" /\ named[u]
      BY <1>3, <1>9, <2>2 DEF StampsOK
    <3>2. task[u] \in Tasks /\ Name(task[u]) \in Names
      BY <3>1, FolderFacts
    <3>3. Name(task[u]) # Name(task[w])
      BY <1>2, <1>9, <2>2, <3>2, FolderFacts
    <3> QED BY <1>7, <1>9, <3>1, <3>2, <3>3 DEF OutputsOK
  <2> QED BY <2>1, <2>2
<1>10. ASSUME NEW n \in notices, n.action = "success", ~NameTaken(n.task)
       PROVE  mux'[Name(n.task)] = n.task
  <2>1. n.task \in Tasks /\ n.task # task[w]
    BY <1>5 DEF ProcsOK, Places, AtWork, Told
  <2>2. Name(n.task) # Name(task[w])
    BY <1>5, <1>10, <2>1 DEF NameTaken
  <2>3. Name(n.task) \in Names
    BY <1>10, <2>1, StampedName DEF StampsOK
  <2> QED BY <1>7, <1>10, <2>2, <2>3 DEF OutputsOK, OutputIsOwn
<1>11. OutputsOK'
  <2>1. \A u \in Workers : pc'[u] # "idle" => task[u] \in Tasks
    BY <1>3, <1>4 DEF ProcsOK
  <2>2. \A u \in Workers : result'[u] = "success" => pc'[u] # "idle"
    BY <1>3 DEF StampsOK
  <2>3. OutputIsOwn'
    BY <1>3, <1>4, <1>10 DEF OutputIsOwn, ProcsOK
  <2>4. \A u \in Workers : pc'[u] \in {"mkdir", "copy"} => pc[u] \in {"mkdir", "copy"}
    BY <1>3
  <2> QED BY <1>1, <1>3, <1>4, <1>9, <2>1, <2>2, <2>3, <2>4 DEF OutputsOK
<1>12. TempOK'
  <2>1. \A u \in Workers, d \in temp : Keeps(u, d) => Keeps(u, d)'
    BY <1>3, <1>4 DEF Keeps
  <2> QED BY <1>1, <1>3, <1>4, <2>1 DEF TempOK, ProcsOK
<1> QED BY <1>3, <1>6, <1>11, <1>12

(* The folder of w goes, or somebody else has to remove it, too.           *)
LEMMA CleanupIInv ==
  ASSUME IInv, NEW w \in Workers, Cleanup(w) \/ CleanupFails(w) PROVE IInv'
<1> USE DEF IInv
<1>1. PICK dirs \in SUBSET ToRemove(w) :
        /\ temp' = temp \ dirs /\ fetched' = fetched \ dirs
        /\ encoded' = [d \in Folders |-> IF d \in dirs THEN NoTask ELSE encoded[d]]
        /\ dirs = ToRemove(w) \/ Shared(w)
  BY DEF Cleanup, CleanupFails, Remove
<1>2. UNCHANGED mux /\ dirs \subseteq {Folder(w)}
  BY DEF Cleanup, CleanupFails, ToRemove
<1>3. PICK r \in {"success", "failed"} :
        OnItsWay(w, "notify", r) /\ (r = "success" => result[w] = "success")
  <2>1. CASE Cleanup(w)
    <3>1. pc[w] = "cleanup" /\ pc' = [pc EXCEPT ![w] = "notify"] /\ result' = result
          /\ UNCHANGED <<taskVars, notices, clock, crashed, orphans>>
      BY <2>1 DEF Cleanup, Passes, Goto
    <3>2. result[w] \in {"success", "failed"} /\ (result[w] = "success" => named[w])
      BY <3>1 DEF StampsOK, ProcsOK
    <3>3. result' = [result EXCEPT ![w] = result[w]]
      BY <3>1 DEF ProcsOK
    <3>4. OnItsWay(w, "notify", result[w])
      BY <3>1, <3>2, <3>3 DEF OnItsWay, PCs, InFolder
    <3> QED BY <3>2, <3>4
  <2>2. CASE CleanupFails(w)
    <3>1. OnItsWay(w, "notify", "failed")
      BY <2>2 DEF CleanupFails, Goto, OnItsWay, PCs, InFolder
    <3> QED BY <3>1
  <2> QED BY <2>1, <2>2
<1>4. /\ ProcsOK' /\ Places' /\ StampsOK' /\ OrphansOK'
      /\ pc'[w] = "notify" /\ result'[w] = r
      /\ \A u \in Workers \ {w} : pc'[u] = pc[u] /\ result'[u] = result[u]
      /\ \A u \in Workers : Folder(u)' = Folder(u)
      /\ \A t \in Tasks : Name(t)' = Name(t) /\ (NameTaken(t)' <=> NameTaken(t))
  BY <1>3, OnItsWayProcs
<1>5. UNCHANGED <<task, named, notices, crashed>>
  BY <1>3 DEF OnItsWay, taskVars
<1>6. FilesOK'
  BY <1>1, <1>2, FoldersFixed DEF FilesOK
<1>7. OutputsOK'
  <2>1. \A u \in Workers : pc'[u] # "idle" => task[u] \in Tasks
    BY <1>4, <1>5 DEF ProcsOK
  <2>2. \A u \in Workers : result'[u] = "success" => result[u] = "success" /\ pc'[u] # "idle"
    BY <1>3, <1>4 DEF StampsOK
  <2>3. OutputIsOwn'
    BY <1>2, <1>4, <1>5 DEF OutputsOK, OutputIsOwn, ProcsOK
  <2>4. \A u \in Workers : pc'[u] \in {"mkdir", "copy"} =>
          /\ pc[u] \in {"mkdir", "copy"} /\ Folder(u) \in Folders
          /\ encoded'[Folder(u)] \in {encoded[Folder(u)], NoTask}
    <3>1. \A u \in Workers : pc'[u] \in {"mkdir", "copy"} =>
             pc[u] \in {"mkdir", "copy"} /\ named[u]
      BY <1>4 DEF StampsOK, InFolder
    <3>2. \A u \in Workers : pc'[u] \in {"mkdir", "copy"} => Folder(u) \in Folders
      BY <3>1, FolderFacts
    <3> QED BY <1>1, <1>2, <3>1, <3>2
  <2> QED BY <1>2, <1>4, <1>5, <2>1, <2>2, <2>3, <2>4 DEF OutputsOK
<1>8. TempOK'
  <2> SUFFICES ASSUME NEW d \in temp', ~\E t \in crashed : d[2] = Name(t)
               PROVE  \E u \in Workers : Keeps(u, d)'
    BY <1>4, <1>5 DEF TempOK, ProcsOK
  <2>1. PICK v \in Workers : Keeps(v, d)
    BY <1>1 DEF TempOK
  <2>2. CASE v # w
    BY <1>4, <1>5, <2>1, <2>2 DEF Keeps
  <2>3. CASE v = w
    <3>1. Shared(w) /\ d = Folder(w)
      BY <1>1, <1>2, <2>1, <2>3 DEF Keeps, ToRemove
    <3>3. ~\E o \in orphans : o.dir = Folder(w)
      BY <3>1 DEF OrphansOK
    <3>2. PICK u \in Workers \ {w} : Keeps(u, d)
      BY <2>1, <2>3, <3>1, <3>3 DEF Shared, Keeps
    <3> QED BY <1>4, <1>5, <3>2 DEF Keeps
  <2> QED BY <2>2, <2>3
<1> QED BY <1>4, <1>6, <1>7, <1>8

-----------------------------------------------------------------------------
(* The steps that name a folder.                                           *)
LEMMA NamingIInv ==
  ASSUME IInv, NEW w \in Workers, Begin(w) \/ BeginFails(w) PROVE IInv'
<1> USE DEF IInv
<1> DEFINE t == task[w]
<1>1. /\ pc[w] = "begin" /\ pc' = [pc EXCEPT ![w] = pc'[w]]
      /\ pc'[w] \in {"fetch", "encode", "cleanup"}
      /\ result' = [result EXCEPT ![w] = result'[w]]
      /\ result'[w] = IF pc'[w] = "cleanup" THEN "failed" ELSE "none"
      /\ stamp' = [stamp EXCEPT ![t] = clock] /\ named' = [named EXCEPT ![w] = TRUE]
      /\ UNCHANGED <<fetched, encoded, mux, queue, task, unheard, notices, clock, crashed, orphans>>
  <2>1. CASE Begin(w)
    BY <2>1 DEF Begin, Passes, Goto, TakeName, StampsOK, ProcsOK
  <2>2. CASE BeginFails(w)
    BY <2>2 DEF BeginFails, Fails, Goto, TakeName, fileVars, ProcsOK
  <2> QED BY <2>1, <2>2
<1>2. temp' = temp \/ temp' = temp \cup {Folder(w)'}
  <2>1. t \in Tasks /\ pc[w] = "begin"
    BY <1>1 DEF ProcsOK
  <2>2. Folder(w)' = <<Machine[w], <<Kind[t], Input[t], clock>>>>
    BY <1>1, <2>1 DEF Folder, Name, StampsOK
  <2> QED BY <2>2 DEF Begin, BeginFails, fileVars
<1>3. /\ t \in Tasks /\ stamp[t] = NoTime /\ stamp'[t] = clock /\ clock \in 0..MaxTick
      /\ \A x \in Tasks \ {t} : stamp'[x] = stamp[x]
      /\ ~named[w] /\ named'[w]
      /\ \A u \in Workers \ {w} :
            pc'[u] = pc[u] /\ result'[u] = result[u] /\ named'[u] = named[u]
  BY <1>1 DEF ProcsOK, StampsOK
<1>4. NoTime \notin 0..MaxTick /\ clock # NoTime
  BY <1>3, EncodeTasksAssumption DEF NoTime
<1>5. \A x \in Tasks \ {t} : Name(x)' = Name(x)
  BY <1>3 DEF Name
<1>6. \A u \in Workers \ {w} :
         task[u] \in Tasks => task[u] # t /\ Folder(u)' = Folder(u) /\ task'[u] = task[u]
  BY <1>1, <1>3, <1>5, EncodeTasksAssumption DEF Folder, Places
<1>7. ASSUME NEW x \in Tasks \ {t}, stamp[x] # NoTime, NameTaken(x)
      PROVE  NameTaken(x)'
  <2>1. PICK u \in Tasks \ {x} : Name(u) = Name(x)
    BY <1>7 DEF NameTaken
  <2>2. u # t
    BY <1>3, <1>7, <2>1 DEF Name
  <2> QED BY <1>5, <2>1, <2>2 DEF NameTaken
<1> HIDE DEF t
<1>8. ProcsOK'
  BY <1>1, <1>3 DEF ProcsOK, PCs
<1>9. FilesOK'
  <2>1. Folder(w)' \in Folders
    BY <1>1, <1>3, InNames DEF Folder, Name, t
  <2> QED BY <1>1, <1>2, <2>1, FoldersFixed DEF FilesOK
<1>10. Places'
  BY <1>1 DEF Places, AtWork, Told
<1>11. StampsOK'
  <2>1. stamp' \in [Tasks -> 0..NoTime]
    BY <1>1, <1>3, EncodeTasksAssumption DEF StampsOK, NoTime
  <2>2. \A x \in queue : stamp'[x] = NoTime
    BY <1>3 DEF StampsOK, Places, AtWork, ProcsOK, t
  <2>3. \A n \in notices : n.action = "success" => stamp'[n.task] \in 0..MaxTick
    BY <1>3 DEF StampsOK, ProcsOK
  <2>4. ASSUME NEW u \in Workers
        PROVE  /\ pc'[u] = "begin" => stamp'[task[u]] = NoTime
               /\ pc'[u] \in {"idle", "begin"} => ~named'[u] /\ result'[u] = "none"
               /\ named'[u] => stamp'[task[u]] \in 0..MaxTick
               /\ pc'[u] \in InFolder => named'[u] /\ result'[u] = "none"
               /\ pc'[u] \in {"cleanup", "notify"} => result'[u] # "none"
               /\ result'[u] = "success" => named'[u]
    <3>1. CASE u = w
      BY <1>1, <1>3, <3>1 DEF InFolder, t
    <3>2. CASE u # w
      <4>1. named[u] \/ pc[u] = "begin" => task[u] \in Tasks
        BY DEF ProcsOK, StampsOK
      <4> QED BY <1>3, <1>6, <3>2, <4>1 DEF StampsOK
    <3> QED BY <3>1, <3>2
  <2> QED BY <1>1, <2>1, <2>2, <2>3, <2>4 DEF StampsOK, NoTime
<1>12. OutputsOK'
  <2>1. ASSUME NEW u \in Workers, pc'[u] \in {"mkdir", "copy"} \/ result'[u] = "success",
               ~NameTaken(task[u])'
        PROVE  /\ pc'[u] \in {"mkdir", "copy"} => encoded[Folder(u)'] \in {task[u], NoTask}
               /\ result'[u] = "success" => mux[Name(task[u])'] = task[u]
    <3>1. u # w /\ named[u] /\ task[u] \in Tasks \ {t}
      BY <1>1, <1>3, <1>6, <2>1 DEF StampsOK, InFolder, ProcsOK
    <3>2. ~NameTaken(task[u])
      BY <1>1, <1>4, <1>7, <2>1, <3>1 DEF StampsOK
    <3>3. Name(task[u])' = Name(task[u]) /\ Folder(u)' = Folder(u)
      BY <1>1, <1>5, <1>6, <3>1
    <3> QED BY <1>3, <2>1, <3>1, <3>2, <3>3 DEF OutputsOK
  <2>2. ASSUME NEW n \in notices, n.action = "success", ~NameTaken(n.task)'
        PROVE  mux[Name(n.task)'] = n.task
    <3>1. n.task \in Tasks \ {t} /\ stamp[n.task] # NoTime
      BY <1>3, <1>4, <2>2 DEF StampsOK, ProcsOK
    <3> QED BY <1>5, <1>7, <2>2, <3>1 DEF OutputsOK, OutputIsOwn
  <2>3. OutputIsOwn'
    BY <1>1, <2>2 DEF OutputIsOwn
  <2> QED BY <1>1, <2>1, <2>3 DEF OutputsOK
<1>13. TempOK'
  <2>1. \A d : d = Folder(w)' => Keeps(w, d)'
    BY <1>1, <1>3 DEF Keeps
  <2>2. \A u \in Workers, d \in temp : Keeps(u, d) => Keeps(u, d)'
    <3> SUFFICES ASSUME NEW u \in Workers, NEW d \in temp, Keeps(u, d) PROVE Keeps(u, d)'
      OBVIOUS
    <3>1. u # w /\ task[u] \in Tasks
      BY <1>3 DEF Keeps, ProcsOK, StampsOK
    <3> QED BY <1>3, <1>6, <3>1 DEF Keeps
  <2>3. \A x \in crashed : Name(x)' = Name(x)
    BY <1>3, <1>5 DEF ProcsOK, Places, AtWork, t
  <2> QED BY <1>1, <1>2, <2>1, <2>2, <2>3 DEF TempOK
<1>14. OrphansOK'
  <2>1. \A x \in crashed : x \in Tasks \ {t}
    BY <1>3 DEF ProcsOK, Places, AtWork, t
  <2> QED BY <1>1, <1>5, <2>1, FoldersFixed DEF OrphansOK
<1> QED BY <1>8, <1>9, <1>10, <1>11, <1>12, <1>13, <1>14

-----------------------------------------------------------------------------
(* The steps that move a message.                                          *)
LEMMA AcceptIInv ==
  ASSUME IInv, NEW w \in Workers, Accept(w) PROVE IInv'
<1> USE DEF IInv
<1>1. PICK t \in queue : task' = [task EXCEPT ![w] = t] /\ queue' = queue \ {t}
  BY DEF Accept, Acknowledge
<1>2. /\ pc[w] = "idle" /\ pc' = [pc EXCEPT ![w] = "begin"]
      /\ UNCHANGED <<temp, fetched, encoded, mux, stamp, named, unheard, result, notices, clock,
                     crashed, orphans>>
  BY DEF Accept, Goto, fileVars
<1>3. /\ t \in Tasks /\ task[w] = NoTask /\ task'[w] = t /\ pc'[w] = "begin" /\ ~named[w]
      /\ \A u \in Workers \ {w} : task'[u] = task[u] /\ pc'[u] = pc[u]
      /\ \A u \in Workers : task[u] # t
  BY <1>1, <1>2 DEF ProcsOK, StampsOK, Places, AtWork
<1>4. ProcsOK'
  BY <1>1, <1>2, <1>3, EncodeTasksAssumption DEF ProcsOK, PCs
<1>5. FilesOK'
  BY <1>2, FoldersFixed DEF FilesOK
<1>6. Places'
  <2>1. \A x \in Tasks : AtWork(x)' <=> AtWork(x) \/ x = t
    BY <1>3, EncodeTasksAssumption DEF AtWork
  <2> QED BY <1>1, <1>2, <1>3, <2>1 DEF Places, Told
<1>7. StampsOK'
  BY <1>1, <1>2, <1>3 DEF StampsOK, InFolder
<1>8. \A x \in Tasks : Name(x)' = Name(x) /\ (NameTaken(x)' <=> NameTaken(x))
  BY <1>2 DEF Name, NameTaken
<1>9. \A u \in Workers \ {w} : Folder(u)' = Folder(u)
  BY <1>2, <1>3 DEF Folder, Name
<1>10. OutputsOK'
  <2>1. OutputIsOwn'
    BY <1>2, <1>8 DEF OutputsOK, OutputIsOwn, ProcsOK
  <2>2. ASSUME NEW u \in Workers, pc'[u] \in {"mkdir", "copy"} \/ result[u] = "success"
        PROVE  u # w /\ task[u] \in Tasks
    BY <1>2, <1>3, <2>2 DEF StampsOK, ProcsOK
  <2> QED BY <1>2, <1>3, <1>8, <1>9, <2>1, <2>2 DEF OutputsOK
<1>11. TempOK'
  <2>1. \A u \in Workers, d \in temp : Keeps(u, d) => Keeps(u, d)'
    BY <1>2, <1>3, <1>9 DEF Keeps
  <2> QED BY <1>2, <1>8, <2>1 DEF TempOK, ProcsOK
<1>12. OrphansOK'
  BY <1>2, <1>8, FoldersFixed DEF OrphansOK
<1> QED BY <1>4, <1>5, <1>6, <1>7, <1>10, <1>11, <1>12

(* A process is done with its task, or dead: the API is told, or not.      *)
LEMMA LeaveIInv ==
  ASSUME IInv, NEW w \in Workers, Notify(w) \/ NotifyFails(w) \/ Crash(w) PROVE IInv'
<1> USE DEF IInv
<1>0. PICK t : t = task[w]
  OBVIOUS
<1> DEFINE n == [task |-> t, action |-> result[w]]
<1>1. /\ pc[w] # "idle" /\ pc' = [pc EXCEPT ![w] = "idle"] /\ task' = [task EXCEPT ![w] = NoTask]
      /\ named' = [named EXCEPT ![w] = FALSE] /\ result' = [result EXCEPT ![w] = "none"]
      /\ UNCHANGED <<temp, fetched, encoded, mux, queue, stamp, clock>>
  BY DEF Notify, NotifyFails, Crash, Leave, fileVars
<1>2. \/ /\ pc[w] = "notify" /\ notices' = notices \cup {n} /\ UNCHANGED <<unheard, crashed>>
      \/ /\ pc[w] = "notify" /\ unheard' = unheard \cup {t} /\ UNCHANGED <<notices, crashed>>
      \/ crashed' = crashed \cup {t} /\ UNCHANGED <<notices, unheard>>
  BY <1>0 DEF Notify, NotifyFails, Crash, Action
<1>3. /\ t = task[w] /\ t \in Tasks /\ task'[w] = NoTask
      /\ pc'[w] = "idle" /\ ~named'[w] /\ result'[w] = "none"
      /\ \A u \in Workers \ {w} : /\ task'[u] = task[u] /\ pc'[u] = pc[u]
                                  /\ named'[u] = named[u] /\ result'[u] = result[u]
  BY <1>0, <1>1 DEF ProcsOK
<1>4. n.task = t /\ n.action = result[w] /\ t # NoTask
  BY <1>3, EncodeTasksAssumption
<1>5. pc[w] = "notify" => n \in [task : Tasks, action : {"success", "failed"}]
  BY <1>3 DEF StampsOK, ProcsOK
<1>6. /\ ~Told(t) /\ t \notin queue /\ t \notin unheard /\ t \notin crashed
      /\ \A u \in Workers : task[u] = t => u = w
  BY <1>3, <1>4 DEF Places, AtWork
<1> HIDE DEF n
<1>7. ProcsOK'
  BY <1>1, <1>2, <1>3, <1>5 DEF ProcsOK, PCs
<1>8. FilesOK'
  BY <1>1, FoldersFixed DEF FilesOK
<1>9. Places'
  <2>1. \A x \in Tasks : AtWork(x)' <=> AtWork(x) /\ x # t
    BY <1>3, <1>4, <1>6, EncodeTasksAssumption DEF AtWork
  <2>2. notices' = notices \/ notices' = notices \cup {n}
    BY <1>2
  <2>3. \A x \in Tasks : Told(x)' <=> Told(x) \/ (x = t /\ n \in notices')
    BY <1>4, <1>6, <2>2 DEF Told
  <2>4. \A x, y \in notices' : x.task = y.task => x = y
    BY <1>2, <1>4, <1>6 DEF Places, Told
  <2>5. \A x \in Tasks \ {t} : /\ x \in unheard' <=> x \in unheard
                               /\ x \in crashed' <=> x \in crashed
    BY <1>2
  <2>6. n \notin notices
    BY <1>4, <1>6 DEF Told
  <2>7. \/ n \in notices' /\ t \notin unheard' /\ t \notin crashed'
        \/ n \notin notices' /\ t \in unheard' /\ t \notin crashed'
        \/ n \notin notices' /\ t \notin unheard' /\ t \in crashed'
    BY <1>2, <1>6, <2>6
  <2>8. \A u, v \in Workers : task'[u] = task'[v] /\ task'[u] # NoTask => u = v
    BY <1>3 DEF Places
  <2>9. ASSUME NEW x \in Tasks
        PROVE  /\ x \in queue' \/ AtWork(x)' \/ Told(x)' \/ x \in unheard' \/ x \in crashed'
               /\ x \in queue' => ~AtWork(x)' /\ ~Told(x)' /\ x \notin unheard' /\ x \notin crashed'
               /\ AtWork(x)' => ~Told(x)' /\ x \notin unheard' /\ x \notin crashed'
               /\ Told(x)' => x \notin unheard' /\ x \notin crashed'
               /\ x \in unheard' => x \notin crashed'
    <3>1. CASE x = t
      <4>1. ~AtWork(x)' /\ (Told(x)' <=> n \in notices') /\ x \notin queue'
        BY <1>1, <1>6, <2>1, <2>3, <3>1
      <4> QED BY <2>7, <3>1, <4>1
    <3>2. CASE x # t
      <4>1. /\ AtWork(x)' <=> AtWork(x)
            /\ Told(x)' <=> Told(x)
            /\ x \in queue' <=> x \in queue
            /\ x \in unheard' <=> x \in unheard
            /\ x \in crashed' <=> x \in crashed
        BY <1>1, <2>1, <2>3, <2>5, <3>2
      <4> QED BY <4>1 DEF Places
    <3> QED BY <3>1, <3>2
  <2> QED BY <2>4, <2>8, <2>9 DEF Places
<1>10. StampsOK'
  <2>1. result[w] = "success" => stamp[t] \in 0..MaxTick
    BY <1>3, <1>4 DEF StampsOK
  <2>2. \A x \in notices' : x.action = "success" => stamp[x.task] \in 0..MaxTick
    BY <1>2, <1>4, <2>1 DEF StampsOK
  <2> QED BY <1>1, <1>3, <2>2 DEF StampsOK, InFolder, NoTime
<1>11. \A x \in Tasks : Name(x)' = Name(x) /\ (NameTaken(x)' <=> NameTaken(x))
  BY <1>1 DEF Name, NameTaken
<1>12. \A u \in Workers \ {w} : Folder(u)' = Folder(u)
  BY <1>1, <1>3 DEF Folder, Name
<1>13. OutputsOK'
  <2>1. OutputIsOwn'
    BY <1>1, <1>2, <1>3, <1>4, <1>7, <1>11 DEF OutputsOK, OutputIsOwn, ProcsOK
  <2>2. ASSUME NEW u \in Workers, pc'[u] \in {"mkdir", "copy"} \/ result'[u] = "success"
        PROVE  u # w /\ task[u] \in Tasks
    BY <1>3, <2>2 DEF StampsOK, ProcsOK
  <2> QED BY <1>1, <1>3, <1>11, <1>12, <2>1, <2>2 DEF OutputsOK
<1>14. TempOK'
  <2>1. \A u \in Workers \ {w}, d \in temp : Keeps(u, d) => Keeps(u, d)'
    BY <1>3, <1>12 DEF Keeps
  <2>2. \A d \in temp : Keeps(w, d) => t \in crashed' /\ d[2] = Name(t)
    BY <1>2, <1>3 DEF Keeps, Folder
  <2>3. crashed \subseteq crashed' /\ crashed' \subseteq Tasks
    BY <1>2, <1>7 DEF ProcsOK
  <2> QED BY <1>1, <1>11, <2>1, <2>2, <2>3 DEF TempOK
<1>15. OrphansOK'
  <2>1. \/ orphans' = orphans /\ crashed \subseteq crashed'
        \/ orphans' = orphans \cup Orphans(w) /\ crashed' = crashed \cup {t}
    BY <1>0, <1>2 DEF Notify, NotifyFails, Crash
  <2>2. \A o \in Orphans(w) :
          /\ o \in [task : Tasks, dir : Folders, at : {"fetch", "encoding", "copy"}]
          /\ o.task = t /\ o.dir[2] = Name(t)
    <3>1. CASE pc[w] \in {"fetch", "encoding", "copy"}
      <4>1. Folder(w) \in Folders
        BY <3>1, FolderFacts DEF StampsOK, InFolder
      <4>2. Folder(w)[2] = Name(t)
        BY <1>3 DEF Folder
      <4> QED BY <1>3, <3>1, <4>1, <4>2 DEF Orphans
    <3>2. CASE pc[w] \notin {"fetch", "encoding", "copy"}
      BY <3>2 DEF Orphans
    <3> QED BY <3>1, <3>2
  <2> QED BY <1>3, <1>11, <2>1, <2>2, FoldersFixed DEF OrphansOK
<1> QED BY <1>7, <1>8, <1>9, <1>10, <1>13, <1>14, <1>15

(* A command that a crash left running ends: whoever works under its name  *)
(* has another task of this name.                                          *)
LEMMA OrphanIInv ==
  ASSUME IInv, NEW o \in orphans, OrphanStep(o) PROVE IInv'
<1> USE DEF IInv
<1>1. /\ orphans' = orphans \ {o}
      /\ UNCHANGED <<queue, task, stamp, named, unheard, temp, pc, result, notices, clock,
                     crashed>>
  BY DEF OrphanStep, OrphanFetches, OrphanEncodes, OrphanCopies, OrphanFails, OrphanEnds,
         taskVars
<1>2. /\ o.task \in Tasks /\ o.task \in crashed /\ o.dir \in Folders
      /\ o.dir[2] = Name(o.task)
  BY DEF OrphansOK
<1>3. /\ \A t \in Tasks : Name(t)' = Name(t) /\ (NameTaken(t)' <=> NameTaken(t))
      /\ \A u \in Workers : Folder(u)' = Folder(u)
  BY <1>1 DEF Name, NameTaken, Folder
<1>4. /\ fetched' \subseteq temp
      /\ \A d \in Folders \ {o.dir} : encoded'[d] = encoded[d]
      /\ encoded[o.dir] = NoTask => encoded'[o.dir] = NoTask
      /\ encoded' \in [Folders -> Tasks \cup {NoTask, Partial}]
  BY <1>2 DEF OrphanStep, OrphanFetches, OrphanEncodes, OrphanCopies, OrphanFails, FilesOK
<1>5. /\ mux' \in [Names -> Tasks \cup {NoTask, Partial}]
      /\ \A n \in Names \ {Name(o.task)} : mux'[n] = mux[n]
  BY <1>2 DEF OrphanStep, OrphanFetches, OrphanEncodes, OrphanCopies, OrphanFails, FilesOK
<1>6. ASSUME NEW t \in Tasks, t \notin crashed, ~NameTaken(t) PROVE Name(t) # Name(o.task)
  BY <1>2, <1>6 DEF NameTaken
<1>7. \A u \in Workers : pc[u] # "idle" => task[u] \in Tasks /\ task[u] \notin crashed
  BY DEF ProcsOK, Places, AtWork
<1>8. ProcsOK' /\ Places' /\ StampsOK'
  BY <1>1 DEF ProcsOK, Places, AtWork, Told, StampsOK, NoTime
<1>9. FilesOK'
  BY <1>1, <1>4, <1>5, FoldersFixed DEF FilesOK
<1>10. ASSUME NEW u \in Workers, pc[u] \in {"mkdir", "copy"}, ~NameTaken(task[u])
       PROVE  encoded'[Folder(u)] \in {task[u], NoTask}
  <2>1. task[u] \in Tasks /\ task[u] \notin crashed /\ named[u]
    BY <1>7, <1>10 DEF StampsOK, InFolder
  <2>2. Folder(u) \in Folders /\ Folder(u) # o.dir
    BY <1>2, <1>6, <1>10, <2>1, FolderFacts DEF Folder
  <2> QED BY <1>4, <1>10, <2>2 DEF OutputsOK
<1>11. ASSUME NEW u \in Workers, result[u] = "success", ~NameTaken(task[u])
       PROVE  mux'[Name(task[u])] = task[u]
  <2>1. named[u] /\ pc[u] # "idle"
    BY <1>11 DEF StampsOK
  <2>2. Name(task[u]) \in Names /\ Name(task[u]) # Name(o.task)
    BY <1>6, <1>7, <1>11, <2>1, FolderFacts
  <2> QED BY <1>5, <1>11, <2>2 DEF OutputsOK
<1>12. ASSUME NEW n \in notices, n.action = "success", ~NameTaken(n.task)
       PROVE  mux'[Name(n.task)] = n.task
  <2>1. n.task \in Tasks /\ n.task \notin crashed
    BY DEF ProcsOK, Places, Told
  <2>2. Name(n.task) \in Names
    BY <1>12, <2>1, StampedName DEF StampsOK
  <2> QED BY <1>5, <1>6, <1>12, <2>1, <2>2 DEF OutputsOK, OutputIsOwn
<1>13. OutputsOK'
  <2>1. OutputIsOwn'
    BY <1>1, <1>3, <1>12 DEF OutputIsOwn, ProcsOK
  <2>2. \A u \in Workers : result[u] = "success" => pc[u] # "idle"
    BY DEF StampsOK
  <2> QED BY <1>1, <1>3, <1>7, <1>10, <1>11, <2>1, <2>2 DEF OutputsOK
<1>14. TempOK'
  <2>1. \A u \in Workers, d \in temp : Keeps(u, d) => Keeps(u, d)'
    BY <1>1, <1>3 DEF Keeps
  <2> QED BY <1>1, <1>3, <2>1 DEF TempOK, ProcsOK
<1>15. OrphansOK'
  BY <1>1, <1>3, FoldersFixed DEF OrphansOK
<1> QED BY <1>8, <1>9, <1>13, <1>14, <1>15

LEMMA StillIInv ==
  ASSUME IInv, UNCHANGED <<taskVars, fileVars, pc, result, notices, crashed, orphans>>,
         clock' \in 0..MaxTick
  PROVE  IInv'
<1> USE DEF IInv, taskVars, fileVars
<1>1. ProcsOK' /\ FilesOK'
  BY FoldersFixed DEF ProcsOK, FilesOK
<1>2. Places' /\ StampsOK'
  BY DEF Places, AtWork, Told, StampsOK, NoTime
<1>3. OutputsOK' /\ TempOK' /\ OrphansOK'
  BY FoldersFixed DEF OutputsOK, OutputIsOwn, NameTaken, Name, Folder, TempOK, Keeps, OrphansOK
<1> QED BY <1>1, <1>2, <1>3

LEMMA NextIInv == IInv /\ [Next]_vars => IInv'
<1> SUFFICES ASSUME IInv, [Next]_vars PROVE IInv'
  OBVIOUS
<1>1. CASE Tick
  <2>1. clock' \in 0..MaxTick
    BY <1>1, EncodeTasksAssumption DEF Tick, IInv, StampsOK
  <2> QED BY <1>1, <2>1, StillIInv DEF Tick
<1>2. CASE UNCHANGED vars
  BY <1>2, StillIInv DEF vars, IInv, StampsOK
<1>3. ASSUME NEW w \in Workers, WorkerStep(w) PROVE IInv'
  BY <1>3, AcceptIInv, NamingIInv, NoLinkIInv, FetchIInv, EncodeIInv, FailsIInv, MkdirIInv,
     CopyIInv, CleanupIInv, LeaveIInv DEF WorkerStep
<1>4. ASSUME NEW w \in Workers, Crash(w) PROVE IInv'
  BY <1>4, LeaveIInv
<1>5. ASSUME NEW o \in orphans, OrphanStep(o) PROVE IInv'
  BY <1>5, OrphanIInv
<1> QED BY <1>1, <1>2, <1>3, <1>4, <1>5 DEF Next, Finished

-----------------------------------------------------------------------------
(* The inductive invariant holds whatever the workers do, fail or lose:    *)
(* tasks, folders and notices agree in every reachable state.              *)
THEOREM EncodeInvariant == Spec => []IInv
BY InitIInv, NextIInv, PTL DEF Spec

(* Every variable of the encoding workers keeps its type, and a process    *)
(* has a message just when it is at work (tasks.py: the task object).      *)
THEOREM TypeCorrect == Spec => []TypeOK
BY EncodeInvariant, IInvTypeOK, PTL

(* A message is at the broker, with one process, told to the API once, or  *)
(* lost: it is never encoded by two processes, and never told twice        *)
(* (BaseTask.on_success and on_failure exclude each other).                *)
THEOREM TaskOnce == Spec => []EachTaskOnce
BY EncodeInvariant, IInvEachTaskOnce, PTL

(* What the API is told of as a success is the whole output of that very   *)
(* task in the folder of its name on the mux machine, unless another task  *)
(* took the same name; whoever fails or dies on the way.                   *)
THEOREM OwnOutput == Spec => []OutputIsOwn
<1>1. IInv => OutputIsOwn
  BY DEF IInv, OutputsOK
<1> QED BY <1>1, EncodeInvariant, PTL

(* The finally clause of the tasks leaves no folder in /tmp but those of   *)
(* crashed processes, although a process may fail to remove its own.       *)
THEOREM TempRemoved == Spec => []NoTempLeft
BY EncodeInvariant, IInvNoTempLeft, PTL
=============================================================================
