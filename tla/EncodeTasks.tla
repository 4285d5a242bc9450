---------------------------- MODULE EncodeTasks -----------------------------
(***************************************************************************)
(* The encoding workers of the transcoding farm (CeleryWorkers/tasks.py):  *)
(* processes on several machines take encode_video and encode_audio tasks  *)
(* from the broker.  A task fetches its input, encodes it in a folder of   *)
(* its own under /tmp, copies the result to the mux machine, removes the   *)
(* folder and tells the API how it went (BaseTask.on_success, on_failure). *)
(*                                                                         *)
(* Broker, API, rsync, ssh and ffmpeg are external: each of their calls    *)
(* may fail, and rsync puts a file in its place at once.  The broker has   *)
(* no message left once a worker took it (the default of Celery, which     *)
(* settings.py leaves alone), so the task of a crashed process is lost;    *)
(* the command that it ran goes on, as call_subprocess puts no end to it.  *)
(* An rmtree that fails by an error of the disk alone is left out.         *)
(*                                                                         *)
(* A folder is named after the input and the time: str(time.time()) has    *)
(* hundredths of a second, so two tasks of one input (two qualities of a   *)
(* piece) may come to the same name.  clock counts these hundredths.       *)
(* Messages are the well-formed ones: what data['...'] needs is there.     *)
(* Bug_X is a wrong variant of the definition below it, not used by Spec.  *)
(***************************************************************************)
EXTENDS Naturals, FiniteSets

CONSTANTS
  Workers,     \* worker processes
  Machine,     \* Machine[w]: where w runs
  Tasks,       \* messages
  Kind,        \* Kind[t]: "video" or "audio"
  Input,       \* Input[t]: input_path or input_source
  NoTask,      \* no message, or no file
  Partial,     \* a file that is still being written
  MaxTick,     \* bound: hundredths of a second
  MaxCrashes   \* bound: crashes

ASSUME EncodeTasksAssumption ==
  /\ NoTask \notin Tasks /\ Partial \notin Tasks
  /\ Kind \in [Tasks -> {"video", "audio"}]
  /\ DOMAIN Input = Tasks /\ DOMAIN Machine = Workers
  /\ MaxTick \in Nat /\ MaxCrashes \in Nat

VARIABLES
  queue,     \* messages at the broker
  pc,        \* pc[w]: where w is
  task,      \* task[w]: its message
  stamp,     \* stamp[t]: the time in the folder name of t
  named,     \* named[w]: temp_folder is set
  result,    \* result[w]: "none", "success" or "failed"
  temp,      \* the folders under /tmp, with their machine
  fetched,   \* those that hold the input piece
  encoded,   \* encoded[d]: the task whose output is in folder d
  mux,       \* mux[n]: the task whose output is in folder n of the mux machine
  notices,   \* what the API was told: [task, action]
  unheard,   \* tasks whose notice got lost
  crashed,   \* tasks whose process crashed
  orphans,   \* the commands these processes left running: [task, dir, at]
  clock

taskVars == <<queue, task, stamp, named, unheard>>
fileVars == <<temp, fetched, encoded, mux>>
vars == <<taskVars, fileVars, pc, result, notices, clock, crashed, orphans>>

NoTime == MaxTick + 1

(* The name, and what is built of it.                                      *)
Name(t)      == <<Kind[t], Input[t], stamp[t]>>
Names        == {<<Kind[t], Input[t], i>> : t \in Tasks, i \in 0..MaxTick}
Folders      == {<<Machine[w], n>> : w \in Workers, n \in Names}
Folder(w)    == <<Machine[w], Name(task[w])>>

Exists(w) == Folder(w) \in temp

Init ==
  /\ queue = Tasks
  /\ pc = [w \in Workers |-> "idle"]
  /\ task = [w \in Workers |-> NoTask]
  /\ stamp = [t \in Tasks |-> NoTime]
  /\ named = [w \in Workers |-> FALSE]
  /\ result = [w \in Workers |-> "none"]
  /\ temp = {} /\ fetched = {}
  /\ encoded = [d \in Folders |-> NoTask]
  /\ mux = [n \in Names |-> NoTask]
  /\ notices = {} /\ unheard = {} /\ crashed = {} /\ orphans = {}
  /\ clock = 0

-----------------------------------------------------------------------------
Goto(w, from, to) == pc[w] = from /\ pc' = [pc EXCEPT ![w] = to]

(* An exception: the finally clause is next.                               *)
Fails(w, from) ==
  /\ Goto(w, from, "cleanup")
  /\ result' = [result EXCEPT ![w] = "failed"]

Passes(w, from, to) == Goto(w, from, to) /\ UNCHANGED result

(* The broker hands out a message.                                         *)
Bug_KeepsMessage(t) == queue
Bug_DropsOthers(t)  == {}
Acknowledge(t)      == queue \ {t}

Accept(w) ==
  /\ Goto(w, "idle", "begin")
  /\ \E t \in queue : /\ task' = [task EXCEPT ![w] = t]
                      /\ queue' = Acknowledge(t)
  /\ UNCHANGED <<fileVars, stamp, named, unheard, result, notices, clock, crashed, orphans>>

(* get_file_http_link, for audio, then the name and the folder: one that   *)
(* is there already is taken as it is.                                     *)
TakeName(w) ==
  /\ stamp' = [stamp EXCEPT ![task[w]] = clock]
  /\ named' = [named EXCEPT ![w] = TRUE]

Begin(w) ==
  /\ Passes(w, "begin", IF Kind[task[w]] = "video" THEN "fetch" ELSE "encode")
  /\ TakeName(w)
  /\ temp' = temp \cup {<<Machine[w], <<Kind[task[w]], Input[task[w]], clock>>>>}
  /\ UNCHANGED <<fetched, encoded, mux, queue, task, unheard, notices, clock, crashed, orphans>>

(* makedirs fails: no room, or another process made the folder after the   *)
(* test.  temp_folder is set already.                                      *)
BeginFails(w) ==
  /\ Fails(w, "begin")
  /\ TakeName(w)
  /\ UNCHANGED <<fileVars, queue, task, unheard, notices, clock, crashed, orphans>>

NoLink(w) ==
  /\ pc[w] = "begin" /\ Kind[task[w]] = "audio"
  /\ Fails(w, "begin")
  /\ UNCHANGED <<taskVars, fileVars, notices, clock, crashed, orphans>>

(* copy_from_split_machine                                                 *)
Fetch(w) ==
  /\ Passes(w, "fetch", "encode")
  /\ fetched' = IF Exists(w) THEN fetched \cup {Folder(w)} ELSE fetched
  /\ UNCHANGED <<taskVars, temp, encoded, mux, notices, clock, crashed, orphans>>

FetchFails(w) ==
  /\ Fails(w, "fetch")
  /\ UNCHANGED <<taskVars, fileVars, notices, clock, crashed, orphans>>

(* EncodeVideo.main, EncodeAudio.main: the encoder opens its input and its *)
(* output, works, and ends with the output complete.                       *)
CanEncode(w) == Exists(w) /\ (Kind[task[w]] = "video" => Folder(w) \in fetched)

EncodeStart(w) ==
  /\ Passes(w, "encode", "encoding") /\ CanEncode(w)
  /\ encoded' = [encoded EXCEPT ![Folder(w)] = Partial]
  /\ UNCHANGED <<taskVars, temp, fetched, mux, notices, clock, crashed, orphans>>

(* A folder removed meanwhile takes the output along: the encoder goes on  *)
(* with the open file, and permission_file finds nothing wrong with a path *)
(* that does not exist.  Of two encoders on one file the last one wins.    *)
EncodeEnd(w) ==
  /\ Passes(w, "encoding", "mkdir")
  /\ encoded' = IF Exists(w) /\ encoded[Folder(w)] # NoTask
                THEN [encoded EXCEPT ![Folder(w)] = task[w]] ELSE encoded
  /\ UNCHANGED <<taskVars, temp, fetched, mux, notices, clock, crashed, orphans>>

EncodeFails(w) ==
  /\ Fails(w, "encode") \/ Fails(w, "encoding")
  /\ UNCHANGED <<taskVars, fileVars, notices, clock, crashed, orphans>>

(* copy_to_mux_machine: create_remote_folders, then rsync.                 *)
Mkdir(w) ==
  /\ Passes(w, "mkdir", "copy")
  /\ UNCHANGED <<taskVars, fileVars, notices, clock, crashed, orphans>>

MkdirFails(w) ==
  /\ Fails(w, "mkdir")
  /\ UNCHANGED <<taskVars, fileVars, notices, clock, crashed, orphans>>

CanCopy(w) == Exists(w) /\ encoded[Folder(w)] # NoTask

Copy(w) ==
  /\ Goto(w, "copy", "cleanup") /\ CanCopy(w)
  /\ mux' = [mux EXCEPT ![Name(task[w])] = encoded[Folder(w)]]
  /\ result' = [result EXCEPT ![w] = "success"]
  /\ UNCHANGED <<taskVars, temp, fetched, encoded, notices, clock, crashed, orphans>>

CopyFails(w) ==
  /\ Fails(w, "copy")
  /\ UNCHANGED <<taskVars, fileVars, notices, clock, crashed, orphans>>

(* The finally clause: rmtree.                                             *)
Bug_RemovesOnSuccess(w) == IF named[w] /\ result[w] = "success" THEN {Folder(w)} ELSE {}
ToRemove(w)             == IF named[w] THEN {Folder(w)} ELSE {}

Remove(dirs) ==
  /\ temp' = temp \ dirs
  /\ fetched' = fetched \ dirs
  /\ encoded' = [d \in Folders |-> IF d \in dirs THEN NoTask ELSE encoded[d]]

Cleanup(w) ==
  /\ Passes(w, "cleanup", "notify")
  /\ Remove(ToRemove(w))
  /\ UNCHANGED <<taskVars, mux, notices, clock, crashed, orphans>>

(* rmtree raises when another process, or the command of a crashed one,    *)
(* works in the folder or removes it at the same time; the exception takes *)
(* the place of the result.                                                *)
Shared(w) ==
  /\ named[w]
  /\ \/ \E u \in Workers \ {w} : named[u] /\ pc[u] # "notify" /\ Folder(u) = Folder(w)
     \/ \E o \in orphans : o.dir = Folder(w)

CleanupFails(w) ==
  /\ Shared(w)
  /\ Goto(w, "cleanup", "notify")
  /\ result' = [result EXCEPT ![w] = "failed"]
  /\ \E dirs \in SUBSET ToRemove(w) : Remove(dirs)
  /\ UNCHANGED <<taskVars, mux, notices, clock, crashed, orphans>>

Leave(w) ==
  /\ pc' = [pc EXCEPT ![w] = "idle"]
  /\ task' = [task EXCEPT ![w] = NoTask]
  /\ named' = [named EXCEPT ![w] = FALSE]
  /\ result' = [result EXCEPT ![w] = "none"]

(* on_success or on_failure: one POST, never repeated.                     *)
Bug_AlwaysSuccess(w) == "success"
Action(w)            == result[w]

Notify(w) ==
  /\ pc[w] = "notify" /\ Leave(w)
  /\ notices' = notices \cup {[task |-> task[w], action |-> Action(w)]}
  /\ UNCHANGED <<fileVars, queue, stamp, unheard, clock, crashed, orphans>>

NotifyFails(w) ==
  /\ pc[w] = "notify" /\ Leave(w)
  /\ unheard' = unheard \cup {task[w]}
  /\ UNCHANGED <<fileVars, queue, stamp, notices, clock, crashed, orphans>>

(* The process dies, a new one takes its place; what is in /tmp stays, and *)
(* so does the rsync or ffmpeg that Popen started: nothing ends them.      *)
Orphans(w) ==
  IF pc[w] \in {"fetch", "encoding", "copy"}
  THEN {[task |-> task[w], dir |-> Folder(w), at |-> pc[w]]} ELSE {}

Crash(w) ==
  /\ pc[w] # "idle" /\ Cardinality(crashed) < MaxCrashes /\ Leave(w)
  /\ crashed' = crashed \cup {task[w]}
  /\ orphans' = orphans \cup Orphans(w)
  /\ UNCHANGED <<fileVars, queue, stamp, unheard, notices, clock>>

(* Such a command ends, as it would have ended for its process, or fails.  *)
OrphanEnds(o) ==
  /\ orphans' = orphans \ {o}
  /\ UNCHANGED <<taskVars, temp, pc, result, notices, clock, crashed>>

OrphanFetches(o) ==
  /\ o.at = "fetch" /\ o.dir \in temp /\ OrphanEnds(o)
  /\ fetched' = fetched \cup {o.dir}
  /\ UNCHANGED <<encoded, mux>>

OrphanEncodes(o) ==
  /\ o.at = "encoding" /\ encoded[o.dir] # NoTask /\ OrphanEnds(o)
  /\ encoded' = [encoded EXCEPT ![o.dir] = o.task]
  /\ UNCHANGED <<fetched, mux>>

OrphanCopies(o) ==
  /\ o.at = "copy" /\ encoded[o.dir] # NoTask /\ OrphanEnds(o)
  /\ mux' = [mux EXCEPT ![o.dir[2]] = encoded[o.dir]]
  /\ UNCHANGED <<fetched, encoded>>

OrphanFails(o) == OrphanEnds(o) /\ UNCHANGED <<fetched, encoded, mux>>

Tick ==
  /\ clock < MaxTick
  /\ clock' = clock + 1
  /\ UNCHANGED <<taskVars, fileVars, pc, result, notices, crashed, orphans>>

WorkerStep(w) ==
  \/ Accept(w) \/ Begin(w) \/ BeginFails(w) \/ NoLink(w) \/ Fetch(w) \/ FetchFails(w)
  \/ EncodeStart(w) \/ EncodeEnd(w) \/ EncodeFails(w)
  \/ Mkdir(w) \/ MkdirFails(w) \/ Copy(w) \/ CopyFails(w)
  \/ Cleanup(w) \/ CleanupFails(w) \/ Notify(w) \/ NotifyFails(w)

Settled(t) == t \in crashed \cup unheard \/ \E n \in notices : n.task = t

Finished == (\A t \in Tasks : Settled(t)) /\ UNCHANGED vars

OrphanStep(o) ==
  OrphanFetches(o) \/ OrphanEncodes(o) \/ OrphanCopies(o) \/ OrphanFails(o)

Next == \/ \E w \in Workers : WorkerStep(w) \/ Crash(w)
        \/ \E o \in orphans : OrphanStep(o)
        \/ Tick
        \/ Finished

Spec == Init /\ [][Next]_vars

(* Every process goes on working.                                          *)
FairSpec == Spec /\ \A w \in Workers : WF_vars(WorkerStep(w))

-----------------------------------------------------------------------------
PCs == {"idle", "begin", "fetch", "encode", "encoding", "mkdir", "copy", "cleanup", "notify"}

(* Every variable has its type, and a process has a task when it works.    *)
TypeOK ==
  /\ queue \subseteq Tasks /\ unheard \subseteq Tasks /\ crashed \subseteq Tasks
  /\ pc \in [Workers -> PCs]
  /\ task \in [Workers -> Tasks \cup {NoTask}]
  /\ \A w \in Workers : task[w] = NoTask <=> pc[w] = "idle"
  /\ stamp \in [Tasks -> 0..NoTime]
  /\ named \in [Workers -> BOOLEAN]
  /\ result \in [Workers -> {"none", "success", "failed"}]
  /\ temp \subseteq Folders /\ fetched \subseteq temp
  /\ encoded \in [Folders -> Tasks \cup {NoTask, Partial}]
  /\ mux \in [Names -> Tasks \cup {NoTask, Partial}]
  /\ notices \subseteq [task : Tasks, action : {"success", "failed"}]
  /\ orphans \subseteq [task : Tasks, dir : Folders, at : {"fetch", "encoding", "copy"}]

(* Each message is in one place: at the broker, with one worker, told to   *)
(* the API once, or lost.                                                  *)
EachTaskOnce ==
  \A t \in Tasks :
    Cardinality({w \in Workers : task[w] = t}) + Cardinality({n \in notices : n.task = t})
      + Cardinality({t} \cap queue) + Cardinality({t} \cap unheard)
      + Cardinality({t} \cap crashed) = 1

(* What the API is told to be the output of a task is on the mux machine,  *)
(* complete, and of this task: the other qualities of the piece, crashes   *)
(* and failures on the way do not change that.  Only a task of the same    *)
(* input that began within the same hundredth of a second does.            *)
NameTaken(t) == \E u \in Tasks \ {t} : Name(u) = Name(t)

OutputIsOwn ==
  \A n \in notices : n.action = "success" /\ ~NameTaken(n.task) => mux[Name(n.task)] = n.task

(* Nothing stays in /tmp but the folders of tasks at work, and of those    *)
(* whose process crashed.                                                  *)
NoTempLeft ==
  \A d \in temp :
    \/ \E w \in Workers : named[w] /\ d = Folder(w)
    \/ \E t \in crashed : d[2] = Name(t)

(* Every task comes to an end that the API hears of, or is lost.           *)
TaskSettles == \A t \in Tasks : (t \in queue) ~> Settled(t)
=============================================================================
