------------------------------- MODULE Muxing -------------------------------
(***************************************************************************)
(* The muxing task of the transcoding farm (CeleryWorkers/tasks.py and     *)
(* libraries/Join.py): a worker process of the mux machine joins the video *)
(* pieces of a job to a temporary file and muxes that with the audio.      *)
(*                                                                         *)
(* The temporary file is named after the first piece and lies in the       *)
(* folder of the audio; it is never removed.  Two qualities of a source    *)
(* have pieces of the same names and may use one audio file: they use one  *)
(* temporary file, too.  The movie has a random name of its own.           *)
(*                                                                         *)
(* Broker, API and MP4Box are external: each of their calls may fail, and  *)
(* "-new" makes a file anew.  A process that is killed need not take its   *)
(* MP4Box along, which is an ordinary child: it may go on to its end as an *)
(* orphan.  The broker has forgotten the message of the process then.      *)
(* Bug_X is a wrong variant of the definition below it, not used by Spec.  *)
(***************************************************************************)
EXTENDS FiniteSets, Naturals

CONSTANTS
  Workers,     \* worker processes
  Jobs,        \* messages
  FirstPiece,  \* FirstPiece[j]: the name of the first video piece, or NoFile
  Folder,      \* Folder[j]: the folder of the audio file
  NoFile,      \* there is no such file
  Partial,     \* a file that is still being written
  NoJob,       \* no message
  MaxCrashes   \* bound: crashes

ASSUME MuxingAssumption ==
  /\ {NoFile, Partial, NoJob} \cap Jobs = {} /\ NoFile # Partial
  /\ DOMAIN FirstPiece = Jobs /\ DOMAIN Folder = Jobs
  /\ MaxCrashes \in Nat

VARIABLES
  queue,    \* messages at the broker
  pc, job,  \* where each worker is, and its message
  read,     \* what the temporary file was when its muxing began
  temp,     \* temp[n]: the job whose pieces are in temporary file n
  movie,    \* movie[j]: the job whose pieces are in the movie of j
  notices,  \* what the API was told: [job, action]
  orphans,  \* the MP4Box of a killed process: its job, what it does, its read
  met,      \* history: jobs during whose use of their temporary file
            \* somebody else was writing it
  crashed   \* jobs whose process was killed

vars == <<queue, pc, job, read, temp, movie, notices, orphans, met, crashed>>

Temp(j) == <<Folder[j], FirstPiece[j]>>
Temps   == {Temp(j) : j \in Jobs}

Init ==
  /\ queue = Jobs
  /\ pc = [w \in Workers |-> "idle"]
  /\ job = [w \in Workers |-> NoJob]
  /\ read = [w \in Workers |-> NoFile]
  /\ temp = [n \in Temps |-> NoFile]
  /\ movie = [j \in Jobs |-> NoFile]
  /\ notices = {} /\ orphans = {} /\ met = {} /\ crashed = {}

-----------------------------------------------------------------------------
Goto(w, from, to) == pc[w] = from /\ pc' = [pc EXCEPT ![w] = to]

Accept(w) ==
  /\ Goto(w, "idle", "begin")
  /\ \E j \in queue : job' = [job EXCEPT ![w] = j] /\ queue' = queue \ {j}
  /\ UNCHANGED <<read, temp, movie, notices, orphans, met, crashed>>

(* The folder of the movie, and create_input: every piece must be there.   *)
Begin(w) ==
  /\ Goto(w, "begin", "join")
  /\ FirstPiece[job[w]] # NoFile
  /\ UNCHANGED <<queue, job, read, temp, movie, notices, orphans, met, crashed>>

(* MP4Box -add ... -cat ... -new: whatever the file was before, it is      *)
(* begun again, and holds the pieces of the job in the end.                *)
UsesTemp(w) == pc[w] \in {"joining", "mux", "muxing"}
Joins(w)    == pc[w] = "joining"

(* Who uses the temporary file of job j beside w, and who writes it.       *)
UsersOf(j, w)   == {job[u] : u \in {u \in Workers \ {w} : UsesTemp(u) /\ Temp(job[u]) = Temp(j)}}
                     \cup {o.job : o \in {o \in orphans : Temp(o.job) = Temp(j)}}
WrittenBy(j, w) == \/ \E u \in Workers \ {w} : Joins(u) /\ Temp(job[u]) = Temp(j)
                   \/ \E o \in orphans : o.at = "joining" /\ Temp(o.job) = Temp(j)

JoinStart(w) ==
  /\ Goto(w, "join", "joining")
  /\ read' = [read EXCEPT ![w] = temp[Temp(job[w])]]
  /\ temp' = [temp EXCEPT ![Temp(job[w])] = Partial]
  /\ met' = met \cup UsersOf(job[w], w)
                \cup (IF WrittenBy(job[w], w) THEN {job[w]} ELSE {})
  /\ UNCHANGED <<queue, job, movie, notices, orphans, crashed>>

Bug_UsesLeftover(w) == IF read[w] = NoFile THEN job[w] ELSE read[w]
Joined(w)           == job[w]

JoinEnd(w) ==
  /\ Goto(w, "joining", "mux")
  /\ temp' = [temp EXCEPT ![Temp(job[w])] = Joined(w)]
  /\ UNCHANGED <<queue, job, read, movie, notices, orphans, met, crashed>>

(* mux_video_audio: MP4Box reads the file from its start to its end.       *)
MuxStart(w) ==
  /\ Goto(w, "mux", "muxing")
  /\ read' = [read EXCEPT ![w] = temp[Temp(job[w])]]
  /\ UNCHANGED <<queue, job, temp, movie, notices, orphans, met, crashed>>

MuxEnd(w) ==
  /\ Goto(w, "muxing", "success")
  /\ movie' = [movie EXCEPT ![job[w]] =
                 IF temp[Temp(job[w])] = read[w] THEN read[w] ELSE Partial]
  /\ UNCHANGED <<queue, job, read, temp, notices, orphans, met, crashed>>

(* makedirs, a missing piece, MP4Box, chmod: the task ends with an         *)
(* exception.                                                              *)
Fails(w) ==
  /\ \E from \in {"begin", "join", "joining", "mux", "muxing", "success"} :
       Goto(w, from, "failed")
  /\ UNCHANGED <<queue, job, read, temp, movie, notices, orphans, met, crashed>>

Leave(w) == Goto(w, pc[w], "idle") /\ job' = [job EXCEPT ![w] = NoJob]

(* on_success or on_failure: one POST, which may get lost.                 *)
Notify(w) ==
  /\ pc[w] \in {"success", "failed"} /\ Leave(w)
  /\ notices' \in {notices, notices \cup {[job |-> job[w], action |-> pc[w]]}}
  /\ UNCHANGED <<queue, read, temp, movie, orphans, met, crashed>>

(* The process is killed.  run_command keeps no hold of its MP4Box, which  *)
(* dies with it (the machine stops) or goes on.                            *)
Crash(w) ==
  /\ pc[w] # "idle" /\ Cardinality(crashed) < MaxCrashes /\ Leave(w)
  /\ crashed' = crashed \cup {job[w]}
  /\ \/ UNCHANGED orphans
     \/ /\ pc[w] \in {"joining", "muxing"}
        /\ orphans' = orphans \cup {[job |-> job[w], at |-> pc[w], read |-> read[w]]}
  /\ UNCHANGED <<queue, read, temp, movie, notices, met>>

(* An orphan comes to its end, or fails.                                   *)
OrphanJoins(o) ==
  /\ o.at = "joining" /\ orphans' = orphans \ {o}
  /\ temp' = [temp EXCEPT ![Temp(o.job)] = o.job]
  /\ UNCHANGED <<queue, pc, job, read, movie, notices, met, crashed>>

OrphanMuxes(o) ==
  /\ o.at = "muxing" /\ orphans' = orphans \ {o}
  /\ movie' = [movie EXCEPT ![o.job] =
                 IF temp[Temp(o.job)] = o.read THEN o.read ELSE Partial]
  /\ UNCHANGED <<queue, pc, job, read, temp, notices, met, crashed>>

OrphanFails(o) ==
  /\ orphans' = orphans \ {o}
  /\ UNCHANGED <<queue, pc, job, read, temp, movie, notices, met, crashed>>

Finished ==
  /\ queue = {} /\ orphans = {} /\ \A w \in Workers : pc[w] = "idle"
  /\ UNCHANGED vars

Next ==
  \/ \E w \in Workers :
       \/ Accept(w) \/ Begin(w) \/ JoinStart(w) \/ JoinEnd(w) \/ MuxStart(w) \/ MuxEnd(w)
       \/ Fails(w) \/ Notify(w) \/ Crash(w)
  \/ \E o \in orphans : OrphanJoins(o) \/ OrphanMuxes(o) \/ OrphanFails(o)
  \/ Finished

Spec == Init /\ [][Next]_vars

-----------------------------------------------------------------------------
(* A movie the API is told of is complete and of the pieces of its job,    *)
(* whatever failed or crashed before and left its temporary file, and      *)
(* whoever reads that file too.  Only who writes the file while the job    *)
(* uses it may spoil the movie: another job of the same temporary file, or *)
(* the MP4Box that a killed process left behind.                           *)
MovieIsOwn ==
  \A n \in notices : n.action = "success" /\ n.job \notin met => movie[n.job] = n.job
=============================================================================
