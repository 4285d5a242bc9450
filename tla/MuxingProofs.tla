---------------------------- MODULE MuxingProofs ----------------------------
(***************************************************************************)
(* MovieIsOwn for any number of workers, jobs, temporary files and crashes.*)
(*                                                                         *)
(* The inductive invariant follows the pieces of a job during whose use of *)
(* its temporary file nobody else wrote it: no other worker and no orphan  *)
(* joins to this file (Alone), which holds its pieces from the end of the  *)
(* join to the end of the muxing, MP4Box reads them, and the movie is made *)
(* of them.                                                                *)
(***************************************************************************)
EXTENDS Muxing, TLAPS

AtWork == {"begin", "join", "joining", "mux", "muxing", "success", "failed"}
Files  == Jobs \cup {NoFile, Partial}

WorkersOK ==
  /\ queue \subseteq Jobs
  /\ pc \in [Workers -> AtWork \cup {"idle"}]
  /\ job \in [Workers -> Jobs \cup {NoJob}]
  /\ \A w \in Workers : pc[w] # "idle" => job[w] \in Jobs

FilesOK ==
  /\ read \in [Workers -> Files]
  /\ temp \in [Temps -> Files]
  /\ movie \in [Jobs -> Files]

OrphansOK == orphans \subseteq [job : Jobs, at : {"joining", "muxing"}, read : Files]

Unmet(w) == job[w] \notin met

(* Nobody but w writes temporary file n.                                   *)
NobodyWrites(n, w) ==
  /\ \A u \in Workers : Joins(u) /\ Temp(job[u]) = n => u = w
  /\ \A o \in orphans : o.at = "joining" => Temp(o.job) # n

(* Nobody else writes the file that an unmet job uses.                     *)
Alone ==
  /\ \A w \in Workers : UsesTemp(w) /\ Unmet(w) => NobodyWrites(Temp(job[w]), w)
  /\ \A o \in orphans : o.at = "muxing" /\ o.job \notin met =>
        /\ \A u \in Workers : Joins(u) => Temp(job[u]) # Temp(o.job)
        /\ \A p \in orphans : p.at = "joining" => Temp(p.job) # Temp(o.job)

(* The pieces of an unmet job, up to its movie.                            *)
PiecesOwn ==
  /\ \A w \in Workers : Unmet(w) =>
        /\ pc[w] \in {"mux", "muxing"} => temp[Temp(job[w])] = job[w]
        /\ pc[w] = "muxing" => read[w] = job[w]
        /\ pc[w] = "success" => movie[job[w]] = job[w]
  /\ \A o \in orphans : o.at = "muxing" /\ o.job \notin met =>
        temp[Temp(o.job)] = o.job /\ o.read = o.job

NoticesOK == notices \subseteq [job : Jobs, action : {"success", "failed"}]

IInv == WorkersOK /\ FilesOK /\ OrphansOK /\ NoticesOK /\ Alone /\ PiecesOwn /\ MovieIsOwn

-----------------------------------------------------------------------------
LEMMA InitIInv == Init => IInv
BY DEF Init, IInv, WorkersOK, FilesOK, OrphansOK, NoticesOK, Alone, PiecesOwn, MovieIsOwn,
       UsesTemp, Unmet, Files, AtWork

(* A step of w that touches no file and tells nothing: it goes on, fails,  *)
(* or leaves its MP4Box behind, without coming to a place where the        *)
(* invariant asks more of it.                                              *)
LEMMA QuietStep ==
  ASSUME IInv, NEW w \in Workers, NEW to \in AtWork \cup {"idle"},
         pc' = [pc EXCEPT ![w] = to],
         job' \in [Workers -> Jobs \cup {NoJob}],
         \A u \in Workers \ {w} : job'[u] = job[u],
         to # "idle" => job'[w] \in Jobs,
         to \in {"idle", "begin", "join", "failed"},
         \A o \in orphans' :
           \/ o \in orphans
           \/ /\ pc[w] \in {"joining", "muxing"}
              /\ o = [job |-> job[w], at |-> pc[w], read |-> read[w]],
         UNCHANGED <<read, temp, movie, met>>
  PROVE  /\ WorkersOK' <=> queue' \subseteq Jobs
         /\ FilesOK' /\ OrphansOK' /\ Alone' /\ PiecesOwn'
<1> USE DEF IInv
<1> DEFINE left == [job |-> job[w], at |-> pc[w], read |-> read[w]]
<1>1. /\ pc' \in [Workers -> AtWork \cup {"idle"}] /\ pc'[w] = to
      /\ \A u \in Workers \ {w} : pc'[u] = pc[u]
  BY DEF WorkersOK
<1>2. WorkersOK' <=> queue' \subseteq Jobs
  BY <1>1 DEF WorkersOK
<1>3. FilesOK'
  BY DEF FilesOK
<1>4. /\ ~UsesTemp(w)' /\ ~Joins(w)'
      /\ \A u \in Workers \ {w} : (UsesTemp(u)' <=> UsesTemp(u)) /\ (Joins(u)' <=> Joins(u))
  BY <1>1 DEF UsesTemp, Joins
<1>5. \A u \in Workers \ {w} : Temp(job'[u]) = Temp(job[u]) /\ (Unmet(u)' <=> Unmet(u))
  BY DEF Unmet
<1>6. pc[w] \in {"joining", "muxing"} =>
        job[w] \in Jobs /\ UsesTemp(w) /\ (pc[w] = "joining" <=> Joins(w))
  BY DEF WorkersOK, UsesTemp, Joins
<1>7. OrphansOK'
  BY <1>6 DEF OrphansOK, FilesOK
<1>8. \A o \in orphans' : o.at = "joining" =>
         o \in orphans \/ (Joins(w) /\ o.job = job[w])
  BY <1>6
<1>9. \A o \in orphans' : o.at = "muxing" =>
         o \in orphans \/ (pc[w] = "muxing" /\ o.job = job[w] /\ o.read = read[w])
  BY <1>6
<1>10. Alone'
  <2>1. ASSUME NEW v \in Workers, UsesTemp(v)', Unmet(v)'
        PROVE  NobodyWrites(Temp(job[v]), v)'
    <3>1. v # w /\ UsesTemp(v) /\ Unmet(v) /\ Temp(job'[v]) = Temp(job[v])
      BY <1>4, <1>5, <2>1
    <3>2. NobodyWrites(Temp(job[v]), v)
      BY <3>1 DEF Alone
    <3>3. \A u \in Workers : Joins(u)' /\ Temp(job'[u]) = Temp(job'[v]) => u = v
      BY <1>4, <1>5, <3>1, <3>2 DEF NobodyWrites
    <3>4. \A o \in orphans' : o.at = "joining" => Temp(o.job) # Temp(job'[v])
      BY <1>8, <3>1, <3>2 DEF NobodyWrites
    <3> QED BY <3>3, <3>4 DEF NobodyWrites, Temp
  <2>2. ASSUME NEW o \in orphans', o.at = "muxing", o.job \notin met
        PROVE  /\ \A u \in Workers : Joins(u)' => Temp(job'[u]) # Temp(o.job)
               /\ \A p \in orphans' : p.at = "joining" => Temp(p.job) # Temp(o.job)
    <3>1. CASE o \in orphans
      BY <1>4, <1>5, <1>8, <2>2, <3>1 DEF Alone
    <3>2. CASE o \notin orphans
      <4>1. pc[w] = "muxing" /\ o.job = job[w] /\ UsesTemp(w) /\ Unmet(w) /\ ~Joins(w)
        BY <1>6, <1>9, <2>2, <3>2 DEF Unmet, Joins
      <4>2. NobodyWrites(Temp(job[w]), w)
        BY <4>1 DEF Alone
      <4> QED BY <1>4, <1>5, <1>8, <4>1, <4>2 DEF NobodyWrites
    <3> QED BY <3>1, <3>2
  <2> QED BY <2>1, <2>2 DEF Alone, Temp
<1>11. PiecesOwn'
  <2>1. \A o \in orphans' : o.at = "muxing" /\ o.job \notin met =>
          temp[Temp(o.job)] = o.job /\ o.read = o.job
    BY <1>9 DEF PiecesOwn, Unmet
  <2> QED BY <1>1, <1>5, <2>1 DEF PiecesOwn, Unmet, Temp
<1> QED BY <1>2, <1>3, <1>7, <1>10, <1>11

LEMMA AcceptIInv ==
  ASSUME IInv, NEW w \in Workers, Accept(w) PROVE IInv'
<1>1. PICK j \in queue : job' = [job EXCEPT ![w] = j] /\ queue' = queue \ {j}
  BY DEF Accept
<1>2. j \in Jobs /\ queue' \subseteq Jobs
  BY <1>1 DEF IInv, WorkersOK
<1>3. /\ pc' = [pc EXCEPT ![w] = "begin"] /\ "begin" \in AtWork
      /\ UNCHANGED <<read, temp, movie, notices, orphans, met>>
  BY DEF Accept, Goto, AtWork
<1>4. /\ job' \in [Workers -> Jobs \cup {NoJob}] /\ job'[w] \in Jobs
      /\ \A u \in Workers \ {w} : job'[u] = job[u]
  BY <1>1, <1>2 DEF IInv, WorkersOK
<1>5. WorkersOK' /\ FilesOK' /\ OrphansOK' /\ Alone' /\ PiecesOwn'
  BY <1>2, <1>3, <1>4, QuietStep
<1> QED BY <1>3, <1>5 DEF IInv, NoticesOK, MovieIsOwn

LEMMA BeginIInv ==
  ASSUME IInv, NEW w \in Workers, Begin(w) PROVE IInv'
<1>1. /\ pc[w] = "begin" /\ pc' = [pc EXCEPT ![w] = "join"] /\ "join" \in AtWork
      /\ UNCHANGED <<queue, job, read, temp, movie, notices, orphans, met>>
  BY DEF Begin, Goto, AtWork
<1>2. /\ job' \in [Workers -> Jobs \cup {NoJob}] /\ job'[w] \in Jobs /\ queue' \subseteq Jobs
  BY <1>1 DEF IInv, WorkersOK
<1>3. WorkersOK' /\ FilesOK' /\ OrphansOK' /\ Alone' /\ PiecesOwn'
  BY <1>1, <1>2, QuietStep
<1> QED BY <1>1, <1>3 DEF IInv, NoticesOK, MovieIsOwn

LEMMA FailsIInv ==
  ASSUME IInv, NEW w \in Workers, Fails(w) PROVE IInv'
<1>1. /\ pc[w] # "idle" /\ pc' = [pc EXCEPT ![w] = "failed"] /\ "failed" \in AtWork
      /\ UNCHANGED <<queue, job, read, temp, movie, notices, orphans, met>>
  BY DEF Fails, Goto, AtWork
<1>2. /\ job' \in [Workers -> Jobs \cup {NoJob}] /\ job'[w] \in Jobs /\ queue' \subseteq Jobs
  BY <1>1 DEF IInv, WorkersOK
<1>3. WorkersOK' /\ FilesOK' /\ OrphansOK' /\ Alone' /\ PiecesOwn'
  BY <1>1, <1>2, QuietStep
<1> QED BY <1>1, <1>3 DEF IInv, NoticesOK, MovieIsOwn

(* What the MP4Box of a killed process may still do, it might have done as *)
(* the one of the process.                                                 *)
LEMMA CrashIInv ==
  ASSUME IInv, NEW w \in Workers, Crash(w) PROVE IInv'
<1>1. /\ pc' = [pc EXCEPT ![w] = "idle"] /\ job' = [job EXCEPT ![w] = NoJob]
      /\ UNCHANGED <<queue, read, temp, movie, notices, met>>
      /\ \A o \in orphans' :
           \/ o \in orphans
           \/ /\ pc[w] \in {"joining", "muxing"}
              /\ o = [job |-> job[w], at |-> pc[w], read |-> read[w]]
  BY DEF Crash, Leave, Goto
<1>2. /\ job' \in [Workers -> Jobs \cup {NoJob}] /\ queue' \subseteq Jobs
      /\ \A u \in Workers \ {w} : job'[u] = job[u]
  BY <1>1 DEF IInv, WorkersOK
<1>3. WorkersOK' /\ FilesOK' /\ OrphansOK' /\ Alone' /\ PiecesOwn'
  BY <1>1, <1>2, QuietStep
<1> QED BY <1>1, <1>3 DEF IInv, NoticesOK, MovieIsOwn

(* The notice of a success is about a movie made of the pieces of the job. *)
LEMMA NotifyIInv ==
  ASSUME IInv, NEW w \in Workers, Notify(w) PROVE IInv'
<1> DEFINE n == [job |-> job[w], action |-> pc[w]]
<1>1. /\ pc[w] \in {"success", "failed"}
      /\ pc' = [pc EXCEPT ![w] = "idle"] /\ job' = [job EXCEPT ![w] = NoJob]
      /\ notices' \subseteq notices \cup {n}
      /\ UNCHANGED <<queue, read, temp, movie, orphans, met>>
  BY DEF Notify, Leave, Goto
<1>2. /\ job' \in [Workers -> Jobs \cup {NoJob}] /\ queue' \subseteq Jobs /\ job[w] \in Jobs
      /\ \A u \in Workers \ {w} : job'[u] = job[u]
  BY <1>1 DEF IInv, WorkersOK
<1>3. WorkersOK' /\ FilesOK' /\ OrphansOK' /\ Alone' /\ PiecesOwn'
  BY <1>1, <1>2, QuietStep
<1>4. NoticesOK'
  BY <1>1, <1>2 DEF IInv, NoticesOK
<1>5. n.action = "success" /\ n.job \notin met => movie[n.job] = n.job
  BY DEF IInv, PiecesOwn, Unmet
<1>6. MovieIsOwn'
  BY <1>1, <1>5 DEF IInv, MovieIsOwn
<1> QED BY <1>3, <1>4, <1>6 DEF IInv

-----------------------------------------------------------------------------
(* The steps that touch files.                                             *)

(* Who begins to join meets everybody at the temporary file.              *)
LEMMA JoinStartIInv ==
  ASSUME IInv, NEW w \in Workers, JoinStart(w) PROVE IInv'
<1> USE DEF IInv
<1> DEFINE n == Temp(job[w])
<1>1. /\ pc[w] = "join" /\ pc' = [pc EXCEPT ![w] = "joining"]
      /\ read' = [read EXCEPT ![w] = temp[n]]
      /\ temp' = [temp EXCEPT ![n] = Partial]
      /\ UNCHANGED <<queue, job, movie, notices, orphans>>
  BY DEF JoinStart, Goto
<1>2. /\ job[w] \in Jobs /\ n \in Temps
      /\ pc' \in [Workers -> AtWork \cup {"idle"}] /\ pc'[w] = "joining"
      /\ \A u \in Workers \ {w} : pc'[u] = pc[u] /\ read'[u] = read[u]
  BY <1>1 DEF WorkersOK, FilesOK, Temps, AtWork
<1>3. /\ met \subseteq met' /\ UsersOf(job[w], w) \subseteq met'
      /\ WrittenBy(job[w], w) => job[w] \in met'
  BY DEF JoinStart
<1>4. WorkersOK' /\ NoticesOK' /\ OrphansOK'
  BY <1>1, <1>2 DEF WorkersOK, NoticesOK, OrphansOK
<1>5. FilesOK'
  BY <1>1, <1>2 DEF FilesOK, Files
<1>6. /\ \A u \in Workers \ {w} : UsesTemp(u) /\ Unmet(u)' => Temp(job[u]) # n
      /\ \A o \in orphans : o.job \notin met' => Temp(o.job) # n
  BY <1>1, <1>3 DEF UsersOf, Unmet
<1>7. \A u \in Workers : /\ Unmet(u)' => Unmet(u)
                         /\ u # w => (UsesTemp(u)' <=> UsesTemp(u)) /\ (Joins(u)' <=> Joins(u))
  BY <1>1, <1>2, <1>3 DEF Unmet, UsesTemp, Joins
<1>8. Alone'
  <2>1. ASSUME NEW v \in Workers, UsesTemp(v)', Unmet(v)'
        PROVE  NobodyWrites(Temp(job[v]), v)'
    <3>1. CASE v = w
      <4>1. ~WrittenBy(job[w], w)
        BY <1>1, <1>3, <2>1, <3>1 DEF Unmet
      <4> QED BY <1>1, <1>7, <3>1, <4>1 DEF NobodyWrites, WrittenBy, Temp
    <3>2. CASE v # w
      <4>1. NobodyWrites(Temp(job[v]), v) /\ Temp(job[v]) # n
        BY <1>6, <1>7, <2>1, <3>2 DEF Alone
      <4> QED BY <1>1, <1>7, <3>2, <4>1 DEF NobodyWrites, Temp
    <3> QED BY <3>1, <3>2
  <2>2. ASSUME NEW o \in orphans, o.at = "muxing", o.job \notin met'
        PROVE  /\ \A u \in Workers : Joins(u)' => Temp(job[u]) # Temp(o.job)
               /\ \A p \in orphans : p.at = "joining" => Temp(p.job) # Temp(o.job)
    BY <1>3, <1>6, <1>7, <2>2 DEF Alone
  <2> QED BY <1>1, <2>1, <2>2 DEF Alone, Temp
<1>9. ASSUME NEW u \in Workers, Unmet(u)'
      PROVE  /\ pc'[u] \in {"mux", "muxing"} => temp'[Temp(job'[u])] = job'[u]
             /\ pc'[u] = "muxing" => read'[u] = job'[u]
             /\ pc'[u] = "success" => movie'[job'[u]] = job'[u]
  <2>1. CASE u = w
    BY <1>2, <2>1
  <2>2. CASE u # w
    <3>1. pc'[u] \in {"mux", "muxing"} => temp'[Temp(job'[u])] = temp[Temp(job[u])]
      <4>1. pc[u] \in {"mux", "muxing"} => Temp(job[u]) # n
        BY <1>6, <1>9, <2>2 DEF UsesTemp
      <4>2. pc[u] \in {"mux", "muxing"} => Temp(job[u]) \in Temps
        BY DEF WorkersOK, Temps
      <4> QED BY <1>1, <1>2, <2>2, <4>1, <4>2 DEF FilesOK, Temp
    <3> QED BY <1>1, <1>2, <1>7, <1>9, <2>2, <3>1 DEF PiecesOwn
  <2> QED BY <2>1, <2>2
<1>10. ASSUME NEW o \in orphans, o.at = "muxing", o.job \notin met'
       PROVE  temp'[Temp(o.job)] = o.job /\ o.read = o.job
  <2>1. Temp(o.job) # n /\ Temp(o.job) \in Temps
    BY <1>6, <1>10 DEF OrphansOK, Temps
  <2> QED BY <1>1, <1>3, <1>10, <2>1 DEF PiecesOwn, FilesOK
<1>11. PiecesOwn'
  BY <1>1, <1>9, <1>10 DEF PiecesOwn, Temp
<1>12. MovieIsOwn'
  BY <1>1, <1>3 DEF MovieIsOwn
<1> QED BY <1>4, <1>5, <1>8, <1>11, <1>12

(* What changes when file n is written, which no unmet job uses but those  *)
(* of V: nothing for the others.                                           *)
LEMMA Written ==
  ASSUME IInv, NEW n \in Temps, NEW x, temp' = [temp EXCEPT ![n] = x],
         NEW V, \A u \in Workers \ V : UsesTemp(u) /\ Unmet(u) => Temp(job[u]) # n,
         \A o \in orphans : o.at = "muxing" /\ o.job \notin met => Temp(o.job) # n
  PROVE  /\ \A u \in Workers \ V : Unmet(u) /\ pc[u] \in {"mux", "muxing"} =>
              temp'[Temp(job[u])] = job[u]
         /\ \A o \in orphans : o.at = "muxing" /\ o.job \notin met =>
              temp'[Temp(o.job)] = o.job
<1> USE DEF IInv
<1>1. ASSUME NEW u \in Workers \ V, Unmet(u), pc[u] \in {"mux", "muxing"}
      PROVE  temp'[Temp(job[u])] = job[u]
  <2>1. Temp(job[u]) # n /\ Temp(job[u]) \in Temps
    BY <1>1 DEF UsesTemp, WorkersOK, Temps
  <2> QED BY <1>1, <2>1 DEF PiecesOwn, FilesOK
<1>2. ASSUME NEW o \in orphans, o.at = "muxing", o.job \notin met
      PROVE  temp'[Temp(o.job)] = o.job
  <2>1. Temp(o.job) # n /\ Temp(o.job) \in Temps
    BY <1>2 DEF OrphansOK, Temps
  <2> QED BY <1>2, <2>1 DEF PiecesOwn, FilesOK
<1> QED BY <1>1, <1>2

LEMMA JoinEndIInv ==
  ASSUME IInv, NEW w \in Workers, JoinEnd(w) PROVE IInv'
<1> USE DEF IInv
<1>1. /\ pc[w] = "joining" /\ pc' = [pc EXCEPT ![w] = "mux"]
      /\ temp' = [temp EXCEPT ![Temp(job[w])] = job[w]]
      /\ UNCHANGED <<queue, job, read, movie, notices, orphans, met>>
  BY DEF JoinEnd, Goto, Joined
<1>2. /\ job[w] \in Jobs /\ Temp(job[w]) \in Temps
      /\ pc' \in [Workers -> AtWork \cup {"idle"}] /\ pc'[w] = "mux"
      /\ \A u \in Workers \ {w} : pc'[u] = pc[u]
  BY <1>1 DEF WorkersOK, Temps, AtWork
<1>3. WorkersOK' /\ NoticesOK' /\ MovieIsOwn' /\ OrphansOK'
  BY <1>1, <1>2 DEF WorkersOK, NoticesOK, MovieIsOwn, OrphansOK
<1>4. FilesOK'
  BY <1>1, <1>2 DEF FilesOK, Files
<1>5. \A u \in Workers : /\ (UsesTemp(u)' <=> UsesTemp(u)) /\ (Unmet(u)' <=> Unmet(u))
                         /\ Joins(u)' => Joins(u)
  BY <1>1, <1>2 DEF UsesTemp, Unmet, Joins
<1>6. Alone'
  BY <1>1, <1>5 DEF Alone, NobodyWrites, Temp
<1>7. /\ \A u \in Workers \ {w} : UsesTemp(u) /\ Unmet(u) => Temp(job[u]) # Temp(job[w])
      /\ \A o \in orphans : o.at = "muxing" /\ o.job \notin met => Temp(o.job) # Temp(job[w])
  BY <1>1 DEF Alone, NobodyWrites, Joins
<1>8. /\ \A u \in Workers \ {w} : Unmet(u) /\ pc[u] \in {"mux", "muxing"} =>
            temp'[Temp(job[u])] = job[u]
      /\ \A o \in orphans : o.at = "muxing" /\ o.job \notin met => temp'[Temp(o.job)] = o.job
  BY <1>1, <1>2, <1>7, Written
<1>9. temp'[Temp(job[w])] = job[w]
  BY <1>1, <1>2 DEF FilesOK
<1>10. PiecesOwn'
  BY <1>1, <1>2, <1>5, <1>8, <1>9 DEF PiecesOwn, Temp
<1> QED BY <1>3, <1>4, <1>6, <1>10

LEMMA MuxStartIInv ==
  ASSUME IInv, NEW w \in Workers, MuxStart(w) PROVE IInv'
<1> USE DEF IInv
<1>1. /\ pc[w] = "mux" /\ pc' = [pc EXCEPT ![w] = "muxing"]
      /\ read' = [read EXCEPT ![w] = temp[Temp(job[w])]]
      /\ UNCHANGED <<queue, job, temp, movie, notices, orphans, met>>
  BY DEF MuxStart, Goto
<1>2. /\ job[w] \in Jobs /\ Temp(job[w]) \in Temps
      /\ pc' \in [Workers -> AtWork \cup {"idle"}] /\ pc'[w] = "muxing"
      /\ \A u \in Workers \ {w} : pc'[u] = pc[u] /\ read'[u] = read[u]
  BY <1>1 DEF WorkersOK, FilesOK, Temps, AtWork
<1>3. WorkersOK' /\ NoticesOK' /\ MovieIsOwn' /\ OrphansOK'
  BY <1>1, <1>2 DEF WorkersOK, NoticesOK, MovieIsOwn, OrphansOK
<1>4. FilesOK'
  BY <1>1, <1>2 DEF FilesOK
<1>5. \A u \in Workers : /\ (UsesTemp(u)' <=> UsesTemp(u)) /\ (Unmet(u)' <=> Unmet(u))
                         /\ Joins(u)' => Joins(u)
  BY <1>1, <1>2 DEF UsesTemp, Unmet, Joins
<1>6. Alone'
  BY <1>1, <1>5 DEF Alone, NobodyWrites, Temp
<1>7. PiecesOwn'
  BY <1>1, <1>2, <1>5 DEF PiecesOwn, FilesOK, Temp
<1> QED BY <1>3, <1>4, <1>6, <1>7

(* A movie is written once more only if its job came twice, and then of    *)
(* the same pieces.                                                        *)
LEMMA MuxEndIInv ==
  ASSUME IInv, NEW w \in Workers, MuxEnd(w) PROVE IInv'
<1> USE DEF IInv
<1>1. /\ pc[w] = "muxing" /\ pc' = [pc EXCEPT ![w] = "success"]
      /\ movie' = [movie EXCEPT ![job[w]] =
                      IF temp[Temp(job[w])] = read[w] THEN read[w] ELSE Partial]
      /\ UNCHANGED <<queue, job, read, temp, notices, orphans, met>>
  BY DEF MuxEnd, Goto
<1>2. /\ job[w] \in Jobs
      /\ pc' \in [Workers -> AtWork \cup {"idle"}] /\ pc'[w] = "success"
      /\ \A u \in Workers \ {w} : pc'[u] = pc[u]
  BY <1>1 DEF WorkersOK, AtWork
<1>3. WorkersOK' /\ NoticesOK' /\ OrphansOK'
  BY <1>1, <1>2 DEF WorkersOK, NoticesOK, OrphansOK
<1>4. FilesOK'
  BY <1>1, <1>2 DEF FilesOK, Files
<1>5. \A u \in Workers : /\ (UsesTemp(u)' => UsesTemp(u)) /\ (Unmet(u)' <=> Unmet(u))
                         /\ Joins(u)' => Joins(u)
  BY <1>1, <1>2 DEF UsesTemp, Unmet, Joins
<1>6. Alone'
  BY <1>1, <1>5 DEF Alone, NobodyWrites, Temp
<1>7. Unmet(w) => movie'[job[w]] = job[w]
  BY <1>1, <1>2 DEF PiecesOwn, FilesOK
<1>8. \A j \in Jobs : j \notin met /\ movie[j] = j => movie'[j] = j
  BY <1>1, <1>7 DEF FilesOK, Unmet
<1>9. PiecesOwn'
  BY <1>1, <1>2, <1>5, <1>7, <1>8 DEF PiecesOwn, WorkersOK, Unmet, Temp
<1>10. MovieIsOwn'
  BY <1>1, <1>8 DEF MovieIsOwn, NoticesOK
<1> QED BY <1>3, <1>4, <1>6, <1>9, <1>10

-----------------------------------------------------------------------------
(* The steps of an orphan: it writes a file that no unmet job uses, or the *)
(* movie of its own job.                                                   *)
LEMMA FewerOrphans ==
  ASSUME IInv, orphans' \subseteq orphans, UNCHANGED <<queue, pc, job, read, notices, met>>
  PROVE  WorkersOK' /\ OrphansOK' /\ NoticesOK' /\ Alone'
<1>1. WorkersOK' /\ OrphansOK' /\ NoticesOK'
  BY DEF IInv, WorkersOK, OrphansOK, NoticesOK
<1>2. \A u \in Workers : (UsesTemp(u)' <=> UsesTemp(u)) /\ (Unmet(u)' <=> Unmet(u))
                         /\ (Joins(u)' <=> Joins(u))
  BY DEF UsesTemp, Unmet, Joins
<1>3. Alone'
  BY <1>2 DEF IInv, Alone, NobodyWrites, Temp
<1> QED BY <1>1, <1>3

LEMMA OrphanJoinsIInv ==
  ASSUME IInv, NEW o \in orphans, OrphanJoins(o) PROVE IInv'
<1> USE DEF IInv
<1>1. /\ o.at = "joining" /\ orphans' \subseteq orphans
      /\ temp' = [temp EXCEPT ![Temp(o.job)] = o.job]
      /\ UNCHANGED <<queue, pc, job, read, movie, notices, met>>
  BY DEF OrphanJoins
<1>2. o.job \in Jobs /\ Temp(o.job) \in Temps
  BY DEF OrphansOK, Temps
<1>3. WorkersOK' /\ OrphansOK' /\ NoticesOK' /\ Alone'
  BY <1>1, FewerOrphans
<1>4. FilesOK' /\ MovieIsOwn'
  BY <1>1, <1>2 DEF FilesOK, Files, MovieIsOwn
<1>5. /\ \A u \in Workers : UsesTemp(u) /\ Unmet(u) => Temp(job[u]) # Temp(o.job)
      /\ \A p \in orphans : p.at = "muxing" /\ p.job \notin met => Temp(p.job) # Temp(o.job)
  BY <1>1 DEF Alone, NobodyWrites
<1>6. /\ \A u \in Workers : Unmet(u) /\ pc[u] \in {"mux", "muxing"} =>
            temp'[Temp(job[u])] = job[u]
      /\ \A p \in orphans : p.at = "muxing" /\ p.job \notin met => temp'[Temp(p.job)] = p.job
  <2>1. \A u \in Workers \ {} : UsesTemp(u) /\ Unmet(u) => Temp(job[u]) # Temp(o.job)
    BY <1>5
  <2>2. /\ \A u \in Workers \ {} : Unmet(u) /\ pc[u] \in {"mux", "muxing"} =>
              temp'[Temp(job[u])] = job[u]
        /\ \A p \in orphans : p.at = "muxing" /\ p.job \notin met =>
              temp'[Temp(p.job)] = p.job
    BY <1>1, <1>2, <1>5, <2>1, Written
  <2> QED BY <2>2
<1>7. PiecesOwn'
  BY <1>1, <1>6 DEF PiecesOwn, Unmet, Temp
<1> QED BY <1>3, <1>4, <1>7

LEMMA OrphanMuxesIInv ==
  ASSUME IInv, NEW o \in orphans, OrphanMuxes(o) PROVE IInv'
<1> USE DEF IInv
<1>1. /\ o.at = "muxing" /\ orphans' \subseteq orphans
      /\ movie' = [movie EXCEPT ![o.job] =
                      IF temp[Temp(o.job)] = o.read THEN o.read ELSE Partial]
      /\ UNCHANGED <<queue, pc, job, read, temp, notices, met>>
  BY DEF OrphanMuxes
<1>2. o.job \in Jobs /\ o.read \in Files
  BY DEF OrphansOK
<1>3. WorkersOK' /\ OrphansOK' /\ NoticesOK' /\ Alone'
  BY <1>1, FewerOrphans
<1>4. FilesOK'
  BY <1>1, <1>2 DEF FilesOK, Files
<1>5. \A j \in Jobs : j \notin met /\ movie[j] = j => movie'[j] = j
  BY <1>1, <1>2 DEF FilesOK, PiecesOwn
<1>6. PiecesOwn'
  BY <1>1, <1>5 DEF PiecesOwn, WorkersOK, Unmet, Temp
<1>7. MovieIsOwn'
  BY <1>1, <1>5 DEF MovieIsOwn, NoticesOK
<1> QED BY <1>3, <1>4, <1>6, <1>7

LEMMA OrphanFailsIInv ==
  ASSUME IInv, NEW o \in orphans, OrphanFails(o) PROVE IInv'
<1>1. /\ orphans' \subseteq orphans
      /\ UNCHANGED <<queue, pc, job, read, temp, movie, notices, met>>
  BY DEF OrphanFails
<1>2. WorkersOK' /\ OrphansOK' /\ NoticesOK' /\ Alone'
  BY <1>1, FewerOrphans
<1>3. FilesOK' /\ PiecesOwn' /\ MovieIsOwn'
  BY <1>1 DEF IInv, FilesOK, PiecesOwn, MovieIsOwn, Unmet, Temp
<1> QED BY <1>2, <1>3 DEF IInv

LEMMA StutterIInv == IInv /\ UNCHANGED vars => IInv'
<1> SUFFICES ASSUME IInv, UNCHANGED vars PROVE IInv'
  OBVIOUS
<1>1. /\ orphans' \subseteq orphans
      /\ UNCHANGED <<queue, pc, job, read, temp, movie, notices, met>>
  BY DEF vars
<1>2. WorkersOK' /\ OrphansOK' /\ NoticesOK' /\ Alone'
  BY <1>1, FewerOrphans
<1>3. FilesOK' /\ PiecesOwn' /\ MovieIsOwn'
  BY <1>1 DEF IInv, FilesOK, PiecesOwn, MovieIsOwn, Unmet, Temp
<1> QED BY <1>2, <1>3 DEF IInv

LEMMA NextIInv == IInv /\ [Next]_vars => IInv'
BY AcceptIInv, BeginIInv, JoinStartIInv, JoinEndIInv, MuxStartIInv, MuxEndIInv, FailsIInv,
   NotifyIInv, CrashIInv, OrphanJoinsIInv, OrphanMuxesIInv, OrphanFailsIInv, StutterIInv
   DEF Next, Finished

-----------------------------------------------------------------------------
(* However many jobs share temporary files, fail or are killed and leave   *)
(* their MP4Box behind, a movie that is reported is of the pieces of its   *)
(* job, unless somebody else wrote the temporary file while the job used   *)
(* it.                                                                     *)
THEOREM ReportedMovieIsOwn == Spec => []MovieIsOwn
<1>1. IInv => MovieIsOwn
  BY DEF IInv
<1> QED BY <1>1, InitIInv, NextIInv, PTL DEF Spec
=============================================================================
