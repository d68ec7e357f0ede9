------------------------- MODULE SessionStoreProofs -------------------------
(***************************************************************************)
(* Proofs about SessionStore for any sessions, writers and bounds: the     *)
(* type invariant, and that rows are whole.  The latter needs what every   *)
(* writer carries from the file to the row: a report older than its file   *)
(* or a file that is gone.                                                 *)
(***************************************************************************)
EXTENDS SessionStore, TLAPS

(* What a writer holds from its first read of the file to its last         *)
(* statement: a report, no newer than its file unless that is gone.        *)
LoadedOK ==
  \A w \in Writer : pc[w] \in {"reload", "stat", "commit", "episodes"} =>
    /\ job[w].sid \in Session
    /\ job[w].report # 0
    /\ file[job[w].sid] # 0 => job[w].report <= file[job[w].sid]

(* From the stat on, the modification time it will store.                  *)
StattedOK ==
  \A w \in Writer : pc[w] \in {"commit", "episodes"} =>
    \/ job[w].mtime = 0
    \/ job[w].report <= job[w].mtime

IInv == TypeOK /\ RowsAreWhole /\ LoadedOK /\ StattedOK

-----------------------------------------------------------------------------
(* Initially nothing is stored and nobody writes.                          *)
LEMMA InitInv == Init => IInv
<1> SUFFICES ASSUME Init PROVE IInv
  OBVIOUS
<1> USE ConstantsAssumption
<1>1. TypeOK
  BY DEF Init, TypeOK, Version, Job, NoJob, Row, Got, Nothing
<1>2. RowsAreWhole
  BY DEF Init, RowsAreWhole
<1>3. LoadedOK /\ StattedOK
  BY DEF Init, LoadedOK, StattedOK
<1> QED
  BY <1>1, <1>2, <1>3 DEF IInv

(* A writer without work has no job.                                       *)
LEMMA NoJobType == 0 \in Version /\ NoJob \in Job
<1>1. 0 \in Version
  BY ConstantsAssumption DEF Version
<1> QED
  BY <1>1 DEF NoJob, Job

(* The end of a command or the next session of an ingest: the writer holds *)
(* nothing then, whatever became of the rows.                              *)
LEMMA NextTargetInv ==
  ASSUME IInv, NEW w \in Writer, NEW rest \in SUBSET Session, NextTarget(w, rest), UNCHANGED file
  PROVE  /\ pc' \in [Writer -> {"idle", "load", "reload", "stat", "commit", "episodes"}]
         /\ job' \in [Writer -> Job]
         /\ LoadedOK' /\ StattedOK'
<1> USE ConstantsAssumption
<1> USE DEF IInv, TypeOK, NextTarget, Goto
<1>0. NoJob \in Job
  BY NoJobType
<1>1. [NoJob EXCEPT !.cmd = "ingest", !.todo = rest] \in Job
  BY <1>0 DEF Job
<1>2. pc' \in [Writer -> {"idle", "load", "reload", "stat", "commit", "episodes"}]
  OBVIOUS
<1>3. job' \in [Writer -> Job]
  BY <1>0, <1>1
<1>4. \A v \in Writer : v # w => pc'[v] = pc[v] /\ job'[v] = job[v]
  OBVIOUS
<1>5. pc'[w] \in {"idle", "load"}
  OBVIOUS
<1>6. LoadedOK' /\ StattedOK'
  BY <1>4, <1>5 DEF LoadedOK, StattedOK
<1> QED
  BY <1>2, <1>3, <1>6

(* A writer's step that only moves the writer w to a new place and job.    *)
LEMMA WriterMoves ==
  ASSUME IInv, NEW w \in Writer, UNCHANGED <<file, row, reader>>,
         started' \in 0..MaxCommands,
         NEW l \in {"idle", "load", "reload", "stat", "commit", "episodes"},
         NEW j \in Job,
         pc' = [pc EXCEPT ![w] = l], job' = [job EXCEPT ![w] = j],
         l \in {"reload", "stat", "commit", "episodes"} =>
           /\ j.sid \in Session /\ j.report # 0
           /\ file[j.sid] # 0 => j.report <= file[j.sid],
         l \in {"commit", "episodes"} => (j.mtime # 0 => j.report <= j.mtime)
  PROVE  IInv'
<1> USE ConstantsAssumption
<1> USE DEF IInv
<1>1. TypeOK'
  BY DEF TypeOK, reader
<1>2. RowsAreWhole'
  BY DEF RowsAreWhole
<1>3. pc'[w] = l /\ job'[w] = j /\ \A v \in Writer : v # w => pc'[v] = pc[v] /\ job'[v] = job[v]
  BY DEF TypeOK
<1>4. LoadedOK'
  BY <1>3 DEF LoadedOK
<1>5. StattedOK'
  BY <1>3 DEF StattedOK
<1> QED
  BY <1>1, <1>2, <1>4, <1>5
-----------------------------------------------------------------------------
(* Files only grow or disappear, so a report loaded before stays no newer. *)
LEMMA FileInv ==
  ASSUME IInv, NEW s \in Session, Append(s) \/ Rotate(s)
  PROVE  IInv'
<1> USE ConstantsAssumption
<1> USE DEF IInv
<1>1. file' \in [Session -> Version]
  BY DEF Append, Rotate, TypeOK, Version
<1>2. TypeOK'
  BY <1>1 DEF Append, Rotate, TypeOK, writers, reader
<1>3. RowsAreWhole'
  BY DEF Append, Rotate, RowsAreWhole
<1>4. \A t \in Session : file'[t] # 0 => file[t] # 0 /\ file[t] <= file'[t]
  BY DEF Append, Rotate, TypeOK, Version
<1>5. LoadedOK'
  <2> SUFFICES ASSUME NEW w \in Writer, pc[w] \in {"reload", "stat", "commit", "episodes"}
               PROVE  /\ job[w].sid \in Session
                      /\ job[w].report # 0
                      /\ file'[job[w].sid] # 0 => job[w].report <= file'[job[w].sid]
    BY DEF LoadedOK, Append, Rotate, writers
  <2>1. job[w].sid \in Session /\ job[w].report \in Nat
    BY DEF LoadedOK, TypeOK, Job, Version
  <2>2. file[job[w].sid] \in Nat /\ file'[job[w].sid] \in Nat
    BY <1>1, <2>1 DEF TypeOK, Version
  <2> QED
    BY <1>4, <2>1, <2>2 DEF LoadedOK
<1>6. StattedOK'
  BY DEF StattedOK, Append, Rotate, writers
<1> QED
  BY <1>2, <1>3, <1>5, <1>6

(* Single-session commands load one report.                                *)
LEMMA StartSingleInv ==
  ASSUME IInv, NEW w \in Writer, NEW cmd \in Commands, NEW s \in Session, StartSingle(w, cmd, s)
  PROVE  IInv'
<1> DEFINE j == [NoJob EXCEPT !.cmd = cmd, !.sid = s, !.report = file[s], !.episodes = file[s]]
<1>1. file[s] \in Version /\ file[s] # 0
  BY DEF IInv, TypeOK, StartSingle
<1>2. file[s] <= file[s]
  BY <1>1, ConstantsAssumption DEF Version
<1>3. j \in Job
  BY <1>1, NoJobType, ConstantsAssumption DEF Job, NoJob
<1>4. j.sid = s /\ j.report = file[s]
  BY DEF NoJob
<1>5. started' \in 0..MaxCommands
  BY ConstantsAssumption DEF IInv, TypeOK, StartSingle, CanStart
<1>6. job' = [job EXCEPT ![w] = j] /\ pc' = [pc EXCEPT ![w] = "stat"] /\ UNCHANGED <<file, row, reader>>
  BY DEF StartSingle, Goto
<1> HIDE DEF j
<1> QED
  BY <1>1, <1>2, <1>3, <1>4, <1>5, <1>6, WriterMoves

(* An ingest starts with its list of sessions.                             *)
LEMMA StartIngestInv ==
  ASSUME IInv, NEW w \in Writer, NEW targets \in SUBSET Session, StartIngest(w, targets)
  PROVE  IInv'
<1> DEFINE j == [NoJob EXCEPT !.cmd = "ingest", !.todo = targets]
<1>1. j \in Job
  BY NoJobType DEF Job
<1>2. started' \in 0..MaxCommands
  BY ConstantsAssumption DEF IInv, TypeOK, StartIngest, CanStart
<1>3. job' = [job EXCEPT ![w] = j] /\ pc' = [pc EXCEPT ![w] = "load"] /\ UNCHANGED <<file, row, reader>>
  BY DEF StartIngest, Goto
<1> HIDE DEF j
<1> QED
  BY <1>1, <1>2, <1>3, WriterMoves

(* A step of a writer that goes on to its next session or ends, and leaves *)
(* the table alone.                                                        *)
LEMMA NextTargetKeeps ==
  ASSUME IInv, NEW w \in Writer, NEW rest \in SUBSET Session, NextTarget(w, rest),
         UNCHANGED <<file, row, started, reader>>
  PROVE  IInv'
<1>1. /\ pc' \in [Writer -> {"idle", "load", "reload", "stat", "commit", "episodes"}]
      /\ job' \in [Writer -> Job]
      /\ LoadedOK' /\ StattedOK'
  BY NextTargetInv
<1>2. TypeOK'
  BY <1>1 DEF IInv, TypeOK, reader
<1>3. RowsAreWhole'
  BY DEF IInv, RowsAreWhole
<1> QED
  BY <1>1, <1>2, <1>3 DEF IInv

(* Loading the report of the next session.                                 *)
LEMMA LoadReportInv ==
  ASSUME IInv, NEW w \in Writer, LoadReport(w)
  PROVE  IInv'
<1>1. PICK s \in job[w].todo :
        LET rest == job[w].todo \ {s} IN
        \/ /\ file[s] # 0
           /\ job' = [job EXCEPT ![w].todo = rest, ![w].sid = s, ![w].report = file[s]]
           /\ Goto(w, "reload")
        \/ file[s] = 0 /\ NextTarget(w, rest)
  BY DEF LoadReport
<1> DEFINE rest == job[w].todo \ {s}
<1>2. job[w] \in Job /\ s \in Session /\ rest \in SUBSET Session
  BY DEF IInv, TypeOK, Job
<1>3. UNCHANGED <<file, row, started, reader>>
  BY DEF LoadReport
<1>4. CASE file[s] = 0 /\ NextTarget(w, rest)
  BY <1>2, <1>3, <1>4, NextTargetKeeps
<1>5. CASE /\ file[s] # 0
           /\ job' = [job EXCEPT ![w].todo = rest, ![w].sid = s, ![w].report = file[s]]
           /\ Goto(w, "reload")
  <2> DEFINE j == [job[w] EXCEPT !.todo = rest, !.sid = s, !.report = file[s]]
  <2>1. file[s] \in Version /\ file[s] <= file[s]
    BY <1>2, ConstantsAssumption DEF IInv, TypeOK, Version
  <2>2. j \in Job /\ j.sid = s /\ j.report = file[s]
    BY <1>2, <2>1 DEF Job
  <2>3. job' = [job EXCEPT ![w] = j] /\ pc' = [pc EXCEPT ![w] = "reload"]
    BY <1>5 DEF IInv, TypeOK, Goto
  <2>4. started' \in 0..MaxCommands
    BY <1>3 DEF IInv, TypeOK
  <2> HIDE DEF j
  <2> QED
    BY <1>2, <1>3, <1>5, <2>1, <2>2, <2>3, <2>4, WriterMoves
<1> QED
  BY <1>1, <1>4, <1>5
(* Loading the episodes and the stat keep what is loaded.                  *)
LEMMA LoadEpisodesInv ==
  ASSUME IInv, NEW w \in Writer, LoadEpisodes(w)
  PROVE  IInv'
<1> DEFINE j == [job[w] EXCEPT !.episodes = file[job[w].sid]]
<1>1. /\ job[w] \in Job /\ job[w].sid \in Session /\ job[w].report # 0
      /\ file[job[w].sid] # 0 => job[w].report <= file[job[w].sid]
  BY DEF IInv, TypeOK, LoadedOK, LoadEpisodes
<1>2. file[job[w].sid] \in Version
  BY <1>1 DEF IInv, TypeOK
<1>3. j \in Job /\ j.sid = job[w].sid /\ j.report = job[w].report
  BY <1>1, <1>2 DEF Job
<1>4. job' = [job EXCEPT ![w] = j] /\ pc' = [pc EXCEPT ![w] = "stat"] /\ UNCHANGED <<file, row, reader>>
  BY DEF LoadEpisodes, Goto, IInv, TypeOK
<1>5. started' \in 0..MaxCommands
  BY DEF LoadEpisodes, IInv, TypeOK
<1> HIDE DEF j
<1> QED
  BY <1>1, <1>3, <1>4, <1>5, WriterMoves

LEMMA StatInv ==
  ASSUME IInv, NEW w \in Writer, Stat(w)
  PROVE  IInv'
<1> DEFINE j == [job[w] EXCEPT !.mtime = file[job[w].sid]]
<1>1. /\ job[w] \in Job /\ job[w].sid \in Session /\ job[w].report # 0
      /\ file[job[w].sid] # 0 => job[w].report <= file[job[w].sid]
  BY DEF IInv, TypeOK, LoadedOK, Stat
<1>2. file[job[w].sid] \in Version
  BY <1>1 DEF IInv, TypeOK
<1>3. j \in Job /\ j.sid = job[w].sid /\ j.report = job[w].report /\ j.mtime = file[job[w].sid]
  BY <1>1, <1>2 DEF Job
<1>4. job' = [job EXCEPT ![w] = j] /\ pc' = [pc EXCEPT ![w] = "commit"] /\ UNCHANGED <<file, row, reader>>
  BY DEF Stat, Goto, IInv, TypeOK
<1>5. started' \in 0..MaxCommands
  BY DEF Stat, IInv, TypeOK
<1> HIDE DEF j
<1> QED
  BY <1>1, <1>3, <1>4, <1>5, WriterMoves

(* The transaction stores a whole row: what its writer has loaded, with a  *)
(* modification time read later.                                           *)
LEMMA CommitInv ==
  ASSUME IInv, NEW w \in Writer, Commit(w)
  PROVE  IInv'
<1> DEFINE j == job[w]
           new == [report |-> j.report, episodes |-> 0, mtime |-> j.mtime]
<1>1. /\ j \in Job /\ j.sid \in Session /\ j.report # 0
      /\ j.mtime # 0 => j.report <= j.mtime
  BY DEF IInv, TypeOK, LoadedOK, StattedOK, Commit
<1>2. j.todo \in SUBSET Session /\ {} \in SUBSET Session
  BY <1>1 DEF Job
<1>3. new \in Row /\ new.report = j.report /\ new.mtime = j.mtime
  BY <1>1, NoJobType DEF Job, Row
<1>4. UNCHANGED <<file, started, reader>>
  BY DEF Commit
<1>5. CASE MayFail /\ NextTarget(w, j.todo) /\ UNCHANGED row
  BY <1>2, <1>4, <1>5, NextTargetKeeps
<1>6. CASE /\ row' = [row EXCEPT ![j.sid] = new]
           /\ \/ j.cmd = "watch" /\ NextTarget(w, {})
              \/ j.cmd # "watch" /\ Goto(w, "episodes") /\ UNCHANGED job
  <2>1. row' \in [Session -> Row \cup {NoRow}]
    BY <1>1, <1>3, <1>6 DEF IInv, TypeOK
  <2>2. RowsAreWhole'
    <3> SUFFICES ASSUME NEW s \in Session, row'[s] # NoRow
                 PROVE  row'[s].report # 0 /\ (row'[s].mtime = 0 \/ row'[s].mtime >= row'[s].report)
      BY DEF RowsAreWhole
    <3>1. CASE s = j.sid
      <4>1. row'[s] = new
        BY <1>6, <3>1 DEF IInv, TypeOK
      <4>2. j.report \in Nat /\ j.mtime \in Nat
        BY <1>1, ConstantsAssumption DEF Job, Version
      <4> QED
        BY <1>1, <1>3, <4>1, <4>2
    <3>2. CASE s # j.sid
      BY <1>6, <3>2 DEF IInv, TypeOK, RowsAreWhole
    <3> QED
      BY <3>1, <3>2
  <2>3. /\ pc' \in [Writer -> {"idle", "load", "reload", "stat", "commit", "episodes"}]
        /\ job' \in [Writer -> Job]
        /\ LoadedOK' /\ StattedOK'
    <3>1. CASE NextTarget(w, {})
      BY <1>2, <1>4, <3>1, NextTargetInv
    <3>2. CASE Goto(w, "episodes") /\ UNCHANGED job
      BY <1>1, <1>4, <3>2 DEF IInv, TypeOK, LoadedOK, StattedOK, Goto, Commit
    <3> QED
      BY <1>6, <3>1, <3>2
  <2>4. TypeOK'
    BY <1>4, <2>1, <2>3 DEF IInv, TypeOK, reader
  <2> QED
    BY <2>2, <2>3, <2>4 DEF IInv
<1> QED
  BY <1>5, <1>6 DEF Commit

(* Storing the episodes leaves the report and the time of a row alone, and *)
(* makes no row.                                                           *)
LEMMA WriteEpisodesInv ==
  ASSUME IInv, NEW w \in Writer, WriteEpisodes(w)
  PROVE  IInv'
<1> DEFINE j == job[w]
<1>1. j \in Job /\ j.sid \in Session /\ j.todo \in SUBSET Session /\ j.episodes \in Version
  BY DEF IInv, TypeOK, LoadedOK, WriteEpisodes, Job
<1>2. UNCHANGED <<file, started, reader>> /\ NextTarget(w, j.todo)
  BY DEF WriteEpisodes
<1>3. CASE UNCHANGED row
  BY <1>1, <1>2, <1>3, NextTargetKeeps
<1>4. CASE row[j.sid] # NoRow /\ row' = [row EXCEPT ![j.sid].episodes = j.episodes]
  <2>1. row[j.sid] \in Row
    BY <1>1, <1>4 DEF IInv, TypeOK
  <2>2. /\ row'[j.sid] = [row[j.sid] EXCEPT !.episodes = j.episodes]
        /\ \A s \in Session : s # j.sid => row'[s] = row[s]
    BY <1>1, <1>4 DEF IInv, TypeOK
  <2>3. /\ row'[j.sid] \in Row
        /\ row'[j.sid].report = row[j.sid].report /\ row'[j.sid].mtime = row[j.sid].mtime
    BY <1>1, <2>1, <2>2 DEF Row
  <2>4. row' \in [Session -> Row \cup {NoRow}]
    BY <1>1, <1>4, <2>2, <2>3 DEF IInv, TypeOK
  <2>5. RowsAreWhole'
    BY <1>1, <1>4, <2>2, <2>3 DEF IInv, RowsAreWhole
  <2>6. /\ pc' \in [Writer -> {"idle", "load", "reload", "stat", "commit", "episodes"}]
        /\ job' \in [Writer -> Job]
        /\ LoadedOK' /\ StattedOK'
    BY <1>1, <1>2, NextTargetInv
  <2>7. TypeOK'
    BY <1>2, <2>4, <2>6 DEF IInv, TypeOK, reader
  <2> QED
    BY <2>5, <2>6, <2>7 DEF IInv
<1> QED
  BY <1>3, <1>4 DEF WriteEpisodes

(* A killed writer and a prune leave no row that was not there.            *)
LEMMA KillInv ==
  ASSUME IInv, NEW w \in Writer, Kill(w)
  PROVE  IInv'
  BY NextTargetKeeps, {} \in SUBSET Session DEF Kill

LEMMA PruneInv ==
  ASSUME IInv, Prune
  PROVE  IInv'
<1>1. PICK gone \in {Session, Session \ Recent} :
        /\ row' = [s \in Session |-> IF s \in gone THEN NoRow ELSE row[s]]
        /\ unstored' = unstored \cup gone
        /\ UNCHANGED <<file, writers, step, seen, warned, todo, got, shown, failed, rowSeen>>
  BY DEF Prune
<1>2. TypeOK'
  BY <1>1 DEF IInv, TypeOK, writers
<1>3. RowsAreWhole'
  BY <1>1 DEF IInv, RowsAreWhole
<1>4. LoadedOK' /\ StattedOK'
  BY <1>1 DEF IInv, LoadedOK, StattedOK, writers
<1> QED
  BY <1>2, <1>3, <1>4 DEF IInv
-----------------------------------------------------------------------------
(* The reader leaves files, rows and writers alone; its own variables keep *)
(* their types.                                                            *)
LEMMA ReadKeeps ==
  ASSUME IInv, UNCHANGED <<file, row, writers>>, TypeOK'
  PROVE  IInv'
  BY DEF IInv, RowsAreWhole, LoadedOK, StattedOK, writers

LEMMA ReadTypes ==
  ASSUME TypeOK, Read
  PROVE  UNCHANGED <<file, row, writers>> /\ TypeOK'
<1> USE NoJobType
<1>1. ASSUME ScanFiles PROVE UNCHANGED <<file, row, writers>> /\ TypeOK'
  BY <1>1 DEF ScanFiles, TypeOK, writers
<1>2. ASSUME ScanRows PROVE UNCHANGED <<file, row, writers>> /\ TypeOK'
  <2>1. Seen \subseteq Session /\ Stored \subseteq Session
    BY ConstantsAssumption DEF Seen, Stored
  <2>2. warned' \subseteq Session /\ todo' \subseteq Session
    BY <1>2, <2>1 DEF ScanRows
  <2> QED
    BY <1>2, <2>2 DEF ScanRows, TypeOK, writers
<1>3. ASSUME ReportFromStore PROVE UNCHANGED <<file, row, writers>> /\ TypeOK'
  <2>1. PICK s \in todo :
          /\ todo' = todo \ {s}
          /\ \/ /\ row[s] # NoRow
                /\ got' = [sid |-> s, report |-> row[s].report, row |-> row[s]]
                /\ step' = "episodes"
             \/ /\ row[s] = NoRow
                /\ got' = [Nothing EXCEPT !.sid = s]
                /\ step' = "report_file"
    BY <1>3 DEF ReportFromStore
  <2>2. UNCHANGED <<file, row, pc, job, started, seen, warned, shown, failed, rowSeen, unstored>>
    BY <1>3 DEF ReportFromStore, writers
  <2>3. s \in Session /\ row[s] \in Row \cup {NoRow}
    BY DEF TypeOK
  <2>4. got' \in Got /\ got'.sid = s
    <3>1. CASE row[s] # NoRow /\ got' = [sid |-> s, report |-> row[s].report, row |-> row[s]]
      BY <2>3, <3>1 DEF Got, Row
    <3>2. CASE got' = [Nothing EXCEPT !.sid = s]
      BY <2>3, <3>2 DEF Got, Nothing
    <3> QED
      BY <2>1, <3>1, <3>2
  <2> QED
    BY <2>1, <2>2, <2>3, <2>4 DEF TypeOK, writers
<1>4. Nothing \in Got
  BY DEF Nothing, Got
<1>5. ASSUME ReportFromFile PROVE UNCHANGED <<file, row, writers>> /\ TypeOK'
  <2>1. got \in Got /\ got.sid \in Session /\ file[got.sid] \in Version
    BY <1>5 DEF ReportFromFile, TypeOK
  <2>2. [got EXCEPT !.report = file[got.sid]] \in Got /\ [got EXCEPT !.report = file[got.sid]].sid = got.sid
    BY <2>1 DEF Got
  <2>3. UNCHANGED <<file, row, pc, job, started, seen, warned, todo, rowSeen, unstored>>
    BY <1>5 DEF ReportFromFile, writers
  <2>4. got' \in Got /\ step' \in {"report", "episodes"} /\ failed' \subseteq Session
    BY <1>4, <1>5, <2>1, <2>2 DEF ReportFromFile, GiveUp, TypeOK
  <2>5. step' = "episodes" => got'.sid \in Session
    BY <1>5, <2>1, <2>2 DEF ReportFromFile, GiveUp
  <2> QED
    BY <2>3, <2>4, <2>5 DEF TypeOK, writers
<1>6. ASSUME EpisodesFromStore PROVE UNCHANGED <<file, row, writers>> /\ TypeOK'
  BY <1>4, <1>6 DEF EpisodesFromStore, Show, TypeOK, writers
<1>7. ASSUME EpisodesFromFile PROVE UNCHANGED <<file, row, writers>> /\ TypeOK'
  <2>1. got.sid \in Session
    BY <1>7 DEF EpisodesFromFile, TypeOK
  <2> QED
    BY <1>4, <1>7, <2>1 DEF EpisodesFromFile, Show, GiveUp, TypeOK, writers
<1> QED
  BY <1>1, <1>2, <1>3, <1>5, <1>6, <1>7 DEF Read

-----------------------------------------------------------------------------
LEMMA StepInv == IInv /\ [Next]_vars => IInv'
<1> SUFFICES ASSUME IInv, [Next]_vars PROVE IInv'
  OBVIOUS
<1>1. CASE \E s \in Session : Append(s) \/ Rotate(s)
  BY <1>1, FileInv
<1>2. CASE \E w \in Writer : Write(w)
  <2>1. PICK w \in Writer : Write(w)
    BY <1>2
  <2>2. CASE \E cmd \in Commands, s \in Session : StartSingle(w, cmd, s)
    BY <2>2, StartSingleInv
  <2>3. CASE \E targets \in SUBSET Session : StartIngest(w, targets)
    BY <2>3, StartIngestInv
  <2>4. CASE LoadReport(w) \/ LoadEpisodes(w) \/ Stat(w)
    BY <2>4, LoadReportInv, LoadEpisodesInv, StatInv
  <2>5. CASE Commit(w) \/ WriteEpisodes(w) \/ Kill(w)
    BY <2>5, CommitInv, WriteEpisodesInv, KillInv
  <2> QED
    BY <2>1, <2>2, <2>3, <2>4, <2>5 DEF Write
<1>3. CASE Prune
  BY <1>3, PruneInv
<1>4. CASE Read
  BY <1>4, ReadTypes, ReadKeeps DEF IInv
<1>5. CASE UNCHANGED vars
  BY <1>5 DEF vars, writers, reader, IInv, TypeOK, RowsAreWhole, LoadedOK, StattedOK
<1> QED
  BY <1>1, <1>2, <1>3, <1>4, <1>5 DEF Next

LEMMA Invariance == Spec => []IInv
<1>1. Init => IInv
  BY InitInv
<1>2. IInv /\ [Next]_vars => IInv'
  BY StepInv
<1> QED
  BY <1>1, <1>2, PTL DEF Spec

(* Every variable of the store, its writers and its reader keeps its type. *)
THEOREM TypeCorrect == Spec => []TypeOK
<1>1. IInv => TypeOK
  BY DEF IInv
<1> QED
  BY <1>1, Invariance, PTL

(* However writers, prunes, kills, growing and vanishing files interleave, *)
(* a stored row has a report, and its modification time is 0 or not older  *)
(* than what the report was derived from.                                  *)
THEOREM RowsStayWhole == Spec => []RowsAreWhole
<1>1. IInv => RowsAreWhole
  BY DEF IInv
<1> QED
  BY <1>1, Invariance, PTL
-----------------------------------------------------------------------------
(* The reader.  A session without a row after the scan has been seen       *)
(* without one, since only a prune removes rows; what the reader has from  *)
(* a file is not older than its scan, what it has from the store is what   *)
(* the row says; and it has warned of every listed row whose modification  *)
(* time is not the file's.                                                 *)
Loaded(r) ==
  /\ r.sid \in Session /\ r.report \in Nat /\ r.row \in Row \cup {NoRow}
  /\ r.row = NoRow => r.report >= seen[r.sid]
  /\ r.row # NoRow => r.report = r.row.report

NothingYet == step \in {"scan", "merge"} => shown = {} /\ failed = {}
MissingIsKnown == step # "scan" => \A s \in Session : row[s] = NoRow => s \in unstored
SeenBefore == \A s \in Session : file[s] # 0 => seen[s] <= file[s]
DifferenceIsWarned ==
  step \notin {"scan", "merge"} =>
    \A s \in Recent : seen[s] # 0 /\ rowSeen[s] # NoRow /\ rowSeen[s].mtime # seen[s] => s \in warned
InHand ==
  /\ step \in {"report_file", "episodes_file"} => got.sid \in unstored
  /\ step = "report_file" => got.row = NoRow
  /\ step \in {"episodes", "episodes_file"} => Loaded(got)

RInv == /\ NothingYet /\ MissingIsKnown /\ SeenBefore /\ DifferenceIsWarned /\ InHand
        /\ \A r \in shown : Loaded(r)
        /\ FailureOnlyIfGone

LEMMA InitReader == Init => RInv
<1> SUFFICES ASSUME Init PROVE RInv
  OBVIOUS
<1> QED
  BY ConstantsAssumption
     DEF Init, RInv, NothingYet, MissingIsKnown, SeenBefore, DifferenceIsWarned, InHand, FailureOnlyIfGone

(* Writers change neither files nor what the reader has, and remove no row. *)
LEMMA WritersKeepRows ==
  ASSUME IInv, NEW w \in Writer, Write(w)
  PROVE  /\ UNCHANGED <<file, reader>>
         /\ \A s \in Session : row'[s] = NoRow => row[s] = NoRow
<1> USE DEF IInv, TypeOK
<1>1. ASSUME NEW cmd \in Commands, NEW s \in Session, StartSingle(w, cmd, s)
      PROVE  UNCHANGED <<file, reader, row>>
  BY <1>1 DEF StartSingle
<1>2. ASSUME NEW targets \in SUBSET Session, StartIngest(w, targets) PROVE UNCHANGED <<file, reader, row>>
  BY <1>2 DEF StartIngest
<1>3. ASSUME LoadReport(w) \/ LoadEpisodes(w) \/ Stat(w) \/ Kill(w) PROVE UNCHANGED <<file, reader, row>>
  BY <1>3 DEF LoadReport, LoadEpisodes, Stat, Kill
<1>4. ASSUME Commit(w)
      PROVE  /\ UNCHANGED <<file, reader>>
             /\ \A s \in Session : row'[s] = NoRow => row[s] = NoRow
  <2>1. [report |-> job[w].report, episodes |-> 0, mtime |-> job[w].mtime] \in [report : Nat, episodes : Nat, mtime : Nat]
    BY ConstantsAssumption DEF Job, Version
  <2>2. [report |-> job[w].report, episodes |-> 0, mtime |-> job[w].mtime] # NoRow
    BY <2>1, ConstantsAssumption
  <2> QED
    BY <1>4, <2>2 DEF Commit
<1>5. ASSUME WriteEpisodes(w)
      PROVE  /\ UNCHANGED <<file, reader>>
             /\ \A s \in Session : row'[s] = NoRow => row[s] = NoRow
  <2>1. CASE UNCHANGED row
    BY <1>5, <2>1 DEF WriteEpisodes
  <2>2. CASE row[job[w].sid] # NoRow /\ row' = [row EXCEPT ![job[w].sid].episodes = job[w].episodes]
    <3>1. job[w].sid \in Session /\ job[w].episodes \in Version /\ row[job[w].sid] \in Row
      BY <1>5, <2>2 DEF LoadedOK, WriteEpisodes, Job
    <3>2. [row[job[w].sid] EXCEPT !.episodes = job[w].episodes] \in [report : Nat, episodes : Nat, mtime : Nat]
      BY <3>1, ConstantsAssumption DEF Row, Version
    <3>3. row'[job[w].sid] # NoRow
      BY <2>2, <3>1, <3>2, ConstantsAssumption
    <3>4. \A s \in Session : s # job[w].sid => row'[s] = row[s]
      BY <2>2
    <3> QED
      BY <1>5, <3>3, <3>4, <2>2 DEF WriteEpisodes
  <2> QED
    BY <1>5, <2>1, <2>2 DEF WriteEpisodes
<1> QED
  BY <1>1, <1>2, <1>3, <1>4, <1>5 DEF Write

LEMMA OthersKeepReader ==
  ASSUME IInv, RInv, [Next]_vars, ~Read
  PROVE  RInv'
<1> USE DEF RInv
<1>1. CASE \E w \in Writer : Write(w)
  <2>1. /\ UNCHANGED <<file, reader>>
        /\ \A s \in Session : row'[s] = NoRow => row[s] = NoRow
    BY <1>1, WritersKeepRows
  <2> QED
    BY <2>1 DEF reader, NothingYet, MissingIsKnown, SeenBefore, DifferenceIsWarned, InHand, Loaded, FailureOnlyIfGone
<1>2. CASE \E s \in Session : Append(s) \/ Rotate(s)
  <2>1. UNCHANGED <<row, reader>>
    BY <1>2 DEF Append, Rotate
  <2>2. \A s \in Session : file'[s] # 0 => file[s] # 0 /\ file[s] <= file'[s]
    BY <1>2, ConstantsAssumption DEF Append, Rotate, IInv, TypeOK, Version
  <2>3. \A s \in Session : seen[s] \in Nat /\ file[s] \in Nat /\ file'[s] \in Nat
    BY <1>2, ConstantsAssumption DEF Append, Rotate, IInv, TypeOK, Version
  <2>4. SeenBefore'
    BY <2>1, <2>2, <2>3 DEF reader, SeenBefore
  <2>5. FailureOnlyIfGone'
    BY <2>1, <2>2 DEF reader, FailureOnlyIfGone, IInv, TypeOK
  <2> QED
    BY <2>1, <2>4, <2>5 DEF reader, NothingYet, MissingIsKnown, DifferenceIsWarned, InHand, Loaded
<1>3. CASE Prune
  <2>1. PICK gone \in {Session, Session \ Recent} :
          /\ row' = [s \in Session |-> IF s \in gone THEN NoRow ELSE row[s]]
          /\ unstored' = unstored \cup gone
          /\ UNCHANGED <<file, writers, step, seen, warned, todo, got, shown, failed, rowSeen>>
    BY <1>3 DEF Prune
  <2>2. MissingIsKnown'
    BY <2>1 DEF MissingIsKnown
  <2>3. InHand' /\ FailureOnlyIfGone'
    BY <2>1 DEF InHand, Loaded, FailureOnlyIfGone
  <2> QED
    BY <2>1, <2>2, <2>3 DEF NothingYet, SeenBefore, DifferenceIsWarned, Loaded
<1>4. CASE UNCHANGED vars
  BY <1>4 DEF vars, reader, NothingYet, MissingIsKnown, SeenBefore, DifferenceIsWarned, InHand, Loaded, FailureOnlyIfGone
<1> QED
  BY <1>1, <1>2, <1>3, <1>4 DEF Next
LEMMA ReaderSteps ==
  ASSUME IInv, RInv, Read
  PROVE  RInv'
<1> USE DEF RInv
<1>1. UNCHANGED <<file, row, writers>> /\ TypeOK'
  BY ReadTypes DEF IInv
<1>2. ASSUME ScanFiles PROVE RInv'
  <2>1. step = "scan" /\ step' = "merge" /\ UNCHANGED <<got, shown, failed, warned, todo, rowSeen>>
    BY <1>2 DEF ScanFiles
  <2>2. shown' = {} /\ failed' = {}
    BY <2>1 DEF NothingYet
  <2>3. MissingIsKnown'
    BY <1>2 DEF ScanFiles, MissingIsKnown
  <2>4. SeenBefore'
    BY <1>2, ConstantsAssumption DEF ScanFiles, SeenBefore, IInv, TypeOK, Version
  <2> QED
    BY <2>1, <2>2, <2>3, <2>4 DEF NothingYet, DifferenceIsWarned, InHand, FailureOnlyIfGone
<1>3. ASSUME ScanRows PROVE RInv'
  <2>1. step = "merge" /\ step' = "report" /\ UNCHANGED <<file, row, seen, got, shown, failed, unstored>>
    BY <1>3 DEF ScanRows
  <2>2. shown' = {} /\ failed' = {}
    BY <2>1 DEF NothingYet
  <2>3. DifferenceIsWarned'
    BY <1>3, ConstantsAssumption DEF ScanRows, DifferenceIsWarned, Seen, Stored, Differs
  <2> QED
    BY <2>1, <2>2, <2>3 DEF NothingYet, MissingIsKnown, SeenBefore, InHand, FailureOnlyIfGone
<1>4. ASSUME ReportFromStore PROVE RInv'
  <2>1. PICK s \in todo :
          /\ todo' = todo \ {s}
          /\ \/ /\ row[s] # NoRow
                /\ got' = [sid |-> s, report |-> row[s].report, row |-> row[s]]
                /\ step' = "episodes"
             \/ /\ row[s] = NoRow
                /\ got' = [Nothing EXCEPT !.sid = s]
                /\ step' = "report_file"
    BY <1>4 DEF ReportFromStore
  <2>2. step = "report" /\ UNCHANGED <<file, row, seen, warned, shown, failed, rowSeen, unstored>>
    BY <1>4 DEF ReportFromStore
  <2>3. s \in Session /\ row[s] \in Row \cup {NoRow}
    BY DEF IInv, TypeOK
  <2>4. InHand'
    <3>1. CASE /\ row[s] # NoRow
               /\ got' = [sid |-> s, report |-> row[s].report, row |-> row[s]]
               /\ step' = "episodes"
      <4>1. got'.sid = s /\ got'.report = row[s].report /\ got'.row = row[s] /\ row[s].report \in Nat
        BY <2>3, <3>1, ConstantsAssumption DEF Row, Version
      <4> QED
        BY <2>3, <3>1, <4>1 DEF InHand, Loaded
    <3>2. CASE row[s] = NoRow /\ got' = [Nothing EXCEPT !.sid = s] /\ step' = "report_file"
      BY <2>2, <2>3, <3>2 DEF InHand, MissingIsKnown, Nothing
    <3> QED
      BY <2>1, <3>1, <3>2
  <2> QED
    BY <2>1, <2>2, <2>4 DEF NothingYet, MissingIsKnown, SeenBefore, DifferenceIsWarned, Loaded, FailureOnlyIfGone
<1>5. ASSUME ReportFromFile \/ EpisodesFromFile, GiveUp, file[got.sid] = 0 PROVE RInv'
  <2>1. /\ step \in {"report_file", "episodes_file"} /\ step' = "report"
        /\ failed' = failed \cup {got.sid}
        /\ UNCHANGED <<file, row, seen, warned, shown, rowSeen, unstored>>
    BY <1>5 DEF ReportFromFile, EpisodesFromFile, GiveUp
  <2>2. FailureOnlyIfGone'
    BY <1>5, <2>1 DEF FailureOnlyIfGone, InHand
  <2> QED
    BY <2>1, <2>2 DEF NothingYet, MissingIsKnown, SeenBefore, DifferenceIsWarned, Loaded, InHand
<1>6. ASSUME ReportFromFile, file[got.sid] # 0, got' = [got EXCEPT !.report = file[got.sid]], step' = "episodes"
      PROVE  RInv'
  <2>1. step = "report_file" /\ got.row = NoRow /\ got.sid \in Session /\ got \in Got
    BY <1>6 DEF ReportFromFile, InHand, IInv, TypeOK
  <2>2. UNCHANGED <<file, row, seen, warned, shown, failed, rowSeen, unstored>>
    BY <1>6 DEF ReportFromFile, GiveUp
  <2>3. got'.sid = got.sid /\ got'.row = NoRow /\ got'.report = file[got.sid]
    BY <1>6, <2>1 DEF Got
  <2>4. file[got.sid] \in Nat /\ seen[got.sid] \in Nat /\ seen[got.sid] <= file[got.sid]
    BY <1>6, <2>1, ConstantsAssumption DEF SeenBefore, IInv, TypeOK, Version
  <2>5. InHand'
    BY <1>6, <2>1, <2>2, <2>3, <2>4 DEF InHand, Loaded
  <2> QED
    BY <1>6, <2>1, <2>2, <2>5 DEF NothingYet, MissingIsKnown, SeenBefore, DifferenceIsWarned, Loaded, FailureOnlyIfGone
<1>7. ASSUME EpisodesFromStore \/ EpisodesFromFile, NEW e, Show(e) PROVE RInv'
  <2>1. /\ step \in {"episodes", "episodes_file"} /\ step' = "report"
        /\ UNCHANGED <<file, row, seen, warned, failed, rowSeen, unstored>>
    BY <1>7 DEF EpisodesFromStore, EpisodesFromFile, Show
  <2> DEFINE r == [sid |-> got.sid, report |-> got.report, row |-> got.row, episodes |-> e]
  <2>2. shown' = shown \cup {r}
    BY <1>7 DEF Show
  <2>3. Loaded(r)
    BY <2>1 DEF InHand, Loaded
  <2> HIDE DEF r
  <2>4. \A q \in shown' : Loaded(q)
    BY <2>2, <2>3
  <2>5. (\A q \in shown : Loaded(q))'
    BY <2>1, <2>4 DEF Loaded
  <2> QED
    BY <2>1, <2>5 DEF NothingYet, MissingIsKnown, SeenBefore, DifferenceIsWarned, InHand, FailureOnlyIfGone
<1>8. ASSUME EpisodesFromStore, row[got.sid] = NoRow, step' = "episodes_file", UNCHANGED <<got, shown, failed>>
      PROVE  RInv'
  <2>1. step = "episodes" /\ UNCHANGED <<file, row, seen, warned, rowSeen, unstored>>
    BY <1>8 DEF EpisodesFromStore
  <2>2. got.sid \in unstored
    BY <1>8, <2>1 DEF MissingIsKnown, InHand, Loaded
  <2> QED
    BY <1>8, <2>1, <2>2 DEF NothingYet, MissingIsKnown, SeenBefore, DifferenceIsWarned, InHand, Loaded, FailureOnlyIfGone
<1>9. CASE ReportFromFile
  BY <1>5, <1>6, <1>9 DEF ReportFromFile
<1>10. CASE EpisodesFromStore
  BY <1>7, <1>8, <1>10 DEF EpisodesFromStore
<1>11. CASE EpisodesFromFile
  BY <1>5, <1>7, <1>11 DEF EpisodesFromFile
<1> QED
  BY <1>2, <1>3, <1>4, <1>9, <1>10, <1>11 DEF Read

LEMMA ReaderInvariance == Spec => [](IInv /\ RInv)
<1>1. Init => IInv /\ RInv
  BY InitInv, InitReader
<1>2. IInv /\ RInv /\ [Next]_vars => (IInv /\ RInv)'
  BY StepInv, OthersKeepReader, ReaderSteps
<1> QED
  BY <1>1, <1>2, PTL DEF Spec

(* The reader gives up only on sessions that were out of the store and     *)
(* whose file was gone.                                                    *)
THEOREM FailuresAreGone == Spec => []FailureOnlyIfGone
<1>1. RInv => FailureOnlyIfGone
  BY DEF RInv
<1> QED
  BY <1>1, ReaderInvariance, PTL

(* A stale report is announced, with the exceptions the property names: a  *)
(* report from the file is not stale, and one from the listed row was      *)
(* compared with the file, unless the row's time is not its report's.      *)
THEOREM StaleReportsAreWarned == Spec => []StaleIsWarned
<1>1. IInv /\ RInv => StaleIsWarned
  <2> SUFFICES ASSUME IInv, RInv, NEW r \in shown, r.report < seen[r.sid], r.sid \in Recent,
                      rowSeen[r.sid] = r.row, r.row.mtime = r.row.report
               PROVE  r.sid \in warned
    BY DEF StaleIsWarned
  <2>1. Loaded(r) /\ step \notin {"scan", "merge"}
    BY DEF RInv, NothingYet
  <2>2. r.report \in Nat /\ seen[r.sid] \in Nat
    BY <2>1, ConstantsAssumption DEF Loaded, IInv, TypeOK, Version
  <2>3. r.row # NoRow /\ r.report = r.row.report
    BY <2>1, <2>2 DEF Loaded
  <2>4. seen[r.sid] # 0 /\ rowSeen[r.sid].mtime # seen[r.sid]
    BY <2>2, <2>3
  <2> QED
    BY <2>1, <2>3, <2>4 DEF RInv, DifferenceIsWarned
<1> QED
  BY <1>1, ReaderInvariance, PTL
-----------------------------------------------------------------------------
(* The loop of the reader: the session in hand is in none of its sets, and *)
(* there is none between two sessions.                                     *)
AInv == /\ AllAreAccountedFor
        /\ step \in {"scan", "merge", "report"} => got.sid = NoSession
        /\ step \in {"report_file", "episodes", "episodes_file"} =>
             got.sid \notin todo \cup failed \cup {r.sid : r \in shown}

LEMMA InitAccounts == Init => AInv
  BY DEF Init, AInv, AllAreAccountedFor, Nothing

LEMMA OthersKeepAccounts ==
  ASSUME IInv, AInv, [Next]_vars, ~Read
  PROVE  AInv'
<1>1. UNCHANGED <<step, seen, todo, got, shown, failed, rowSeen>>
  <2>1. ASSUME NEW w \in Writer, Write(w) PROVE UNCHANGED reader
    BY <2>1, WritersKeepRows
  <2>2. ASSUME NEW s \in Session, Append(s) \/ Rotate(s) PROVE UNCHANGED reader
    BY <2>2 DEF Append, Rotate
  <2>3. ASSUME Prune PROVE UNCHANGED <<step, seen, todo, got, shown, failed, rowSeen>>
    BY <2>3 DEF Prune
  <2> QED
    BY <2>1, <2>2, <2>3 DEF Next, vars, reader
<1> QED
  BY <1>1 DEF AInv, AllAreAccountedFor, Seen

LEMMA ReaderAccounts ==
  ASSUME IInv, RInv, AInv, Read
  PROVE  AInv'
<1> DEFINE Ids(rs) == {r.sid : r \in rs}
           Listed == Seen \cup {s \in Recent : rowSeen[s] # NoRow}
<1>1. ASSUME ScanFiles PROVE AInv'
  <2>1. step = "scan" /\ step' = "merge" /\ UNCHANGED <<got, shown, failed, todo>>
    BY <1>1 DEF ScanFiles
  <2> QED
    BY <2>1 DEF AInv, AllAreAccountedFor
<1>2. ASSUME ScanRows PROVE AInv'
  <2>1. /\ step = "merge" /\ step' = "report" /\ UNCHANGED <<seen, got, shown, failed>>
        /\ todo' = Seen \cup Stored /\ rowSeen' = row
    BY <1>2 DEF ScanRows
  <2>2. shown' = {} /\ failed' = {} /\ got'.sid = NoSession
    BY <2>1 DEF RInv, NothingYet, AInv
  <2>3. Seen' = Seen
    BY <2>1 DEF Seen
  <2> QED
    BY <2>1, <2>2, <2>3 DEF AInv, AllAreAccountedFor, Stored
<1>3. ASSUME UNCHANGED <<seen, rowSeen>> PROVE Listed' = Listed
  BY <1>3 DEF Seen
<1>4. step \in {"report", "report_file", "episodes", "episodes_file"} =>
        /\ \A r, q \in shown : r.sid = q.sid => r = q
        /\ Ids(shown) \cap failed = {} /\ (Ids(shown) \cup failed) \cap todo = {}
        /\ Ids(shown) \cup failed \cup todo \cup ({got.sid} \ {NoSession}) = Listed
  BY DEF AInv, AllAreAccountedFor
<1>5. ASSUME ReportFromStore PROVE AInv'
  <2>1. PICK s \in todo :
          /\ todo' = todo \ {s}
          /\ \/ /\ row[s] # NoRow
                /\ got' = [sid |-> s, report |-> row[s].report, row |-> row[s]]
                /\ step' = "episodes"
             \/ /\ row[s] = NoRow
                /\ got' = [Nothing EXCEPT !.sid = s]
                /\ step' = "report_file"
    BY <1>5 DEF ReportFromStore
  <2>2. step = "report" /\ UNCHANGED <<seen, shown, failed, rowSeen>>
    BY <1>5 DEF ReportFromStore
  <2>3. got'.sid = s /\ got.sid = NoSession /\ s # NoSession /\ step' \in {"episodes", "report_file"}
    BY <2>1, <2>2, ConstantsAssumption DEF AInv, Nothing, IInv, TypeOK
  <2>4. (Ids(shown) \cup failed) \cap todo = {} /\ Ids(shown) \cup failed \cup todo = Listed
    BY <1>4, <2>2, <2>3
  <2>5. AllAreAccountedFor'
    <3>1. Ids(shown) \cup failed \cup todo' \cup ({s} \ {NoSession}) = Listed
      BY <2>1, <2>3, <2>4
    <3>2. (Ids(shown) \cup failed) \cap todo' = {}
      BY <2>1, <2>4
    <3>3. Listed' = Listed
      BY <1>3, <2>2
    <3> QED
      BY <1>4, <2>2, <2>3, <3>1, <3>2, <3>3 DEF AllAreAccountedFor
  <2> QED
    BY <2>1, <2>2, <2>3, <2>4, <2>5 DEF AInv
<1>6. ASSUME ReportFromFile \/ EpisodesFromFile, GiveUp PROVE AInv'
  <2>1. /\ step \in {"report_file", "episodes_file"} /\ step' = "report"
        /\ failed' = failed \cup {got.sid} /\ got' = Nothing
        /\ UNCHANGED <<seen, shown, todo, rowSeen>>
    BY <1>6 DEF ReportFromFile, EpisodesFromFile, GiveUp
  <2>2. got.sid \in Session /\ got.sid # NoSession /\ got'.sid = NoSession
    BY <2>1, ConstantsAssumption DEF IInv, TypeOK, Nothing
  <2>3. got.sid \notin todo \cup failed \cup Ids(shown)
    BY <2>1 DEF AInv
  <2>4. Listed' = Listed
    BY <1>3, <2>1
  <2> QED
    BY <1>4, <2>1, <2>2, <2>3, <2>4 DEF AInv, AllAreAccountedFor
<1>7. ASSUME EpisodesFromStore \/ EpisodesFromFile, NEW e, Show(e) PROVE AInv'
  <2> DEFINE r == [sid |-> got.sid, report |-> got.report, row |-> got.row, episodes |-> e]
  <2>1. /\ step \in {"episodes", "episodes_file"} /\ step' = "report"
        /\ shown' = shown \cup {r} /\ got' = Nothing
        /\ UNCHANGED <<seen, failed, todo, rowSeen>>
    BY <1>7 DEF EpisodesFromStore, EpisodesFromFile, Show
  <2>2. got.sid \in Session /\ got.sid # NoSession /\ got'.sid = NoSession /\ r.sid = got.sid
    BY <2>1, ConstantsAssumption DEF IInv, TypeOK, Nothing
  <2>3. got.sid \notin todo \cup failed \cup Ids(shown)
    BY <2>1 DEF AInv
  <2> HIDE DEF r
  <2>4. Ids(shown') = Ids(shown) \cup {got.sid}
    BY <2>1, <2>2
  <2>5. \A p, q \in shown' : p.sid = q.sid => p = q
    BY <1>4, <2>1, <2>2, <2>3
  <2>6. Listed' = Listed
    BY <1>3, <2>1
  <2> QED
    BY <1>4, <2>1, <2>2, <2>3, <2>4, <2>5, <2>6 DEF AInv, AllAreAccountedFor
<1>8. ASSUME ReportFromFile \/ EpisodesFromStore, UNCHANGED <<shown, failed>>, got'.sid = got.sid,
             step' \in {"episodes", "episodes_file"}
      PROVE  AInv'
  <2>1. step \in {"report_file", "episodes"} /\ UNCHANGED <<seen, todo, rowSeen>>
    BY <1>8 DEF ReportFromFile, EpisodesFromStore
  <2>2. Listed' = Listed
    BY <1>3, <2>1
  <2> QED
    BY <1>4, <1>8, <2>1, <2>2 DEF AInv, AllAreAccountedFor
<1>9. CASE ReportFromFile
  <2>1. [got EXCEPT !.report = file[got.sid]].sid = got.sid
    BY DEF IInv, TypeOK, Got
  <2> QED
    BY <1>6, <1>8, <1>9, <2>1 DEF ReportFromFile
<1>10. CASE EpisodesFromStore
  BY <1>7, <1>8, <1>10 DEF EpisodesFromStore
<1>11. CASE EpisodesFromFile
  BY <1>6, <1>7, <1>11 DEF EpisodesFromFile
<1> QED
  BY <1>1, <1>2, <1>5, <1>9, <1>10, <1>11 DEF Read

(* Each listed session is shown or counted as a failure, once.             *)
THEOREM SessionsAreAccountedFor == Spec => []AllAreAccountedFor
<1>1. Init => IInv /\ RInv /\ AInv
  BY InitInv, InitReader, InitAccounts
<1>2. IInv /\ RInv /\ AInv /\ [Next]_vars => (IInv /\ RInv /\ AInv)'
  BY StepInv, OthersKeepReader, ReaderSteps, OthersKeepAccounts, ReaderAccounts
<1>3. AInv => AllAreAccountedFor
  BY DEF AInv
<1> QED
  BY <1>1, <1>2, <1>3, PTL DEF Spec

(* No session of a listing is lost: it is shown, or it failed for good.    *)
THEOREM NoSessionIsLost == Spec => []EverySessionIsAccountedFor
<1>1. FailureOnlyIfGone /\ AllAreAccountedFor => EverySessionIsAccountedFor
  BY DEF EverySessionIsAccountedFor
<1> QED BY FailuresAreGone, SessionsAreAccountedFor, <1>1, PTL
=============================================================================
