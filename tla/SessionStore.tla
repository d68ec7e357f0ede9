---------------------------- MODULE SessionStore ----------------------------
(***************************************************************************)
(* The SQLite session store and the command-line processes that share it:  *)
(* `analyze`, `db ingest` and `watch` write a session's report and         *)
(* episodes, `db prune` deletes rows, and a reader (`aggregate`; `list` is *)
(* its first half) merges the store with the session files.  Processes     *)
(* interleave between any two file reads or statements; a transaction is   *)
(* one step.  Meanwhile agents append to session files and old files go.   *)
(*                                                                         *)
(* A file is its version, which is also its modification time; 0 is no     *)
(* file.  A report or an episodes blob is the version it was derived from. *)
(***************************************************************************)
EXTENDS Naturals

CONSTANTS
  Session,
  Recent,        \* the sessions that started within the --since window
  Writer,
  NoRow, NoSession,
  Commands,      \* the writing commands that are run
  MaxVersion,    \* bound on the versions of a file
  MaxCommands,   \* bound on the commands started
  MayFail        \* whether writes fail and processes are killed

ASSUME ConstantsAssumption ==
  /\ Recent \subseteq Session
  /\ NoSession \notin Session
  /\ NoRow \notin [report : Nat, episodes : Nat, mtime : Nat]
  /\ Commands \subseteq {"analyze", "watch", "ingest"}
  /\ MaxVersion \in Nat \ {0}
  /\ MaxCommands \in Nat
  /\ MayFail \in BOOLEAN

VARIABLES
  file,      \* the version of each session's events.jsonl
  row,       \* table sessions
  pc, job,   \* the writing processes
  started,   \* how many commands have been started
  step,      \* what the reader does next
  seen,      \* the file versions the reader's adapter scan found
  warned,    \* DualPathWarnings by session
  todo,      \* the sessions the reader still has to load
  got,       \* the session being loaded, its report and where it came from
  shown,     \* what the reader has loaded
  failed,    \* the sessions it counted as failures
  rowSeen,   \* the rows its storage scan found (history)
  unstored   \* the sessions without a row at some time since the scan (history)

writers == <<pc, job, started>>
reader == <<step, seen, warned, todo, got, shown, failed, rowSeen, unstored>>
vars == <<file, row, writers, reader>>

Version == 0..MaxVersion
Row == [report : Version, episodes : Version, mtime : Version]
NoJob == [cmd |-> "none", todo |-> {}, sid |-> NoSession, report |-> 0, episodes |-> 0, mtime |-> 0]
Job == [cmd : {"none", "analyze", "watch", "ingest"}, todo : SUBSET Session, sid : Session \cup {NoSession},
        report : Version, episodes : Version, mtime : Version]
Got == [sid : Session \cup {NoSession}, report : Version, row : Row \cup {NoRow}]
Nothing == [sid |-> NoSession, report |-> 0, row |-> NoRow]

Init ==
  /\ file \in [Session -> {0, 1}]
  /\ row = [s \in Session |-> NoRow]
  /\ pc = [w \in Writer |-> "idle"]
  /\ job = [w \in Writer |-> NoJob]
  /\ started = 0
  /\ step = "scan"
  /\ seen = [s \in Session |-> 0]
  /\ warned = {} /\ todo = {} /\ shown = {} /\ failed = {}
  /\ got = Nothing
  /\ rowSeen = row
  /\ unstored = {}

Goto(w, l) == pc' = [pc EXCEPT ![w] = l]

-----------------------------------------------------------------------------
(* The agents' side: logs grow and, once the agent rotates them, are gone. *)
Append(s) ==
  /\ file[s] \in 1..(MaxVersion - 1)
  /\ file' = [file EXCEPT ![s] = @ + 1]
  /\ UNCHANGED <<row, writers, reader>>

Rotate(s) ==
  /\ file[s] # 0
  /\ file' = [file EXCEPT ![s] = 0]
  /\ UNCHANGED <<row, writers, reader>>

-----------------------------------------------------------------------------
(* Writers *)
CanStart(w, cmd) == pc[w] = "idle" /\ started < MaxCommands /\ cmd \in Commands

(* analyze and watch read their session once, for report and episodes. *)
StartSingle(w, cmd, s) ==
  /\ cmd # "ingest" /\ CanStart(w, cmd) /\ file[s] # 0
  /\ job' = [job EXCEPT ![w] = [NoJob EXCEPT !.cmd = cmd, !.sid = s, !.report = file[s],
                                             !.episodes = file[s]]]
  /\ started' = started + 1
  /\ Goto(w, "stat")
  /\ UNCHANGED <<file, row, reader>>

(* ingest discovers its targets once. *)
StartIngest(w, targets) ==
  /\ CanStart(w, "ingest") /\ targets # {} /\ \A s \in targets : file[s] # 0
  /\ job' = [job EXCEPT ![w] = [NoJob EXCEPT !.cmd = "ingest", !.todo = targets]]
  /\ started' = started + 1
  /\ Goto(w, "load")
  /\ UNCHANGED <<file, row, reader>>

(* The next session of an ingest, or the end of the command. *)
NextTarget(w, rest) ==
  /\ Goto(w, IF rest = {} THEN "idle" ELSE "load")
  /\ job' = [job EXCEPT ![w] = IF rest = {} THEN NoJob
                               ELSE [NoJob EXCEPT !.cmd = "ingest", !.todo = rest]]

(* load_session_by_ref, or a load failure if the file is gone. *)
LoadReport(w) ==
  /\ pc[w] = "load"
  /\ \E s \in job[w].todo :
       LET rest == job[w].todo \ {s} IN
       \/ /\ file[s] # 0
          /\ job' = [job EXCEPT ![w].todo = rest, ![w].sid = s, ![w].report = file[s]]
          /\ Goto(w, "reload")
       \/ file[s] = 0 /\ NextTarget(w, rest)
  /\ UNCHANGED <<file, row, started, reader>>

(* load_episodes_by_ref reads the file again; if that fails, no episodes. *)
LoadEpisodes(w) ==
  /\ pc[w] = "reload"
  /\ job' = [job EXCEPT ![w].episodes = file[job[w].sid]]
  /\ Goto(w, "stat")
  /\ UNCHANGED <<file, row, started, reader>>

(* raw_mtime_ms, before the transaction: 0 if the file is gone. *)
Stat(w) ==
  /\ pc[w] = "stat"
  /\ job' = [job EXCEPT ![w].mtime = file[job[w].sid]]
  /\ Goto(w, "commit")
  /\ UNCHANGED <<file, row, started, reader>>

(* The transaction of upsert_report replaces the row; the column it does   *)
(* not name, episodes_json, gets its default, no episodes.  watch is done. *)
Commit(w) ==
  LET j == job[w] IN
  /\ pc[w] = "commit"
  /\ \/ /\ row' = [row EXCEPT ![j.sid] = [report |-> j.report, episodes |-> 0, mtime |-> j.mtime]]
        /\ \/ j.cmd = "watch" /\ NextTarget(w, {})
           \/ j.cmd # "watch" /\ Goto(w, "episodes") /\ UNCHANGED job
     \/ MayFail /\ NextTarget(w, j.todo) /\ UNCHANGED row
  /\ UNCHANGED <<file, started, reader>>

WrongWriteEpisodes(w) ==
  LET j == job[w] IN
  /\ pc[w] = "episodes"
  /\ row' = [row EXCEPT ![j.sid] = IF @ = NoRow THEN [report |-> 0, episodes |-> j.episodes, mtime |-> 0]
                                   ELSE [@ EXCEPT !.episodes = j.episodes]]
  /\ NextTarget(w, j.todo)
  /\ UNCHANGED <<file, started, reader>>

(* upsert_episodes updates the row if there still is one. *)
WriteEpisodes(w) ==
  LET j == job[w] IN
  /\ pc[w] = "episodes"
  /\ \/ /\ row[j.sid] # NoRow
        /\ row' = [row EXCEPT ![j.sid].episodes = j.episodes]
     \/ /\ row[j.sid] = NoRow \/ MayFail
        /\ UNCHANGED row
  /\ NextTarget(w, j.todo)
  /\ UNCHANGED <<file, started, reader>>

(* A process is killed between two steps; its transaction rolls back. *)
Kill(w) ==
  /\ MayFail /\ pc[w] # "idle"
  /\ NextTarget(w, {})
  /\ UNCHANGED <<file, row, started, reader>>

(* db prune: the rows of all sessions that started before a cutoff. *)
Prune ==
  \E old \in {Session, Session \ Recent} :
    /\ \E s \in old : row[s] # NoRow
    /\ row' = [s \in Session |-> IF s \in old THEN NoRow ELSE row[s]]
    /\ unstored' = unstored \cup old
    /\ UNCHANGED <<file, writers, step, seen, warned, todo, got, shown, failed, rowSeen>>

-----------------------------------------------------------------------------
(* The reader over DualPathDataSource *)

(* AdapterDataSource::discover lists by modification time: a session that  *)
(* started before the window is listed if its file has changed since.      *)
ScanFiles ==
  /\ step = "scan"
  /\ seen' = [s \in Session |-> IF s \in Recent \/ file[s] > 1 THEN file[s] ELSE 0]
  /\ unstored' = {s \in Session : row[s] = NoRow}
  /\ step' = "merge"
  /\ UNCHANGED <<file, row, writers, warned, todo, got, shown, failed, rowSeen>>

Stored == {s \in Recent : row[s] # NoRow}
Seen == {s \in Session : seen[s] # 0}

WrongDiffers(s) == row[s].mtime > seen[s]
(* diff_fields, where both sides know the modification time. *)
Differs(s) == row[s].mtime # seen[s]

(* query_sessions_since lists by start time; merge_refs. *)
ScanRows ==
  /\ step = "merge"
  /\ rowSeen' = row
  /\ warned' = {s \in Seen \cap Stored : Differs(s)}
  /\ todo' = Seen \cup Stored
  /\ step' = "report"
  /\ UNCHANGED <<file, row, writers, seen, got, shown, failed, unstored>>

WrongReportFromStore ==
  /\ step = "report" /\ todo # {}
  /\ \E s \in todo :
       /\ todo' = todo \ {s}
       /\ got' = [sid |-> s, report |-> IF row[s] = NoRow THEN 0 ELSE row[s].report, row |-> row[s]]
       /\ step' = IF row[s] = NoRow THEN "report" ELSE "episodes"
       /\ failed' = IF row[s] = NoRow THEN failed \cup {s} ELSE failed
  /\ UNCHANGED <<file, row, writers, seen, warned, shown, rowSeen, unstored>>

(* load_session asks the store first, also for a session whose ref came    *)
(* from the adapter.                                                       *)
ReportFromStore ==
  /\ step = "report"
  /\ \E s \in todo :
       /\ todo' = todo \ {s}
       /\ \/ /\ row[s] # NoRow
             /\ got' = [sid |-> s, report |-> row[s].report, row |-> row[s]]
             /\ step' = "episodes"
          \/ /\ row[s] = NoRow
             /\ got' = [Nothing EXCEPT !.sid = s]
             /\ step' = "report_file"
  /\ UNCHANGED <<file, row, writers, seen, warned, shown, failed, rowSeen, unstored>>

GiveUp == failed' = failed \cup {got.sid} /\ got' = Nothing /\ step' = "report" /\ UNCHANGED shown

ReportFromFile ==
  /\ step = "report_file"
  /\ \/ /\ file[got.sid] # 0
        /\ got' = [got EXCEPT !.report = file[got.sid]]
        /\ step' = "episodes"
        /\ UNCHANGED <<shown, failed>>
     \/ file[got.sid] = 0 /\ GiveUp
  /\ UNCHANGED <<file, row, writers, seen, warned, todo, rowSeen, unstored>>

Show(episodes) ==
  /\ shown' = shown \cup {[sid |-> got.sid, report |-> got.report, row |-> got.row, episodes |-> episodes]}
  /\ got' = Nothing
  /\ step' = "report"
  /\ UNCHANGED failed

(* load_episodes, the same way *)
EpisodesFromStore ==
  /\ step = "episodes"
  /\ \/ row[got.sid] # NoRow /\ Show(row[got.sid].episodes)
     \/ row[got.sid] = NoRow /\ step' = "episodes_file" /\ UNCHANGED <<got, shown, failed>>
  /\ UNCHANGED <<file, row, writers, seen, warned, todo, rowSeen, unstored>>

EpisodesFromFile ==
  /\ step = "episodes_file"
  /\ \/ file[got.sid] # 0 /\ Show(file[got.sid])
     \/ file[got.sid] = 0 /\ GiveUp
  /\ UNCHANGED <<file, row, writers, seen, warned, todo, rowSeen, unstored>>

-----------------------------------------------------------------------------
Write(w) == \/ \E cmd \in Commands, s \in Session : StartSingle(w, cmd, s)
            \/ \E targets \in SUBSET Session : StartIngest(w, targets)
            \/ LoadReport(w) \/ LoadEpisodes(w) \/ Stat(w) \/ Commit(w) \/ WriteEpisodes(w) \/ Kill(w)

Read == ScanFiles \/ ScanRows \/ ReportFromStore \/ ReportFromFile \/ EpisodesFromStore \/ EpisodesFromFile

Next == (\E s \in Session : Append(s) \/ Rotate(s)) \/ (\E w \in Writer : Write(w)) \/ Prune \/ Read

Spec == Init /\ [][Next]_vars

-----------------------------------------------------------------------------
(* Every variable keeps its type, for rows in particular: a modification  *)
(* time that cannot be read is stored as 0.                                *)
TypeOK ==
  /\ file \in [Session -> Version]
  /\ row \in [Session -> Row \cup {NoRow}]
  /\ pc \in [Writer -> {"idle", "load", "reload", "stat", "commit", "episodes"}]
  /\ job \in [Writer -> Job]
  /\ started \in 0..MaxCommands
  /\ step \in {"scan", "merge", "report", "report_file", "episodes", "episodes_file"}
  /\ seen \in [Session -> Version]
  /\ got \in Got
  /\ (step # "scan" /\ step # "merge" /\ step # "report") => got.sid \in Session
  /\ rowSeen \in [Session -> Row \cup {NoRow}]
  /\ warned \subseteq Session /\ todo \subseteq Session /\ failed \subseteq Session
  /\ unstored \subseteq Session

(* Whatever the processes do to each other, a row holds a report that was  *)
(* derived from a file, and the modification time stored with it is not    *)
(* older than what the report was derived from: a prune between the two    *)
(* statements of a writer leaves no row with episodes alone.               *)
RowsAreWhole ==
  \A s \in Session : row[s] # NoRow =>
    /\ row[s].report # 0
    /\ row[s].mtime = 0 \/ row[s].mtime >= row[s].report

(* The reader gives up on a session only if the session was out of the     *)
(* store and its file was gone while it read.                              *)
FailureOnlyIfGone == \A s \in failed : s \in unstored /\ file[s] = 0

(* A report that is older than the file the reader listed is announced by  *)
(* a warning, unless the store does not list the session, its row changed  *)
(* after it was listed, or the file had grown under the row's writer.      *)
StaleIsWarned ==
  \A r \in shown : r.report < seen[r.sid] =>
    \/ r.sid \in warned
    \/ r.sid \notin Recent
    \/ rowSeen[r.sid] # r.row
    \/ r.row.mtime # r.row.report

(* Every session that is listed is shown or counted as a failure, once,    *)
(* and only listed ones are.                                               *)
AllAreAccountedFor ==
  LET loaded == {r.sid : r \in shown} IN
  /\ \A r, q \in shown : r.sid = q.sid => r = q
  /\ loaded \cap failed = {} /\ (loaded \cup failed) \cap todo = {}
  /\ step # "scan" /\ step # "merge" =>
       loaded \cup failed \cup todo \cup ({got.sid} \ {NoSession}) = Seen \cup {s \in Recent : rowSeen[s] # NoRow}

(* A reader never loses a session of its listing: it shows it once, or     *)
(* counts it as failed, and fails only on one that is gone everywhere.     *)
EverySessionIsAccountedFor == FailureOnlyIfGone /\ AllAreAccountedFor
=============================================================================
