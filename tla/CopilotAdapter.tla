---------------------------- MODULE CopilotAdapter ----------------------------
(***************************************************************************)
(* The Copilot adapter reading session directories while Copilot CLI       *)
(* writes them (agentprof-adapters: copilot/paths.rs, copilot/adapter.rs,  *)
(* datasource.rs).  Discovery walks the directories one by one and notes   *)
(* of each a file, an id and whether a lock is there; the file is parsed   *)
(* later, with what discovery noted.  Between any two of these steps a     *)
(* writer may append a line or a part of one, close, crash or resume.      *)
(*                                                                         *)
(* The writer is Copilot CLI, known only by the files it leaves (event.rs  *)
(* and parser.rs say which): it appends, a write may be seen half done,    *)
(* the lock is there while it runs and stays behind when it crashes.  A    *)
(* resumed writer appends where the file ends, on the torn line if a crash *)
(* left one.  The scan of one directory is one step: what it reads there   *)
(* changes once (the first line is completed) or is read again (the lock). *)
(***************************************************************************)
EXTENDS Naturals, Sequences, FiniteSets, SequencesExt

CONSTANTS
  None,         \* an absent value
  McpTool,      \* the announced names that start with mcp__
  Dir,          \* session directories
  Session,      \* session ids; a copied directory holds a session again
  Line,         \* the lines a writer may append, but for their time
  Cut,          \* where a write may be torn: inside, in a character, before the newline
  Since,        \* the --since window
  MaxTime, MaxLines, MaxReads   \* bounds: clock, lines of a file, discoveries

ASSUME AdapterAssumption ==
  /\ Cut \subseteq {"inside", "character", "newline"}
  /\ {Since, MaxTime, MaxLines, MaxReads} \subseteq Nat
  /\ None \notin Session

(* The writer says which session it is in the first line only.             *)
ASSUME LineAssumption ==
  Line \subseteq [text : {"event", "blank", "malformed", "undecodable"}, open : BOOLEAN,
                 type : STRING \ {"SessionStart"}, lacks : SUBSET STRING, announces : SUBSET STRING]

-----------------------------------------------------------------------------
(* The wire format of events.jsonl and how parser.rs and event.rs read it:  *)
(* one line is one event, and what the reader makes of a file is a function *)
(* of its lines and of whether a lock was seen beside it.                   *)
(*                                                                          *)
(* A line is a record.  text: an event, a blank line, JSON that is no event *)
(* ("malformed"; open says whether a brace or a string is left open) or     *)
(* bytes that are not UTF-8 ("undecodable").  Of an event: its type, the    *)
(* fields it lacks, when it happened, the session it names, the tools its   *)
(* tools_changed notices announce.                                          *)

Epoch == 0

(* The variants serde names, and what each payload cannot do without: every *)
(* other field is an Option or has a default.                              *)
SessionPayloads ==
  [SessionStart |-> {"sessionId", "version", "producer", "copilotVersion", "startTime",
                     "context", "cwd", "alreadyInUse"},
   SessionInfo  |-> {"infoType", "message"},
   ModeChanged  |-> {"previousMode", "newMode"},
   ModelChange  |-> {"newModel"},
   PlanChanged  |-> {"operation"},
   Shutdown     |-> {"shutdownType", "codeChanges"}]
MessagePayloads ==
  [UserMessage      |-> {"content", "interactionId"},
   TurnStart        |-> {"turnId"},
   TurnEnd          |-> {"turnId"},
   AssistantMessage |-> {"messageId", "model", "content", "interactionId", "outputTokens"},
   SystemMessage    |-> {"role", "content"}]
ToolPayloads ==
  [ToolExecStart     |-> {"toolCallId", "toolName", "arguments"},
   ToolExecComplete  |-> {"toolCallId", "success"},
   ToolUserRequested |-> {"toolCallId", "toolName", "arguments", "command", "description"}]
HookPayloads ==
  [HookStart    |-> {"hookInvocationId", "hookType", "input", "sessionId", "timestamp", "cwd"},
   HookEnd      |-> {"hookInvocationId", "hookType", "success"},
   SkillInvoked |-> {"name", "path", "content", "source", "description", "trigger"},
   Abort        |-> {"reason"}]
LifecyclePayloads ==
  [SessionWarning |-> {}, SessionResume |-> {},
   SessionCompactionStart |-> {}, SessionCompactionComplete |-> {},
   SystemNotification |-> {"content", "kind"}]
DelegationPayloads ==
  [PermissionRequested |-> {}, PermissionCompleted |-> {"result", "kind"},
   SubagentStarted |-> {}, SubagentCompleted |-> {}, SubagentFailed |-> {"error"}]

Payloads == SessionPayloads @@ MessagePayloads @@ ToolPayloads @@ HookPayloads
              @@ LifecyclePayloads @@ DelegationPayloads
Envelope == {"id", "timestamp", "data"}
Known == DOMAIN Payloads

-----------------------------------------------------------------------------
(* Definitions named Wrong... are plausible mistakes in the definition they *)
(* precede; nothing but a mutation run uses them.                          *)

(* serde_json::from_str::<CopilotEvent>: a type no variant carries is        *)
(* Unknown whatever it lacks, and a known one must have what it requires.   *)
Deserializes(line) ==
  /\ line.text = "event"
  /\ line.type \in Known => (Payloads[line.type] \cup Envelope) \cap line.lacks = {}

(* Unknown keeps nothing of its envelope: its timestamp is the epoch. *)
Kind(line) == IF line.type \in Known THEN line.type ELSE "Unknown"
Timestamp(line) == IF line.type \in Known THEN line.at ELSE Epoch

(* extract_loaded_set_from_event: user messages only, MCP names only. *)
Announced(line) == IF line.type = "UserMessage" THEN line.announces \cap McpTool ELSE {}

Event(line) == [kind |-> Kind(line), at |-> Timestamp(line), loaded |-> Announced(line)]

(* looks_like_incomplete_json, of a line that is no event. *)
LooksIncomplete(line) == line.text = "malformed" /\ line.open

-----------------------------------------------------------------------------
(* parse_events_jsonl over the lines of a file, the unterminated one last.  *)

WrongSkipped(lines, n, live) == live /\ LooksIncomplete(lines[n])
Skipped(lines, n, live) == n = Len(lines) /\ live /\ LooksIncomplete(lines[n])

(* ParseWarning::Io and ParseWarning::Json name the line they are about. *)
Unreadable(lines) == {n \in DOMAIN lines : lines[n].text = "undecodable"}
Rejected(lines, live) ==
  {n \in DOMAIN lines : /\ lines[n].text \notin {"blank", "undecodable"}
                        /\ ~Deserializes(lines[n])
                        /\ ~Skipped(lines, n, live)}

(* The elements at some places of a sequence, in order: SelectSeq, but by   *)
(* places, and defined by a function that a proof can expand.              *)
Picked(s, places) ==
  LET upTo[n \in 0..Len(s)] == IF n = 0 THEN <<>>
                               ELSE IF n \in places THEN Append(upTo[n - 1], s[n]) ELSE upTo[n - 1]
  IN  upTo[Len(s)]

Parsed(lines) == {n \in DOMAIN lines : Deserializes(lines[n])}
EventsOf(lines) == LET parsed == Picked(lines, Parsed(lines))
                   IN  [n \in DOMAIN parsed |-> Event(parsed[n])]

OutOfOrder(events) == \E n \in DOMAIN events : n > 1 /\ events[n].at < events[n - 1].at

(* MetaBuilder: every session.start overwrites what the one before it said. *)
LastStart(lines) ==
  SelectLastInSeq(lines, LAMBDA line : Deserializes(line) /\ line.type = "SessionStart")
Meta(lines, live) ==
  LET n == LastStart(lines)
  IN  IF n = 0 THEN None ELSE [id |-> lines[n].session, started |-> lines[n].at, live |-> live]

RawSession(lines, live) ==
  [meta     |-> Meta(lines, live),
   events   |-> EventsOf(lines),
   rejected |-> Rejected(lines, live),
   unread   |-> Unreadable(lines),
   disorder |-> OutOfOrder(EventsOf(lines)),
   loaded   |-> UNION {Announced(lines[n]) : n \in Parsed(lines)}]

-----------------------------------------------------------------------------
VARIABLES
  files,        \* per directory: lines, tail (an unended line), lock, mtime, writer, session
  clock,
  scan,         \* the discovery in progress, if any: what it found, what is left
  refs,         \* the SessionRefs of the last discovery made for a list of sessions
  load,         \* the load in progress or the last one done
  reads         \* how many discoveries were made (a bound, not state of the program)

vars == <<files, clock, scan, refs, load, reads>>

Idle == "idle"

Init ==
  /\ files = [d \in Dir |-> [lines |-> <<>>, tail |-> None, lock |-> FALSE, mtime |-> 0,
                             writer |-> "none", session |-> None]]
  /\ clock = 1
  /\ scan = [on |-> FALSE, found |-> <<>>, left |-> {}]
  /\ refs = <<>>
  /\ load = [state |-> Idle]
  /\ reads = 0

-----------------------------------------------------------------------------
(* The writer.                                                             *)

Room(d) == Len(files[d].lines) + (IF files[d].tail = None THEN 0 ELSE 1) < MaxLines
WriterOnly == UNCHANGED <<clock, scan, refs, load, reads>>

(* Threads of the writer append in arrival order, so a time may go back. *)
At(line, t, s) ==
  [text |-> line.text, open |-> line.open, type |-> line.type, lacks |-> line.lacks,
   announces |-> line.announces, at |-> t, session |-> s]
StartLine(s) == At([text |-> "event", open |-> FALSE, type |-> "SessionStart", lacks |-> {},
                    announces |-> {}], clock, s)
Times == {t \in {clock, clock - 1} : t > 0}

(* How a reader sees a write that is torn, and a line appended to one. *)
Seen(tail) == CASE tail.cut = "newline"   -> tail.line
                [] tail.cut = "inside"    -> [tail.line EXCEPT !.text = "malformed", !.open = TRUE]
                [] tail.cut = "character" -> [tail.line EXCEPT !.text = "undecodable"]
Glued(tail, open) ==
  CASE tail.cut = "newline"   -> [tail.line EXCEPT !.text = "malformed", !.open = FALSE]
    [] tail.cut = "inside"    -> [tail.line EXCEPT !.text = "malformed", !.open = open]
    [] tail.cut = "character" -> [tail.line EXCEPT !.text = "undecodable"]
LinesOf(d) == files[d].lines \o (IF files[d].tail = None THEN <<>> ELSE <<Seen(files[d].tail)>>)

Write(d, lines, tail) ==
  files' = [files EXCEPT ![d].lines = lines, ![d].tail = tail, ![d].mtime = clock]

AppendLine(d, line) == \/ Write(d, Append(files[d].lines, line), None)
                    \/ \E c \in Cut : Write(d, files[d].lines, [line |-> line, cut |-> c])

OpenSession(d) ==
  /\ files[d].writer = "none"
  /\ \E s \in Session, cut \in Cut \cup {None} :
       /\ \A e \in Dir : files[e].session # s
       /\ files' = [files EXCEPT ![d] =
                      [lines |-> IF cut = None THEN <<StartLine(s)>> ELSE <<>>,
                       tail  |-> IF cut = None THEN None
                                 ELSE [line |-> StartLine(s), cut |-> cut],
                       lock |-> TRUE, mtime |-> clock, writer |-> "live", session |-> s]]
  /\ WriterOnly

(* The user keeps a copy of a session's directory. *)
CopySession(d, e) ==
  /\ files[d].writer = "closed" /\ files[e].writer = "none"
  /\ files' = [files EXCEPT ![e] = [files[d] EXCEPT !.writer = "copied", !.mtime = clock]]
  /\ WriterOnly

WriteLine(d) ==
  /\ files[d].writer = "live" /\ files[d].tail = None /\ Room(d)
  /\ \E line \in Line, t \in Times : AppendLine(d, At(line, t, None))
  /\ WriterOnly

FinishLine(d) ==
  /\ files[d].writer = "live" /\ files[d].tail # None
  /\ Write(d, Append(files[d].lines, files[d].tail.line), None)
  /\ WriterOnly

Close(d) ==
  /\ files[d].writer = "live" /\ files[d].tail = None
  /\ files' = [files EXCEPT ![d].writer = "closed", ![d].lock = FALSE]
  /\ WriterOnly

Crash(d) ==
  /\ files[d].writer = "live"
  /\ files' = [files EXCEPT ![d].writer = "crashed"]
  /\ WriterOnly

(* The first write after a crash lands on the torn line, if there is one. *)
Resume(d) ==
  /\ files[d].writer \in {"closed", "crashed"}
  /\ \E open \in BOOLEAN :
       files' = [files EXCEPT ![d].writer = "live", ![d].lock = TRUE, ![d].tail = None,
                              ![d].lines = IF files[d].tail = None THEN @
                                           ELSE Append(@, Glued(files[d].tail, open)),
                              ![d].mtime = IF files[d].tail = None THEN @ ELSE clock]
  /\ WriterOnly

(* The user deletes a session that has ended. *)
DeleteSession(d) ==
  /\ files[d].writer \in {"closed", "crashed", "copied"}
  /\ files' = [files EXCEPT ![d].lines = <<>>, ![d].tail = None, ![d].lock = FALSE,
                            ![d].mtime = 0, ![d].writer = "gone"]
  /\ WriterOnly

Tick == clock < MaxTime /\ clock' = clock + 1 /\ UNCHANGED <<files, scan, refs, load, reads>>
WriterStep(d) ==
  \/ OpenSession(d) \/ WriteLine(d) \/ FinishLine(d)
  \/ Close(d) \/ Crash(d) \/ Resume(d)
  \/ (\E e \in Dir : CopySession(d, e)) \/ DeleteSession(d)

-----------------------------------------------------------------------------
(* The reader.                                                             *)

There(d) == files[d].writer \notin {"none", "gone"}

(* extract_session_id_from_first_event: the line need not end yet. *)
FirstSession(d) == LET lines == LinesOf(d)
                   IN  IF lines # <<>> /\ lines[1].text = "event" THEN lines[1].session ELSE None
FirstTime(d) == LET lines == LinesOf(d)
                IN  IF lines # <<>> /\ lines[1].text = "event" THEN lines[1].at ELSE None

(* A session that does not name itself yet goes by its directory's name. *)
(* (named, for the properties: its first line had its newline.)            *)
SessionRef(d) == [id    |-> IF FirstSession(d) = None THEN d ELSE FirstSession(d),
                  dir   |-> d, mtime |-> files[d].mtime, live |-> files[d].lock,
                  named |-> files[d].lines # <<>>]

(* discover_sessions sorts by mtime, newest first, and keeps ties in order. *)
(* Wrong... is a plausible mistake in the definition after it, for mutants.  *)
WrongInserted(found, ref) == Append(found, ref)
Inserted(found, ref) ==
  LET older == SelectInSeq(found, LAMBDA r : r.mtime < ref.mtime)
  IN  IF older = 0 THEN Append(found, ref) ELSE InsertAt(found, older, ref)

Ready == ~scan.on /\ load.state \in {Idle, "done"} /\ reads < MaxReads

(* discover, load_session and load_episodes begin with a walk over the       *)
(* directories; which of them it is shows when the walk has ended.         *)
Discover ==
  /\ Ready /\ reads' = reads + 1
  /\ scan' = [on |-> TRUE, found |-> <<>>, left |-> Dir]
  /\ load' = [state |-> Idle]
  /\ UNCHANGED <<files, clock, refs>>

ScanDir(d) ==
  /\ scan.on /\ d \in scan.left
  /\ scan' = [scan EXCEPT !.left = @ \ {d},
                          !.found = IF There(d) THEN Inserted(@, SessionRef(d)) ELSE @]
  /\ UNCHANGED <<files, clock, refs, load, reads>>

Walked == scan.on /\ scan.left = {}
EndWalk == scan' = [on |-> FALSE, found |-> <<>>, left |-> {}]

(* discover: what was written within the window, with the start time the    *)
(* first line gives now.                                                   *)
Recent(ref) == clock < Since \/ ref.mtime >= clock - Since
ListSessions ==
  /\ Walked /\ EndWalk
  /\ LET recent == Picked(scan.found, {n \in DOMAIN scan.found : Recent(scan.found[n])})
         listed(r) == [id |-> r.id, dir |-> r.dir, mtime |-> r.mtime, live |-> r.live,
                       named |-> r.named, started |-> FirstTime(r.dir)]
     IN  refs' = [n \in DOMAIN recent |-> listed(recent[n])]
  /\ UNCHANGED <<files, clock, load, reads>>

(* load_session, load_episodes: the first ref that has the id. *)
FirstWith(found, id) == SelectInSeq(found, LAMBDA r : r.id = id)
FindSession(id) ==
  /\ Walked /\ EndWalk
  /\ LET first == FirstWith(scan.found, id)
     IN  load' = IF first = 0 THEN [state |-> "done", outcome |-> "NotFound"]
                 ELSE [state |-> "found", ref |-> scan.found[first], asked |-> id]
  /\ UNCHANGED <<files, clock, refs, reads>>

(* load_session_by_ref, load_episodes_by_ref: a ref of an earlier discovery. *)
LoadByRef ==
  /\ ~scan.on /\ load.state \in {Idle, "done"}
  /\ \E n \in DOMAIN refs :
       load' = [state |-> "found", ref |-> refs[n], asked |-> refs[n].id]
  /\ UNCHANGED <<files, clock, scan, refs, reads>>

(* parse_events_jsonl on the file as it is now, live as it was when found. *)
Raw == RawSession(LinesOf(load.ref.dir), load.ref.live)
Outcome == IF ~There(load.ref.dir) THEN "Io"
           ELSE IF Raw.meta = None THEN "MissingSessionStart" ELSE "Ok"
Parse ==
  /\ load.state = "found"
  /\ load' = [state |-> "done", outcome |-> Outcome]
  /\ UNCHANGED <<files, clock, scan, refs, reads>>

ReaderStep ==
  \/ Discover \/ (\E d \in Dir : ScanDir(d)) \/ ListSessions
  \/ (\E id \in Session \cup Dir : FindSession(id)) \/ LoadByRef \/ Parse

Next == (\E d \in Dir : WriterStep(d)) \/ Tick \/ ReaderStep
Spec == Init /\ [][Next]_vars

-----------------------------------------------------------------------------
(* Properties.                                                             *)

(* A load about to read its file, and what it is going to report.           *)
Loading == load.state = "found" /\ Outcome = "Ok"
File == files[load.ref.dir]
Lines == LinesOf(load.ref.dir)
WellFormed(line) == line.text = "blank" \/ Deserializes(line)

(* TypeOK: what discovery and a load leave behind. *)
TypeOK ==
  /\ scan.on \in BOOLEAN /\ scan.left \subseteq Dir
  /\ \A n \in DOMAIN scan.found : scan.found[n].dir \in Dir \ scan.left
  /\ \A n \in DOMAIN refs : refs[n].started \in {None} \cup 1..clock
  /\ load.state \in {Idle, "found", "done"}
  /\ load.state = "done" => load.outcome \in {"Ok", "Io", "NotFound", "MissingSessionStart"}
  /\ \A d \in Dir : files[d].writer = "closed" => ~files[d].lock /\ files[d].tail = None

(* A line being written while it is read costs no warning when the lock was *)
(* seen, whatever the writer has done between discovery and the load.       *)
(* A write torn inside a character is the exception: such a line cannot be  *)
(* read at all, and parse_events_jsonl warns before it asks whether the     *)
(* session is live.                                                         *)
TornTailIsSilent ==
  LET sound == /\ \A n \in DOMAIN File.lines : WellFormed(File.lines[n])
               /\ File.tail = None \/ WellFormed(File.tail.line)
  IN  Loading /\ load.ref.live /\ sound
        => Raw.rejected = {} /\ (Raw.unread # {} => File.tail.cut = "character")

(* Every line becomes an event, a blank or a warning that names it.  Only   *)
(* the last line may leave no trace, and only when a lock was seen.         *)
NothingIsLostSilently ==
  Loading =>
    LET blank  == {n \in DOMAIN Lines : Lines[n].text = "blank"}
        traced == Len(Raw.events) + Cardinality(Raw.rejected)
                    + Cardinality(Raw.unread) + Cardinality(blank)
    IN  \/ traced = Len(Lines)
        \/ /\ traced = Len(Lines) - 1 /\ load.ref.live
           /\ Len(Lines) \notin Raw.rejected \cup Raw.unread \cup blank

(* The events of a file only grow: what a load gives for the lines that     *)
(* have ended, every later load gives again, at the same places, even when  *)
(* the threads of the writer append out of order or a crash tears a line.   *)
ReloadKeeps ==
  [][\A d \in Dir : There(d) /\ There(d)'
       => IsPrefix(EventsOf(files[d].lines), EventsOf(files'[d].lines))]_vars

(* The session that is loaded is the one that was asked for, and it started *)
(* when the list said, if its first line had ended when it was discovered.  *)
LoadedIsWhatWasAsked ==
  Loading /\ load.ref.named =>
    /\ Raw.meta.id = load.asked
    /\ "started" \in DOMAIN load.ref => Raw.meta.started = load.ref.started

(* Of two directories that hold the session, the one written last is read.  *)
NewestCopyIsRead ==
  [][\A id \in Session : FindSession(id) /\ load'.state = "found"
       => \A n \in DOMAIN scan.found :
            scan.found[n].id = id => scan.found[n].mtime <= load'.ref.mtime]_vars

(* A reader that races with the writer of the session loads the session it *)
(* asked for, with every line that has ended or a warning about it, and no *)
(* warning about the line that is being written.                           *)
NothingIsLost == TypeOK /\ TornTailIsSilent /\ NothingIsLostSilently /\ LoadedIsWhatWasAsked

(* Loads that follow each other agree: events are only added, and a copy   *)
(* of the session never takes the place of a newer one.                    *)
ReloadsAgree == ReloadKeeps /\ NewestCopyIsRead
=============================================================================
