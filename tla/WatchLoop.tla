----------------------------- MODULE WatchLoop -----------------------------
(***************************************************************************)
(* `agentprof watch` and `watch aggregate` (cli/cmd/watch.rs,              *)
(* tui/watch.rs, tui/app/terminal.rs, cli/observability/tui_guard.rs).     *)
(*                                                                         *)
(* Three actors: the agent, which writes its session file; the debouncer   *)
(* thread, which turns changes into messages on a channel; and the         *)
(* interface thread, which loads the file, starts the watcher, takes over  *)
(* the terminal and then draws, drains the channel, reloads and handles    *)
(* keys until it quits or fails.                                           *)
(*                                                                         *)
(* A file state is [kind, data]: "data" loads as that report, "broken" is  *)
(* there and does not load, "gone" is not there.  Reports are those of     *)
(* TuiKeys, with the number of rows of the aggregate table (buckets).      *)
(***************************************************************************)
EXTENDS TuiKeys, FiniteSets

CONSTANTS FileStates,  \* what the watched file (or directory) may hold
          MaxWrites    \* bound: changes of the file in a behaviour

ASSUME WatchAssumption ==
    /\ MaxWrites \in Nat
    /\ \A f \in FileStates : IsReport(f.data) /\ f.data.buckets \in Nat

VARIABLES
    single,    \* WatchData::Single, or ::Cross
    file,      \* what the file holds now
    writes,    \* how often it changed: its version
    pending,   \* debouncer: a change it has not reported yet
    lost,      \* history: it reported an error, which is only logged
    watching,  \* the watcher exists
    queue,     \* messages in the channel
    typed,     \* a key waits to be read
    pc,        \* interface thread
    data,      \* WatchRunner.data
    view,      \* WatchViewState
    err,       \* last_error: "none", "reload" or "turn"
    shown,     \* history: version of data
    tried,     \* history: version of the last load, successful or not
    term       \* raw mode, alternate screen, log target, path printed on exit
file_vars == <<file, writes, pending, lost>>
ui_vars   == <<data, view, err, shown, tried>>
vars == <<single, file, writes, pending, lost, watching, queue, typed, pc,
          data, view, err, shown, tried, term>>

NoData      == [turns |-> << >>, work |-> 0, blocking |-> 0, models |-> 0, servers |-> 0,
                buckets |-> 0]
PlainScreen == [raw |-> FALSE, alt |-> FALSE, log |-> "stderr", path |-> FALSE,
                printed |-> FALSE]

\* WatchViewState::default
DefaultView == [sort |-> "t", sel |-> 0, help |-> FALSE, gg |-> FALSE, detail |-> << >>,
                models |-> 0, view |-> "Aggregate"]

Init == /\ single \in BOOLEAN
        /\ file \in {f \in FileStates : f.kind # "gone"}
        /\ writes = 0 /\ pending = FALSE /\ lost = FALSE
        /\ watching = FALSE /\ queue = 0 /\ typed = FALSE
        /\ pc = "load"
        /\ data = NoData /\ view = DefaultView /\ err = "none" /\ shown = 0 /\ tried = 0
        /\ term = PlainScreen

-----------------------------------------------------------------------------
\* The agent appends to the file, replaces or removes it; the kernel tells the
\* watcher, if there is one.
FileChanges == /\ writes < MaxWrites /\ pc # "done"
               /\ file' \in FileStates
               /\ writes' = writes + 1
               /\ pending' = (pending \/ watching)
               /\ UNCHANGED <<single, lost, watching, queue, typed, pc, ui_vars, term>>

\* The debouncer's callback: a batch of events is one message.
Debounced == /\ pending
             /\ pending' = FALSE
             /\ queue' = queue + 1
             /\ UNCHANGED <<single, file, writes, lost, watching, typed, pc, ui_vars, term>>
DebounceError == /\ pending
                 /\ pending' = FALSE /\ lost' = TRUE
                 /\ UNCHANGED <<single, file, writes, watching, queue, typed, pc, ui_vars,
                                term>>

UserTypes == /\ pc \in {"draw", "drain", "reload", "poll"} /\ ~typed
             /\ typed' = TRUE
             /\ UNCHANGED <<single, file_vars, watching, queue, pc, ui_vars, term>>

-----------------------------------------------------------------------------
\* Starting: load, spawn_watcher, enter_and_run.
InitialLoad ==
    /\ pc = "load"
    /\ IF file.kind = "data"
       THEN /\ data' = file.data /\ shown' = writes /\ tried' = writes
            /\ pc' = "spawn"
       ELSE pc' = "done" /\ UNCHANGED <<data, shown, tried>>
    /\ UNCHANGED <<single, file_vars, watching, queue, typed, view, err, term>>

\* new_debouncer or watch() may fail: the file may just have been removed.
SpawnWatcher == /\ pc = "spawn"
                /\ \/ watching' = TRUE /\ pc' = "guard"
                   \/ watching' = FALSE /\ pc' = "done"
                /\ UNCHANGED <<single, file_vars, queue, typed, ui_vars, term>>

\* Logs leave stderr for a file: named by the user, or opened now; or they stay,
\* because the user asked for it or the file cannot be opened.
EnterTuiLogGuard ==
    /\ pc = "guard"
    /\ pc' = "enter"
    /\ \/ term' = [term EXCEPT !.log = "file", !.path = TRUE]
       \/ UNCHANGED term
    /\ UNCHANGED <<single, file_vars, watching, queue, typed, ui_vars>>

\* terminal::enter: not a terminal, no raw mode, no alternate screen, no Terminal.
WrongEnter == /\ pc = "enter"
              /\ \/ /\ term' = [term EXCEPT !.raw = TRUE, !.alt = TRUE]
                    /\ pc' \in {"draw", "drop"}
                 \/ pc' = "drop" /\ UNCHANGED term
              /\ UNCHANGED <<single, file_vars, watching, queue, typed, ui_vars>>
Enter == /\ pc = "enter"
         /\ \/ /\ term' = [term EXCEPT !.raw = TRUE, !.alt = TRUE]
               /\ pc' = "draw"
            \/ \* each failing step undoes the ones before it
               pc' = "drop" /\ UNCHANGED term
         /\ UNCHANGED <<single, file_vars, watching, queue, typed, ui_vars>>

-----------------------------------------------------------------------------
\* render_into, on a terminal of so many rows and with so many open calls: what
\* the body shows, and what the bottom row does, which is the body's if it is the
\* only one.  An aggregate has no open calls, no help and no placeholder.
Footer(height, open) ==
    IF height <= 1 THEN << >>
    ELSE IF err # "none" THEN <<err>>
    ELSE IF single /\ open > 0 THEN <<"pending">>
    ELSE <<"blank">>
Body == IF ~single THEN "buckets"
        ELSE IF view.detail # << >> THEN "detail"
        ELSE IF view.view = "McpWaste" THEN "not available"
        ELSE view.view
Frame(height, open) == [body |-> Body, help |-> single /\ view.help, footer |-> Footer(height, open)]

\* WatchRunner::run.
Draw == /\ pc = "draw"
        /\ pc' \in {"drain", "leave"}
        /\ UNCHANGED <<single, file_vars, watching, queue, typed, ui_vars, term>>

WrongDrainPriority ==
    /\ pc = "drain"
    /\ queue' = 0
    /\ pc' = IF queue > 0 /\ ~typed THEN "reload" ELSE "poll"
    /\ UNCHANGED <<single, file_vars, watching, typed, ui_vars, term>>
Drain == /\ pc = "drain"
         /\ queue' = 0
         /\ pc' = IF queue > 0 THEN "reload" ELSE "poll"
         /\ UNCHANGED <<single, file_vars, watching, typed, ui_vars, term>>

\* do_reload.  A detail view whose turn is gone is closed with a banner; the
\* aggregate has no detail view.
WrongReload ==
    /\ pc = "reload"
    /\ pc' = "draw"
    /\ tried' = writes
    /\ IF file.kind = "data"
       THEN /\ data' = file.data /\ shown' = writes
            /\ err' = "none" /\ UNCHANGED view
       ELSE err' = "none" /\ UNCHANGED <<data, view, shown>>
    /\ UNCHANGED <<single, file_vars, watching, queue, typed, term>>
Reload ==
    /\ pc = "reload"
    /\ pc' = "draw"
    /\ tried' = writes
    /\ IF file.kind = "data"
       THEN /\ data' = file.data /\ shown' = writes
            /\ IF view.detail # << >> /\ ~(single /\ Has(file.data, view.detail[1].turn))
               THEN /\ view' = [view EXCEPT !.detail = << >>]
                    /\ err' = IF single THEN "turn" ELSE "none"
               ELSE err' = "none" /\ UNCHANGED view
       ELSE err' = "reload" /\ UNCHANGED <<data, view, shown>>
    /\ UNCHANGED <<single, file_vars, watching, queue, typed, term>>

\* poll: nothing for 250 ms, an event that is no key, or an error.
Idle == /\ pc = "poll" /\ ~typed
        /\ pc' = "draw"
        /\ UNCHANGED <<single, file_vars, watching, queue, typed, ui_vars, term>>
PollFails == /\ pc = "poll"
             /\ pc' = "leave"
             /\ UNCHANGED <<single, file_vars, watching, queue, typed, ui_vars, term>>

\* The AppState rebuilt for one key, and the four fields copied back from it.
Transient == [NewState EXCEPT !.help = view.help, !.detail = view.detail,
                              !.sel["Models"] = view.models, !.view = view.view]
CopiedBack(st) == [view EXCEPT !.help = st.help, !.detail = st.detail,
                               !.models = st.sel["Models"], !.view = st.view]

\* handle_watch_key keeps ? for itself; every other key of a single session goes
\* to dispatch.
SingleKey(k) ==
    IF k = "?" THEN view' = [view EXCEPT !.help = ~@, !.gg = FALSE] /\ pc' = "draw"
    ELSE IF Quits(Transient, k) THEN pc' = "leave" /\ UNCHANGED view
    ELSE view' = CopiedBack(Dispatch(data, Transient, k)) /\ pc' = "draw"

\* The aggregate table matches on the key code first: Ctrl-C is its sort key c.
CrossKey(k) ==
    LET plain == [view EXCEPT !.gg = FALSE]
    IN  /\ view' =
             CASE k = "?"         -> view
               [] k = "G"         -> [plain EXCEPT !.sel = SaturatingSub(data.buckets, 1)]
               [] k = "g"         -> [view EXCEPT !.gg = ~@, !.sel = IF view.gg THEN 0 ELSE @]
               [] k \in SortKeys  -> [plain EXCEPT !.sort = k]
               [] k = "CtrlC"     -> [plain EXCEPT !.sort = "c"]
               [] k = "Up"        -> [plain EXCEPT !.sel = SaturatingSub(@, 1)]
               [] k = "Down"      -> [plain EXCEPT !.sel = IF @ + 1 < data.buckets
                                                           THEN @ + 1 ELSE @]
               [] OTHER           -> plain
        /\ pc' = IF k = "q" THEN "leave" ELSE "draw"

HandleKey(k) == /\ pc = "poll" /\ typed
                /\ typed' = FALSE
                /\ \/ single /\ SingleKey(k)
                   \/ ~single /\ CrossKey(k)
                /\ UNCHANGED <<single, file_vars, watching, queue, data, err, shown, tried,
                               term>>

-----------------------------------------------------------------------------
\* A panic of the interface thread: the hook restores the terminal before the
\* stack unwinds past the log guard.
Panic == /\ pc \in {"draw", "reload", "poll"}
         /\ term' = [term EXCEPT !.raw = FALSE, !.alt = FALSE]
         /\ pc' = "drop"
         /\ UNCHANGED <<single, file_vars, watching, queue, typed, ui_vars>>

\* terminal::leave, then the log guard tells where the log is, then the watcher
\* is dropped with run_single.
Leave == /\ pc = "leave"
         /\ term' = [term EXCEPT !.raw = FALSE, !.alt = FALSE]
         /\ pc' = "drop"
         /\ UNCHANGED <<single, file_vars, watching, queue, typed, ui_vars>>
DropGuard == /\ pc = "drop"
             /\ term' = [term EXCEPT !.path = FALSE, !.printed = term.path]
             /\ pc' = "done"
             /\ watching' = FALSE /\ pending' = FALSE
             /\ UNCHANGED <<single, file, writes, lost, queue, typed, ui_vars>>

Notify == Debounced \/ DebounceError
Interface == \/ InitialLoad \/ SpawnWatcher \/ EnterTuiLogGuard \/ Enter
             \/ Draw \/ Drain \/ Reload \/ Idle \/ \E k \in Keys : HandleKey(k)
             \/ PollFails \/ Panic \/ Leave \/ DropGuard
Next == FileChanges \/ Notify \/ UserTypes \/ Interface

\* The debouncer thread and the interface thread keep running.
Fairness == WF_vars(Notify) /\ WF_vars(Interface)
Spec == Init /\ [][Next]_vars /\ Fairness

-----------------------------------------------------------------------------
TypeOK ==
    /\ single \in BOOLEAN /\ file \in FileStates /\ writes \in 0..MaxWrites
    /\ {pending, lost, watching, typed} \subseteq BOOLEAN
    /\ queue \in 0..MaxWrites
    /\ pc \in {"load", "spawn", "guard", "enter", "draw", "drain", "reload", "poll",
               "leave", "drop", "done"}
    /\ data \in {NoData} \cup {f.data : f \in FileStates}
    /\ view.sort \in SortKeys /\ view.view \in Views /\ Len(view.detail) <= 1
    /\ {view.sel, view.models} \subseteq Nat /\ {view.help, view.gg} \subseteq BOOLEAN
    /\ err \in {"none", "reload", "turn"} /\ shown \in 0..writes /\ tried \in shown..writes
    /\ {term.raw, term.alt, term.path, term.printed} \subseteq BOOLEAN
    /\ term.log \in {"stderr", "file"}

\* The detail view that survives a reload shows a turn of the data on the screen,
\* although the file may have been rewritten under it, and an aggregate never
\* shows one (ADR-0011 D-14).
DetailTurnExists ==
    view.detail # << >> => single /\ Has(data, view.detail[1].turn)

\* Data older than what the last reload found is never shown without a banner:
\* a reload that fails keeps the old data and says so, also while calls are open,
\* until one succeeds, if the terminal has a row for it; and what belongs to one
\* session is never shown with an aggregate.
StaleIsAnnounced ==
    pc \in {"draw", "drain", "poll"} =>
        \A height \in 1..2, open \in 0..1 :
            LET f == Frame(height, open) IN
            /\ shown # tried /\ height > 1 => f.footer = <<"reload">>
            /\ f.body = "buckets" => ~f.help /\ f.footer \notin {<<"turn">>, <<"pending">>}

\* Nothing on the screen lies about the session: no view of a turn that is gone, and
\* no data that is known to be old without a banner, whatever the agent does to the
\* file and whichever reloads fail.
ScreenIsTrue == TypeOK /\ DetailTurnExists /\ StaleIsAnnounced

\* Whatever fails or panics, the user's terminal is back in its plain state when
\* the process ends, and the log path was printed onto that screen and not onto
\* the alternate one.
TerminalIsRestored ==
    /\ pc \in {"drop", "done"} => ~term.raw /\ ~term.alt
    /\ term.printed => pc = "done" /\ term.log = "file"

\* A change the watcher saw reaches the screen, unless the debouncer failed or
\* the interface ended: messages are drained before the file is read, so none of
\* a burst is missed.
NoticedChangesAreShown ==
    pending ~> \/ shown = writes \/ err = "reload" \/ lost \/ pc = "done"

\* A key the user typed is read although refreshes go first in every round.
KeysAreRead == typed ~> ~typed \/ pc = "done"

\* Refreshes and keys share one thread, and neither starves the other.
EverythingIsHandled == NoticedChangesAreShown /\ KeysAreRead

=============================================================================
