------------------------------ MODULE Dashboard ------------------------------
(***************************************************************************)
(* `agentprof serve`: the web dashboard over the session store             *)
(* (agentprof-cli, cmd/serve/), from its start to its stop.  One SQLite    *)
(* connection behind a mutex serves all requests; a request that waits for *)
(* it holds a worker thread.  Each SELECT is a step, in no transaction:    *)
(* other processes commit and prune in between.                            *)
(***************************************************************************)
EXTENDS Configuration, StoreSchema, FiniteSets

CONSTANTS
  Session,
  Age,           \* session -> how long ago it started
  ServersOf,     \* session -> the MCP servers whose tools it loaded
  MaxAge,        \* since -> the age up to which it asks, for those that parse
  RenderLimit,   \* SESSIONS_RENDER_LIMIT
  Request,       \* the requests browsers may make
  Asks,          \* request -> what may be asked
  CommandLines,  \* the command lines of serve
  Workers,       \* the runtime's worker threads
  NoRow, NoRequest,
  Rewritten,     \* the sessions that are stored while the server runs
  MaxVersion,    \* bound on the commits of a session's row
  MaxFaults      \* bound on the requests a statement, a page or a handler fails for

ASSUME DashboardAssumption ==
  /\ IsFiniteSet(Session) /\ Rewritten \subseteq Session
  /\ NoRequest \notin Request /\ "serve" \in Opener
  /\ DefaultBind \in Addresses   \* and clap parsed that of the command line
  /\ \A c \in CommandLines : c.bind \in Addresses \cup {None}

VARIABLES
  row,        \* table sessions: the versions of report and episodes; a report
              \* of version 0 is JSON that this release does not parse
  phase, cli, \* how far the server is, and its command line
  settings,   \* ResolvedServeConfig
  exit,       \* its exit code, once stopped
  lock,       \* the request that has the connection
  poisoned,   \* a handler panicked while it had it
  req         \* request -> what it asks, how far it is, what it has read

server == <<phase, cli, settings, exit>>
web == <<lock, poisoned, req>>
dashVars == <<storeVars, configVars, row, server, web>>

Success == 0
UserError == 1
DataError == 2
OutputError == 3
Serve == "serve"

NoAnswer == [status |-> 0, why |-> ""]
Fresh == [ask |-> None, at |-> "none", refs |-> {}, listed |-> {}, cur |-> None, parts |-> {}, failures |-> 0,
          moved |-> {}, faulty |-> FALSE, answer |-> NoAnswer]
          \* moved, faulty (history): the rows that changed while it had the
          \* connection, and whether a statement or the page failed for it

DashInit ==
  /\ StoreInit /\ ConfigInit
  /\ row \in [Session -> {NoRow} \cup
       {r \in [report : 0..1, episodes : 0..1] :
          /\ "tables" \in schema.made
          /\ r.episodes = 1 => r.report = 1 /\ "episodes_json" \in schema.made}]
  /\ phase = "off" /\ cli \in CommandLines /\ settings = None /\ exit = None
  /\ lock = NoRequest /\ poisoned = FALSE
  /\ req = [q \in Request |-> Fresh]

-----------------------------------------------------------------------------
(* The start: run_async up to axum::serve.                                 *)
Ends(code) == phase' = "stopped" /\ exit' = code
Goes(to) == phase' = to /\ UNCHANGED exit

Resolve ==
  /\ phase = "off"
  /\ IF ServeRefuses(cli, ServeSettings) THEN Ends(UserError) /\ UNCHANGED settings
     ELSE settings' = ServeConfig(cli, ServeSettings) /\ Goes("path")
  /\ UNCHANGED <<storeVars, configVars, row, cli, web>>

CheckPath ==
  /\ phase = "path"
  /\ IF cli.storage_path = None \/ ~schema.exists THEN Ends(UserError) ELSE Goes("open")
  /\ UNCHANGED <<storeVars, configVars, row, cli, settings, web>>

OpenDb ==
  /\ phase = "open"
  /\ Open(Serve)
  /\ IF opening'[Serve].at = "failed" THEN Ends(DataError)
     ELSE IF opening'[Serve].at = "open" THEN Goes("bind") ELSE UNCHANGED <<phase, exit>>
  /\ UNCHANGED <<configVars, row, cli, settings, web>>

(* The listener; a browser that does not open changes nothing.             *)
Bind ==
  /\ phase = "bind"
  /\ Goes("serving") \/ Ends(OutputError)
  /\ UNCHANGED <<storeVars, configVars, row, cli, settings, web>>

Started == Resolve \/ CheckPath \/ OpenDb \/ Bind

-----------------------------------------------------------------------------
(* Requests *)
ReadsStore(ask) == ask.kind \in {"sessions", "session", "aggregate", "waste", "server"}

Becomes(q, r) == req' = [req EXCEPT ![q] = r]
Answered(q, r, status, why) ==
  Becomes(q, [Fresh EXCEPT !.ask = r.ask, !.faulty = r.faulty, !.at = "answered",
                           !.answer = [status |-> status, why |-> why]])

(* The guard is kept, or dropped: with an answer, or before the page.      *)
Keep == UNCHANGED <<storeVars, configVars, row, server, lock, poisoned>>
Release == lock' = NoRequest /\ UNCHANGED <<storeVars, configVars, row, server, poisoned>>

(* A browser asks, while the listener is open.                             *)
Arrive(q) ==
  /\ phase = "serving" /\ req[q].at = "none"
  /\ \E ask \in Asks[q] : Becomes(q, [Fresh EXCEPT !.ask = ask, !.at = "accepted"])
  /\ Keep

Faults == Cardinality({q \in Request : req[q].faulty}) < MaxFaults
Busy == {q \in Request : req[q].at \notin {"none", "accepted", "answered", "dropped"}}

(* parse_by and parse_since, before the connection is asked for.           *)
BadRequest(ask) ==
  \/ ask.kind = "aggregate" /\ ask.by \notin {"tool", "model", "day"}
  \/ ask.kind \in {"aggregate", "waste", "server"} /\ ask.since \notin DOMAIN MaxAge

Handle(q) ==
  /\ req[q].at = "accepted" /\ Cardinality(Busy) < Workers
  /\ LET ask == req[q].ask IN
     IF BadRequest(ask) THEN Answered(q, req[q], 400, "ask")
     ELSE IF ReadsStore(ask) THEN Becomes(q, [req[q] EXCEPT !.at = "waiting"])
     ELSE Answered(q, req[q], IF ask.kind = "static" /\ ask.id = None THEN 404 ELSE 200, "asset")
  /\ Keep

WrongAcquire(q) ==
  /\ req[q].at = "waiting" /\ lock = NoRequest
  /\ IF poisoned THEN Becomes(q, [req[q] EXCEPT !.at = "dropped"]) /\ UNCHANGED lock
     ELSE lock' = q /\ Becomes(q, [req[q] EXCEPT !.at = IF req[q].ask.kind = "session" THEN "load" ELSE "list"])
  /\ UNCHANGED <<storeVars, configVars, row, server, poisoned>>
(* lock().unwrap_or_else(PoisonError::into_inner)                          *)
Acquire(q) ==
  /\ req[q].at = "waiting" /\ lock = NoRequest
  /\ lock' = q
  /\ Becomes(q, [req[q] EXCEPT !.at = IF req[q].ask.kind = "session" THEN "load" ELSE "list"])
  /\ UNCHANGED <<storeVars, configVars, row, server, poisoned>>

Stored(s) == s \in Session /\ row[s] # NoRow
Loads(s) == Stored(s) /\ row[s].report # 0

Newest(set, n) == {s \in set : Cardinality({t \in set : Age[t] < Age[s]}) < n}

(* query_sessions_since; the page of the sessions asks for 30 days.        *)
Refs(ask) ==
  LET stored == {s \in Session : Stored(s)} IN
  IF ask.kind = "sessions" THEN Newest({s \in stored : Age[s] <= 30}, RenderLimit)
  ELSE {s \in stored : Age[s] <= MaxAge[ask.since]}

List(q) ==
  /\ req[q].at = "list"
  /\ LET r == req[q]  refs == Refs(r.ask) IN
     \/ Becomes(q, [r EXCEPT !.at = "each", !.refs = refs, !.listed = refs]) /\ Keep
     \/ /\ Faults /\ Release
        /\ IF r.ask.kind = "sessions" THEN Becomes(q, [r EXCEPT !.at = "render", !.faulty = TRUE])
           ELSE Answered(q, [r EXCEPT !.faulty = TRUE], 500, "query")

Read(s) == [sid |-> s, report |-> row[s].report, episodes |-> 0]

(* load_session of the next one.  A row that does not load is left out,    *)
(* and the page of the sessions does not even count it.                    *)
NextRow(q) ==
  /\ req[q].at = "each"
  /\ \E s \in req[q].refs :
       LET r == [req[q] EXCEPT !.refs = @ \ {s}] IN
       \/ /\ Loads(s)
          /\ Becomes(q, IF r.ask.kind = "aggregate" THEN [r EXCEPT !.at = "episodes", !.cur = Read(s)]
                        ELSE [r EXCEPT !.parts = @ \cup {Read(s)}])
       \/ /\ ~Loads(s) \/ Faults
          /\ Becomes(q, [r EXCEPT !.faulty = @ \/ Loads(s),
                                  !.failures = IF r.ask.kind = "sessions" THEN @ ELSE @ + 1])
  /\ Keep

(* strip_suffix: of a chunk's path only.                                   *)
Wanted(ask) == IF ask.ext /\ ~ask.chunk THEN None ELSE ask.id

WrongLoadUnlocks(q) ==
  /\ req[q].at = "load"
  /\ LET r == req[q]  s == Wanted(r.ask) IN
     \/ /\ Loads(s)
        /\ Becomes(q, [r EXCEPT !.at = "episodes", !.cur = Read(s)]) /\ Release
     \/ /\ ~Stored(s)
        /\ Answered(q, r, 404, "") /\ Release
(* load_session_for_dashboard: no row is not an error of the server.       *)
Load(q) ==
  /\ req[q].at = "load"
  /\ LET r == req[q]  s == Wanted(r.ask) IN
     \/ /\ Loads(s)
        /\ Becomes(q, [r EXCEPT !.at = "episodes", !.cur = Read(s)]) /\ Keep
     \/ /\ ~Stored(s)
        /\ Answered(q, r, 404, "") /\ Release
     \/ /\ Stored(s) /\ (~Loads(s) \/ Faults)
        /\ Answered(q, [r EXCEPT !.faulty = Loads(s)], 500, "load_session") /\ Release

(* load_episodes, of a row that may be gone by now.                        *)
Episodes(q) ==
  /\ req[q].at = "episodes"
  /\ LET r == req[q]  s == r.cur.sid  single == r.ask.kind = "session"
         read == {[r.cur EXCEPT !.episodes = row[s].episodes]}
     IN
     \/ /\ row[s] # NoRow
        /\ Becomes(q, [r EXCEPT !.at = IF single THEN "render" ELSE "each", !.parts = @ \cup read])
        /\ IF single THEN Release ELSE Keep
     \/ /\ row[s] = NoRow \/ Faults
        /\ LET worse == [r EXCEPT !.faulty = @ \/ row[s] # NoRow] IN
           IF single THEN Answered(q, worse, 500, "load_episodes") /\ Release
           ELSE Becomes(q, [worse EXCEPT !.at = "each", !.failures = @ + 1]) /\ Keep

(* The end of compute_aggregate_from_store, of its like for waste, and of  *)
(* load_sessions.                                                          *)
Compute(q) ==
  /\ req[q].at = "each" /\ req[q].refs = {}
  /\ LET r == req[q] IN
     IF r.parts = {} /\ r.failures > 0 THEN Answered(q, r, 500, "all failed")
     ELSE Becomes(q, [r EXCEPT !.at = "render"])
  /\ Release

(* render_html and render_html_no_store, after a server's page is found to *)
(* have something to show.                                                 *)
Render(q) ==
  /\ req[q].at = "render"
  /\ LET r == req[q] IN
     IF r.ask.kind = "server" /\ \A p \in r.parts : Wanted(r.ask) \notin ServersOf[p.sid]
     THEN Answered(q, r, 404, "")
     ELSE \/ Answered(q, r, 200, IF r.ask.chunk THEN "no-store" ELSE "")
          \/ Faults /\ Answered(q, [r EXCEPT !.faulty = TRUE], 500, "render")
  /\ Keep

(* A handler that panics drops its guard on the way, and its connection.   *)
HandlerPanics(q) ==
  /\ Faults /\ q \in Busy /\ req[q].at # "waiting"
  /\ Becomes(q, [req[q] EXCEPT !.at = "dropped", !.faulty = TRUE])
  /\ IF lock = q THEN lock' = NoRequest /\ poisoned' = TRUE ELSE UNCHANGED <<lock, poisoned>>
  /\ UNCHANGED <<storeVars, configVars, row, server>>

RequestStep(q) == \/ Handle(q) \/ Acquire(q) \/ List(q) \/ NextRow(q) \/ Load(q)
           \/ Episodes(q) \/ Compute(q) \/ Render(q)

-----------------------------------------------------------------------------
(* wait_for_shutdown: the first signal closes the listener.  Before it is  *)
(* called a signal kills the process.                                      *)
Signal ==
  /\ \/ phase = "serving" /\ phase' = "draining"
     \/ phase \notin {"serving", "draining", "stopped", "killed"} /\ phase' = "killed"
  /\ UNCHANGED <<storeVars, configVars, row, cli, settings, exit, web>>

(* with_graceful_shutdown: what was accepted is answered first.            *)
Stop ==
  /\ phase = "draining"
  /\ \A q \in Request : req[q].at \in {"none", "answered", "dropped"}
  /\ Ends(Success)
  /\ UNCHANGED <<storeVars, configVars, row, cli, settings, web>>

-----------------------------------------------------------------------------
(* The other processes.  They have opened the store before they write; what *)
(* they wrote before the server runs is among the initial states.           *)
Moves(sids) == req' = IF lock = NoRequest THEN req ELSE [req EXCEPT ![lock].moved = @ \cup sids]
Others == UNCHANGED <<storeVars, configVars, server, lock, poisoned>>

(* upsert_report, and with it the default of episodes_json                 *)
CommitReport(s) ==
  /\ schema.version = Latest
  /\ LET v == IF row[s] = NoRow THEN 1 ELSE row[s].report + 1 IN
     v <= MaxVersion /\ row' = [row EXCEPT ![s] = [report |-> v, episodes |-> 0]]
  /\ Moves({s}) /\ Others

(* upsert_episodes                                                         *)
CommitEpisodes(s) ==
  /\ schema.version = Latest /\ row[s] # NoRow /\ row[s].episodes # row[s].report
  /\ row' = [row EXCEPT ![s].episodes = row[s].report]
  /\ Moves({s}) /\ Others

(* prune_before                                                            *)
PruneBefore(s) ==
  /\ schema.version = Latest /\ row[s] # NoRow
  /\ LET old == {t \in Session : Age[t] >= Age[s]} IN
     /\ row' = [t \in Session |-> IF t \in old THEN NoRow ELSE row[t]]
     /\ Moves(old)
  /\ Others

Writers ==
  /\ phase \in {"serving", "draining"}
  /\ (\E s \in Rewritten : CommitReport(s) \/ CommitEpisodes(s)) \/ \E s \in Session : PruneBefore(s)

(* `db init`, and any command that opens the store                         *)
OtherOpens ==
  /\ \E o \in Opener \ {Serve} : Open(o)
  /\ UNCHANGED <<configVars, row, server, web>>

(* `config init`, `config edit` and `config show`, before the server has    *)
(* read the file.                                                          *)
Configure ==
  /\ phase = "off" /\ ConfigNext
  /\ UNCHANGED <<storeVars, row, server, web>>

DashNext ==
  \/ Started \/ Signal \/ Stop
  \/ \E q \in Request : Arrive(q) \/ RequestStep(q) \/ HandlerPanics(q)
  \/ Writers \/ OtherOpens \/ Configure

(* The process runs: its start, and every handler that a worker has or can *)
(* take up.  A request needs its connection once, and browsers, other      *)
(* processes and signals are not hurried.                                  *)
DashSpec ==
  /\ DashInit /\ [][DashNext]_dashVars
  /\ WF_dashVars(Started) /\ WF_dashVars(Stop)
  /\ \A q \in Request : WF_dashVars(RequestStep(q))

-----------------------------------------------------------------------------
(* A request that was accepted is answered, or its own handler panicked:   *)
(* no other one that panicked with the connection in hand (handlers.rs,    *)
(* PoisonError::into_inner) and no full set of workers is in its way, also *)
(* while the server drains.                                                *)
EveryRequestIsAnswered ==
  \A q \in Request : req[q].at = "accepted" ~> req[q].at = "answered" \/ (req[q].at = "dropped" /\ req[q].faulty)

(* After a signal the server stops, whatever it was doing.                 *)
StopsAfterSignal == phase = "draining" ~> phase = "stopped"

(* Neither a panic, nor a full set of workers, nor a connection that is in *)
(* use keeps an accepted request or a signalled server waiting for ever.   *)
RequestsAreServed == EveryRequestIsAnswered /\ StopsAfterSignal

(* The numbers of a page: every session of the window is in the report or  *)
(* counted as a failure, even if other processes deleted it after it was   *)
(* listed; a page is refused only if none of the window could be loaded.   *)
CountsAddUp ==
  [][\A q \in Request :
       LET r == req[q]  r2 == req'[q] IN
       r.at = "each" /\ r2.at \in {"render", "answered"} /\ r.ask.kind # "sessions" =>
         /\ Cardinality(r.parts) + r.failures = Cardinality(r.listed)
         /\ r2.at = "answered" => r.listed # {} /\ r.parts = {}]_dashVars

AnswersNow(q, status) == req[q].at # "answered" /\ req'[q].at = "answered" /\ req'[q].answer.status = status

(* A session that is not in the store is not found; an error of the server *)
(* is told only of one that is there and cannot be read, or that another   *)
(* process deleted or replaced while it was read.                          *)
ErrorsAreReal ==
  [][\A q \in Request :
       LET r == req[q]  s == Wanted(r.ask)  Bad(t) == Stored(t) /\ ~Loads(t) IN
       /\ AnswersNow(q, 404) /\ r.ask.kind = "session" => ~Stored(s)
       /\ AnswersNow(q, 500) /\ ~req'[q].faulty =>
            \/ r.ask.kind = "session" /\ (Bad(s) \/ s \in r.moved)
            \/ r.ask.kind # "session" /\ \A t \in r.listed : Bad(t) \/ t \in r.moved]_dashVars

(* The report and the episodes on a page belong to one row, unless another *)
(* process wrote that row while this request had the connection.           *)
PartsAreOfOneRow ==
  [][\A q \in Request :
       req[q].at # "render" /\ req'[q].at = "render" /\ req[q].ask.kind \in {"session", "aggregate"} =>
         \A p \in req'[q].parts :
           p.sid \in req'[q].moved \/ row[p.sid] = [report |-> p.report, episodes |-> p.episodes]]_dashVars

(* Whatever the file says and whoever edits it, a server that runs has an  *)
(* address and an interval it can use, and what the command line says.     *)
ServedAsAsked ==
  phase \in {"serving", "draining"} =>
    /\ settings.bind \in Addresses /\ settings.interval \in 1..60
    /\ cli.bind # None => settings.bind = cli.bind
    /\ cli.interval # None => settings.interval = cli.interval
    /\ cli.no_open => ~settings.auto_open

(* A server that runs has a store with the whole schema, whoever else      *)
(* migrates it at the same time, and the settings that were asked for.     *)
SetupIsSound == SchemaIsWhole /\ ServedAsAsked

(* What `config show` prints for the dashboard is what a server without    *)
(* flags then runs with, if it runs and nobody changed the file.           *)
ShownIsUsed ==
  [][phase = "off" /\ settings' # None /\ printed # None /\ printed.file = conf =>
       /\ cli.bind = None => settings'.bind = printed.serve.bind
       /\ cli.interval = None => settings'.interval = printed.serve.interval
       /\ ~cli.no_open => settings'.auto_open = printed.serve.auto_open]_dashVars

(* What a browser is told is what the store said while the request had the *)
(* connection, although other processes write, replace and prune rows      *)
(* between any two statements: counts add up, errors are real, and a page  *)
(* does not mix two rows.  And what `config show` tells comes true.        *)
AnswersAreTrue == CountsAddUp /\ ErrorsAreReal /\ PartsAreOfOneRow /\ ShownIsUsed
=============================================================================
