---------------------------- MODULE BatchCommand ----------------------------
(***************************************************************************)
(* The commands that load sessions, compute a report, redact it and write  *)
(* it: aggregate, mcp-waste, list, analyze and what watch aggregate loads  *)
(* (agentprof-cli, cmd/).                                                  *)
(* Loading a session for aggregate takes two reads, one for the report and *)
(* one for the episodes, and a session that is still running grows in      *)
(* between.  Any read, the output and the map beside it can fail.          *)
(* Discovery through the store may leave warnings that copies differ, which*)
(* are told at the end.                                                    *)
(***************************************************************************)
EXTENDS Redaction, DashboardPages

CONSTANTS
  Session,       \* the sessions
  Roots,         \* the sessions a root may have, newest first
  Content,       \* what each has, before and after it grows
  Commands       \* the command lines: kind, by, level, tui, limit (--top of mcp-waste),
                 \* waste, the session of analyze, and what the files they name have:
                 \* mcp, descriptions

(* Limits are usize; what `watch aggregate` loads is shown on the terminal.*)
ASSUME BatchAssumption ==
  /\ Roots \subseteq Seq(Session)
  /\ \A c \in Commands : c.limit \in Nat /\ (c.kind = "watch" => c.tui)

(* A path of analyze is that of a session; what mcp.json lists are names.  *)
IsList(s) == s \in Seq(ToSet(s))
IsName(n) == IsList(n) /\ n # <<>>
ASSUME AnalyzeAssumption ==
  \A c \in Commands : c.kind = "analyze" =>
    LET keys == Configured(ConfiguredTools(c.mcp)) IN
    /\ c.session.by \in {"path", "latest", "previous", "uuid"}
    /\ c.session.by = "path" /\ c.session.is # "missing" => c.session.id \in Session
    /\ IsFiniteSet(keys) /\ \A k \in keys : IsName(k[1]) /\ IsName(k[2])

(* What derive_episodes and the adapter make of a session's file: turns    *)
(* with their place as id, calls that began in one of them or in none and  *)
(* by the name they are under, and what a turn lists is there.  The id of  *)
(* a session is no number of a turn.                                       *)
IsCall(c, turns) ==
  /\ DOMAIN c = {"from", "to", "turn", "status", "requested"}
  /\ c.from \in Nat /\ c.to \in Nat /\ c.from <= c.to
  /\ c.turn \in 0..Len(turns)
  /\ c.status \in {"success", "failure", "orphan", "aborted", "open"}
IsTurn(t, k) ==
  /\ DOMAIN t = {"id", "from", "to", "status", "model", "mode", "tokens",
                "tool_calls", "hook_calls", "skill_calls"}
  /\ t.id = k
  /\ t.model # None => IsName(t.model)
  /\ \A f \in {"tool_calls", "hook_calls", "skill_calls"} :
       IsList(t[f]) /\ \A i \in DOMAIN t[f] : DOMAIN t[f][i] = {"name", "index"}
AreNamed(byName) ==
  /\ IsFiniteSet(DOMAIN byName) /\ NamesOrdered(DOMAIN byName)
  /\ \A n \in DOMAIN byName : IsName(n) /\ IsList(byName[n]) /\ byName[n] # <<>>
IsSession(e) ==
  /\ DOMAIN e = {"start", "turns", "tools", "hooks", "skills", "segments", "aborts", "usage", "loaded"}
  /\ IsList(e.turns) /\ \A k \in DOMAIN e.turns : IsTurn(e.turns[k], k)
  /\ AreNamed(e.tools) /\ AreNamed(e.hooks) /\ AreNamed(e.skills)
  /\ \A n \in DOMAIN e.tools : \A i \in DOMAIN e.tools[n] : IsCall(e.tools[n][i], e.turns)
  /\ \A k \in DOMAIN e.turns : \A i \in DOMAIN e.turns[k].tool_calls :
       e.turns[k].tool_calls[i].name \in DOMAIN e.tools
  /\ IsFiniteSet(DOMAIN e.usage) /\ NamesOrdered(DOMAIN e.usage)
  /\ IsFiniteSet(e.loaded)
  /\ None \notin DOMAIN e.usage /\ \A n \in DOMAIN e.usage \cup e.loaded : IsName(n)
ASSUME ContentAssumption ==
  \A s \in Session : /\ IsList(Content[s]) /\ Content[s] # <<>> /\ s \notin Int
                     /\ \A v \in DOMAIN Content[s] : IsSession(Content[s][v])

VARIABLES
  cmd,        \* the command line
  root,       \* its sessions, as discovery lists them
  version,    \* session -> which of its contents the file has
  pc, refs, at,
  half,       \* the report whose episodes are still to be read
  pairs,      \* what was loaded: report and episodes
  failures,
  made,       \* the report, before it is redacted
  output,     \* <<what was written or shown>>, or <<>>
  sidecar,    \* <<the redaction map that was written>>, or <<>>
  cached,     \* session -> what the store has of it
  warned,     \* the sessions whose copies differed, in order
  told,       \* the ids that the warnings were printed with
  exit        \* ExitKind, 0 for success

env == <<cmd, root>>
vars == <<cmd, root, version, pc, refs, at, half, pairs, failures, made, output, sidecar, cached, warned, told, exit>>

Success == 0
UserError == 1
DataError == 2
OutputError == 3

Contents(s) == Content[s][version[s]]

(* load_session: derive and analyze what the file has now.                 *)
ReportFrom(s, e) ==
  [ id |-> s, private |-> "raw", producer |-> "raw", warnings |-> {"raw"},
    started_at |-> e.start, turns |-> TurnSummary(e), rank |-> ToolRank(e),
    usage |-> e.usage, loaded |-> e.loaded ]
ReportOf(s) == ReportFrom(s, Contents(s))

Init ==
  /\ cmd \in Commands
  /\ root \in Roots
  /\ version = [s \in Session |-> 1]
  /\ pc = "start" /\ refs = <<>> /\ at = 1 /\ half = None
  /\ pairs = <<>> /\ failures = 0
  /\ made = None /\ output = <<>> /\ sidecar = <<>>
  /\ cached = [s \in Session |-> None]
  /\ warned = <<>> /\ told = <<>>
  /\ exit = None

(* Everything but the named is left alone by a step of the command.        *)
Exits(code) == pc' = "done" /\ exit' = code
Goes(to) == pc' = to /\ UNCHANGED exit

(* A session that is still running writes more events.                     *)
Grow(s) ==
  /\ pc # "done" /\ s \in ToSet(root) \cup ToSet(refs) /\ version[s] < Len(Content[s])
  /\ version' = [version EXCEPT ![s] = @ + 1]
  /\ UNCHANGED <<env, pc, refs, at, half, pairs, failures, made, output, sidecar, cached, warned, told, exit>>

Described == LoadSidecar(cmd.descriptions)
Truncated(s) == IF cmd.limit > 0 THEN SubSeq(s, 1, Min({cmd.limit, Len(s)})) ELSE s

Keep == UNCHANGED <<env, version, at, half, pairs, failures, made, output, sidecar, cached, told>>

(* Through the store, a session whose two copies differ leaves a warning.  *)
Compared == \E differ \in SUBSET ToSet(root) : warned' = SelectSeq(root, LAMBDA s : s \in differ)

(* The command up to the first session it loads.  An option, the root or   *)
(* the store may be refused (UserError); the root may not be readable; and *)
(* the limit of list cuts off what was compared already.                   *)
Refuses(codes) == (\E code \in codes : Exits(code)) /\ UNCHANGED <<refs, warned>>
DiscoverList ==
  /\ pc = "start" /\ cmd.kind = "list"
  /\ \/ Refuses({UserError, DataError})
     \/ Compared /\ refs' = Truncated(root) /\ Goes("load")
  /\ Keep

(* Without a terminal, aggregate --export tui does not start.              *)
DiscoverAggregate ==
  /\ pc = "start" /\ cmd.kind = "aggregate"
  /\ \/ Refuses({UserError, DataError} \cup (IF cmd.tui THEN {OutputError} ELSE {}))
     \/ Compared /\ refs' = root /\ Goes("load")
  /\ Keep

(* The aggregate of watch, at its start and whenever it reloads, comes from*)
(* the files alone.                                                        *)
DiscoverWatched ==
  /\ pc = "start" /\ cmd.kind = "watch"
  /\ \/ Refuses({UserError, DataError})
     \/ refs' = root /\ Goes("load") /\ UNCHANGED warned
  /\ Keep

(* mcp-waste makes nothing of no sessions, and looks for the home directory*)
(* and reads the descriptions before it loads any.                         *)
DiscoverWaste ==
  /\ pc = "start" /\ cmd.kind = "mcp-waste"
  /\ \/ Refuses({UserError, DataError})
     \/ /\ root # <<>> /\ Described # <<>>
        /\ Compared /\ refs' = root /\ Goes("load")
  /\ Keep

(* resolve_session: a path is taken as it is; the others are looked for    *)
(* among the root's sessions; any failure is the user's.                   *)
Selected ==
  LET by == cmd.session.by IN
  CASE by = "path"     -> IF cmd.session.is = "missing" THEN <<>> ELSE <<cmd.session.id>>
    [] by = "latest"   -> SubSeq(root, 1, Min({1, Len(root)}))
    [] by = "previous" -> SubSeq(root, 2, Min({2, Len(root)}))
    [] by = "uuid"     -> PickedAt(root, {i \in DOMAIN root : root[i] = cmd.session.id})
ResolveSession ==
  /\ pc = "start" /\ cmd.kind = "analyze"
  /\ \/ Refuses({UserError})
     \/ Selected # <<>> /\ refs' = Selected /\ Goes("load") /\ UNCHANGED warned
  /\ Keep

Discover ==
  DiscoverList \/ DiscoverAggregate \/ DiscoverWatched \/ DiscoverWaste \/ ResolveSession

(* load_session of the next one, and load_episodes after it.               *)
LoadReport ==
  /\ pc = "load" /\ at <= Len(refs) /\ cmd.kind = "aggregate"
  /\ \/ half' = ReportOf(refs[at]) /\ Goes("episodes") /\ UNCHANGED <<at, failures>>
     \/ half' = half /\ failures' = failures + 1 /\ at' = at + 1 /\ Goes("load")
  /\ UNCHANGED <<env, version, refs, pairs, made, output, sidecar, cached, warned, told>>

(* load_episodes                                                           *)
WrongLoadEpisodes ==
  /\ pc = "episodes"
  /\ \/ pairs' = Append(pairs, [report |-> half, episodes |-> Contents(refs[at])])
     \/ UNCHANGED pairs
  /\ half' = None /\ at' = at + 1
  /\ Goes("load")
  /\ UNCHANGED <<env, version, refs, failures, made, output, sidecar, cached, warned, told>>
LoadEpisodes ==
  /\ pc = "episodes"
  /\ \/ /\ pairs' = Append(pairs, [report |-> half, episodes |-> Contents(refs[at])])
        /\ UNCHANGED failures
     \/ failures' = failures + 1 /\ UNCHANGED pairs
  /\ half' = None /\ at' = at + 1
  /\ Goes("load")
  /\ UNCHANGED <<env, version, refs, made, output, sidecar, cached, warned, told>>

(* The others read a session once.                                         *)
LoadAndAnalyze(s) == [report |-> ReportOf(s), episodes |-> Contents(s)]
LoadWhole ==
  /\ pc = "load" /\ at <= Len(refs) /\ cmd.kind # "aggregate"
  /\ at' = at + 1
  /\ \/ /\ pairs' = Append(pairs, LoadAndAnalyze(refs[at])) /\ UNCHANGED failures
        /\ Goes(IF cmd.kind = "analyze" THEN "cache" ELSE "load")
     \/ /\ failures' = failures + 1 /\ UNCHANGED pairs
        /\ IF cmd.kind = "analyze" THEN Exits(DataError) ELSE Goes("load")
  /\ UNCHANGED <<env, version, refs, half, made, output, sidecar, cached, warned, told>>

(* write_through_report: the report, then the episodes; either may fail,   *)
(* and no failure stops the command.                                       *)
NewRow(report, episodes) == [report |-> report, episodes |-> episodes]
WriteThrough ==
  /\ pc = "cache"
  /\ \E stored \in {<<>>, <<"report">>, <<"report", "episodes">>} :
       LET p == pairs[1] IN
       cached' = [cached EXCEPT ![p.report.id] =
                   IF stored = <<>> THEN None
                   ELSE NewRow(p.report, IF Len(stored) = 2 THEN p.episodes ELSE None)]
  /\ Goes("load")
  /\ UNCHANGED <<env, version, refs, at, half, pairs, failures, made, output, sidecar, warned, told>>

(* The waste of each session, by its own model's encoding.                 *)
WasteOf(report) ==
  ComputeWaste(report.rank, report.loaded, ConfiguredTools(cmd.mcp), Costs(Described[1], report.usage))
Wastes == [i \in DOMAIN pairs |-> WasteOf(pairs[i].report)]

(* aggregate_by_*, fill_metadata, truncate_buckets                         *)
Aggregated ==
  LET buckets == CASE cmd.by = "tool" -> ByTool(pairs)
                   [] cmd.by = "mcp-server" -> ByServer(pairs, Wastes)
                   [] cmd.by = "day" -> ByDay(pairs)
                   [] cmd.by = "model" -> ByModel(pairs)
  IN  [ by |-> cmd.by, session_count |-> Len(pairs), failure_count |-> failures,
        total_wall |-> TotalWall(pairs),
        buckets |-> Truncated(buckets) ]

(* redact_rows                                                             *)
RedactRows(rows) ==
  LET ids == Firsts([i \in DOMAIN rows |-> rows[i].id]) IN
  IF cmd.level = "none" THEN rows
  ELSE [i \in DOMAIN rows |->
         [rows[i] EXCEPT !.id = Alias(ids, @), !.model = Family(@),
                         !.started_at = IF cmd.level = "anonymize" THEN Epoch ELSE @]]

(* drain_and_emit_warnings: list has a new context for them.               *)
Tell == told' = IF cmd.kind # "list" \/ cmd.level = "none" THEN warned
                ELSE [i \in DOMAIN warned |-> Alias(Firsts(warned), warned[i])]

(* compute_phase2, and what the others have in its place.                  *)
Compute ==
  /\ pc = "load" /\ at > Len(refs)
  /\ \/ /\ pairs = <<>> /\ refs # <<>>
        /\ IF cmd.kind \in {"list", "mcp-waste"} THEN Tell ELSE UNCHANGED told
        /\ Exits(DataError) /\ UNCHANGED made
     \/ /\ pairs # <<>> \/ refs = <<>>
        /\ cmd.waste
        /\ Exits(UserError) /\ UNCHANGED <<made, told>>
     \/ /\ pairs # <<>> \/ refs = <<>>
        /\ cmd.waste => Described # <<>>
        /\ made' = CASE cmd.kind \in {"aggregate", "watch"} -> Aggregated
                     [] cmd.kind = "mcp-waste" -> AggregateWaste(Wastes)
                     [] cmd.kind = "list" -> [i \in DOMAIN pairs |-> ListRow(pairs[i].report)]
                     [] cmd.kind = "analyze" ->
                          [ report |-> pairs[1].report, episodes |-> pairs[1].episodes,
                            waste |-> IF cmd.waste THEN Wastes[1] ELSE None ]
        /\ IF cmd.kind = "aggregate" THEN Tell ELSE UNCHANGED told
        /\ Goes(IF cmd.tui THEN "tui" ELSE "write")
  /\ UNCHANGED <<env, version, refs, at, half, pairs, failures, output, sidecar, cached, warned>>

(* run_tui: the report is shown as it is; no terminal, or it fails.        *)
Tui ==
  /\ pc = "tui"
  /\ \/ output' = <<made>> /\ Exits(Success)
     \/ UNCHANGED output /\ Exits(OutputError)
  /\ UNCHANGED <<env, version, refs, at, half, pairs, failures, made, sidecar, cached, warned, told>>

(* redact_all, redact_any_report                                           *)
Context == NewContext(made.report, made.episodes,
                      IF made.waste = None THEN {} ELSE ToSet(made.waste.server_waste))
Redacted ==
  CASE cmd.kind = "aggregate" -> RedactAggregate(made, cmd.level)
    [] cmd.kind = "mcp-waste" -> made
    [] cmd.kind = "list" -> RedactRows(made)
    [] cmd.kind = "analyze" ->
         [ report |-> RedactReport(made.report, cmd.level, Context.uuids),
           episodes |-> RedactEpisodes(made.episodes, cmd.level, Context.uuids),
           waste |-> IF made.waste = None THEN None ELSE RedactWaste(made.waste, cmd.level) ]
RedactionMap ==
  IF cmd.kind = "aggregate" THEN AggregateMap(made, cmd.level)
  ELSE IF cmd.kind = "analyze" /\ cmd.level = "anonymize" THEN Context ELSE NoMap

(* render_report: the page is made from what was redacted.                 *)
Sections == {"turn-summary", "tool-rank", "hook-rank"} \cup (IF cmd.waste THEN {"mcp-waste"} ELSE {})
RenderReport(export, made_of) ==
  LET waste == IF made_of.waste = None THEN <<>> ELSE <<made_of.waste>>
      hooks == HookRank(made_of.episodes)
  IN  CASE export = "md"   -> MarkdownPage(made_of.report, hooks, Sections, waste)
        [] export = "html" -> HtmlPage(made_of.report, hooks, Sections, waste)
        [] export = "json" -> JsonPage(made_of.report, waste)

(* write_output; list prints its table.                                    *)
Write ==
  /\ pc = "write"
  /\ \/ /\ output' = <<Redacted>>
        /\ IF cmd.kind \in {"mcp-waste", "list"} THEN Tell ELSE UNCHANGED told
        /\ Goes("map")
     \/ /\ cmd.kind # "list"
        /\ Exits(OutputError) /\ UNCHANGED <<output, told>>
  /\ UNCHANGED <<env, version, refs, at, half, pairs, failures, made, sidecar, cached, warned>>

(* emit_redaction_sidecar                                                  *)
MapOwed == cmd.level = "anonymize" /\ RedactionMap # NoMap
WriteMap ==
  /\ pc = "map"
  /\ \/ ~MapOwed /\ UNCHANGED sidecar /\ Exits(Success)
     \/ MapOwed /\ sidecar' = <<RedactionMap>> /\ Exits(Success)
     \/ MapOwed /\ UNCHANGED sidecar /\ Exits(OutputError)
  /\ UNCHANGED <<env, version, refs, at, half, pairs, failures, made, output, cached, warned, told>>

Next ==
  \/ Discover \/ LoadReport \/ LoadEpisodes \/ LoadWhole \/ WriteThrough
  \/ Compute \/ Tui \/ Write \/ WriteMap
  \/ \E s \in Session : Grow(s)

Spec == Init /\ [][Next]_vars

-----------------------------------------------------------------------------
Done == pc = "done"
Written(kind) == Done /\ cmd.kind = kind /\ output # <<>> /\ ~cmd.tui
out == output[1]
Bucketed == Written("aggregate")
Analyzed == Written("analyze")

(* The exit code tells what there is: success means the report and the     *)
(* map it needs, and with any other code nothing was written except the    *)
(* report whose map could not be.                                          *)
ExitTellsTheTruth ==
  Done =>
    /\ exit = Success => output # <<>> /\ (~cmd.tui /\ MapOwed => sidecar # <<>>)
    /\ exit # Success => sidecar = <<>> /\ (output # <<>> => exit = OutputError /\ MapOwed)

(* A session that was found is either part of the aggregate or counted as  *)
(* a failure, whichever of its two reads failed, and an aggregate of       *)
(* failures only is not written.                                           *)
CountsAddUp ==
  /\ cmd.kind \in {"aggregate", "watch"} /\ output # <<>> =>
       /\ out.session_count + out.failure_count = Len(refs)
       /\ out.session_count = 0 => refs = <<>>
  /\ Written("list") => Len(out) + failures = Len(refs) /\ (out = <<>> => refs = <<>>)

(* Aggregating loses and repeats nothing: the buckets of every dimension   *)
(* add up to what the sessions' reports say, even when the episodes that   *)
(* were read after a report already have more.                             *)
Sum(buckets, field) == Total([i \in DOMAIN buckets |-> buckets[i][field]])
Calls(Test(_)) ==
  Over(pairs, LAMBDA p :
    LET rows == SelectSeq(p.report.rank, LAMBDA r : Test(r.name))
    IN  Total([i \in DOMAIN rows |-> rows[i].call_count]))
AggregateConserves ==
  cmd.kind \in {"aggregate", "watch"} /\ made # None /\ cmd.limit = 0 =>
    LET rows == made.buckets IN
    /\ cmd.by = "tool" => Sum(rows, "call_count") = Calls(LAMBDA n : TRUE)
    /\ cmd.by = "mcp-server" =>
         /\ Sum(rows, "call_count") = Calls(IsMcp)
         /\ Sum(rows, "wasted_tokens") = Total([i \in DOMAIN Wastes |-> Wastes[i].total_unused_tokens])
    /\ cmd.by = "model" => Sum(rows, "session_count") = Count(pairs, HasModel)
    /\ cmd.by = "day" => /\ Sum(rows, "session_count") = Len(pairs)
                         /\ Sum(rows, "wall") = made.total_wall

(* Redaction changes names and instants, never an amount: every column of  *)
(* the buckets keeps its sum when models of a family become one row, the   *)
(* rows have distinct keys, and a session keeps its token totals.          *)
RedactionConserves ==
  /\ Bucketed =>
       /\ \A i \in DOMAIN made.buckets : \A f \in DOMAIN made.buckets[i] \ {"key"} :
            Sum(out.buckets, f) = Sum(made.buckets, f)
       /\ \A i, j \in DOMAIN out.buckets : out.buckets[i].key = out.buckets[j].key => i = j
  /\ Analyzed =>
       \A c \in {"input", "output", "read", "write"} :
         MapThenSumSet(LAMBDA m : out.report.usage[m][c], DOMAIN out.report.usage)
           = MapThenSumSet(LAMBDA m : made.report.usage[m][c], DOMAIN made.report.usage)

(* After anonymizing, the report, the episodes and the waste have no id,   *)
(* server, version of a model or instant of the session left.              *)
Clean(names) ==
  LET raw == NamesOf(made.report, made.episodes)
               \cup {FullName(k) : k \in Configured(ConfiguredTools(cmd.mcp))}
  IN  \A n \in names : IsMcp(n) => ServerOf(n) \in {Hash(ServerOf(m)) : m \in raw}
NothingRawIsLeft ==
  Analyzed /\ cmd.level = "anonymize" =>
    LET e == out.episodes IN
    /\ Clean(NamesOf(out.report, e))
    /\ \A k \in DOMAIN e.turns : Clean({e.turns[k].tool_calls[i].name : i \in DOMAIN e.turns[k].tool_calls})
    /\ out.waste # None => \A w \in ToSet(out.waste.server_waste) : Clean({t.tool_name : t \in w.tools})
    /\ \A m \in DOMAIN out.report.usage : Len(m) = 1
    /\ {out.report.started_at} \cup {out.report.turns[k].started_at : k \in DOMAIN out.report.turns}
         \cup {e.turns[k].from : k \in DOMAIN e.turns}
         \cup UNION {{e.tools[n][i].to : i \in DOMAIN e.tools[n]} : n \in DOMAIN e.tools} = {Epoch}

(* The parts of a redacted analysis still fit together: a row of the turn  *)
(* table and its turn in the flamegraph have one alias that no other turn  *)
(* and not the session has, calls refer to the turns they referred to, and *)
(* the tools of the waste section are those of the ranking.                *)
AliasesJoin ==
  Analyzed =>
    LET r == out.report  e == out.episodes
        id(k) == e.turns[k].id
        names == {r.rank[i].name : i \in DOMAIN r.rank}
        joined(n, m) ==   \* the calls of a tool, before and after
          \A i \in DOMAIN made.episodes.tools[n] :
            LET turn == made.episodes.tools[n][i].turn IN
            e.tools[m][i].turn = IF turn = 0 THEN 0 ELSE id(turn)
        renamed(n) == IF cmd.level = "anonymize" THEN HashedName(n) ELSE n
    IN  /\ \A k \in DOMAIN e.turns : r.turns[k].turn_id = id(k) /\ id(k) # r.id
        /\ \A j, k \in DOMAIN e.turns : id(j) = id(k) => j = k
        /\ \A n \in DOMAIN made.episodes.tools : joined(n, renamed(n))
        /\ DOMAIN e.tools = names
        /\ out.waste # None => \A w \in ToSet(out.waste.server_waste) :
             \A t \in w.tools : t.call_count > 0 => t.tool_name \in names

(* The map beside an anonymized report leads back from every alias, hash   *)
(* and family in it.                                                       *)
MapInverts ==
  sidecar # <<>> /\ cmd.kind = "analyze" =>
    LET map == sidecar[1]
        models == DOMAIN made.report.usage
                    \cup {made.report.turns[k].model : k \in DOMAIN made.report.turns}
    IN  /\ map.uuids[-out.report.id] = made.report.id
        /\ \A k \in DOMAIN made.report.turns : map.uuids[-out.report.turns[k].turn_id] = k
        /\ \A i \in DOMAIN made.report.rank : IsMcp(made.report.rank[i].name) =>
             map.servers[ServerOf(out.report.rank[i].name)] = ServerOf(made.report.rank[i].name)
        /\ \A f \in DOMAIN out.report.usage : map.models[f] \in models /\ Family(map.models[f]) = f

(* So does the map beside an anonymized aggregate, from every bucket.      *)
BucketMapInverts ==
  sidecar # <<>> /\ cmd.kind = "aggregate" =>
    LET map == sidecar[1] IN
    \A i \in DOMAIN out.buckets : LET key == out.buckets[i].key IN
      /\ cmd.by = "mcp-server" => map.servers[key] = made.buckets[i].key
      /\ cmd.by = "model" => \E j \in DOMAIN made.buckets : made.buckets[j].key = map.models[key]

(* The store has what the file said, whatever the command's --privacy.     *)
CacheIsRaw ==
  \A s \in Session : cached[s] # None => cached[s].report = pairs[1].report /\ cached[s].report.id = s

(* Over the window, a tool is reported as never called exactly if a        *)
(* session announced it or the configuration has it, and none called it.   *)
UnusedIsUnused ==
  Written("mcp-waste") =>
    LET called == UNION {{r.name : r \in ToSet(pairs[i].report.rank)} : i \in DOMAIN pairs}
        known == UNION {pairs[i].report.loaded : i \in DOMAIN pairs}
                   \cup {FullName(k) : k \in Configured(ConfiguredTools(cmd.mcp))}
    IN  out.never_called_tools = {n \in known : IsMcp(n)} \ called

(* The page of the window adds up: the total is that of the servers, the   *)
(* largest of them is named if anything was wasted, the unused tools are   *)
(* the first by name, each in a row with a server that had it and no more  *)
(* sessions than the server.  If all are shown and one encoding counts all *)
(* sessions, their tokens times their sessions are the total but for the   *)
(* sessions that did not call a tool that others called.                   *)
UnusedToolsAreWeighed ==
  Written("mcp-waste") =>
    LET page == WasteMarkdown(out, cmd.limit, ToolTokens(Wastes))
        rows == page.unused
        servers == ToSet(page.per_server)
        encodings == {InferTokenizer(pairs[i].report.usage) : i \in DOMAIN pairs}
        called(s) == {t \in s.tool_usage : t.sessions_called > 0}
        others(s) == MapThenSumSet(LAMBDA t : ToolTokens(Wastes)[t.tool_name]
                                                * (t.sessions_loaded - t.sessions_called), called(s))
    IN  /\ page.total_tokens = Total([i \in DOMAIN page.per_server |-> page.per_server[i].tokens])
        /\ page.total_tokens > 0 <=> page.largest # <<>>
        /\ page.largest # <<>> => \A s \in servers : s.tokens <= page.largest[1].tokens
        /\ \A i \in DOMAIN rows :
             /\ \E s \in servers : s.server = rows[i].server /\ s.sessions_loaded >= rows[i].sessions_loaded
             /\ \A n \in out.never_called_tools :
                  Before(n, rows[i].tool) => n \in {rows[j].tool : j \in DOMAIN rows}
        /\ Cardinality(encodings) = 1 /\ Len(rows) = page.never_called =>
             page.total_tokens = Total([i \in DOMAIN rows |-> rows[i].tokens * rows[i].sessions_loaded])
                                 + Total([i \in DOMAIN out.per_server |-> others(out.per_server[i])])

(* Of what analyze loaded, the waste section of the page lists the first   *)
(* unused tools by name, as many as it has room for, the same the terminal *)
(* shows server by server; the banner's count and tokens are theirs; and   *)
(* no tool is both there and in a table of tools that were called.         *)
UnusedToolsAreListed ==
  Done /\ cmd.kind = "analyze" /\ output # <<>> /\ out.waste # None =>
    LET w == out.waste
        page == RenderReport("md", out)
        listed == page.waste[1].tools
        unused == UNION {ToSet(WasteView(w, i - 1, TRUE).tools) : i \in DOMAIN w.server_waste}
        names(tools) == {t.tool_name : t \in tools}
        ranked == {r.name : r \in ToSet(page.tools[1].work) \cup ToSet(page.tools[1].user_blocking)}
    IN  /\ page.waste[1].banner.unused = Cardinality(unused)
        /\ page.waste[1].banner.unused_tokens = TokensOf(unused)
        /\ Len(listed) = Min({Cardinality(unused), MaxUnusedShown})
        /\ names(ToSet(listed)) \subseteq names(unused) \ ranked
        /\ \A i \in DOMAIN listed : \A t \in unused :
             Before(t.tool_name, listed[i].tool_name) => t.tool_name \in names(ToSet(listed))

(* The three places that tell what the cache saved agree: the section of a *)
(* page, the total of the models, and the models, whose savings add up to  *)
(* the total but for half a token each; the hit rate is between the rates  *)
(* of the models; and the model under the highlight is always one of them. *)
SavingsAddUp ==
  Done /\ cmd.kind = "analyze" /\ output # <<>> =>
    LET usage == out.report.usage
        page == RenderReport("md", out)
        rate(m) == Percent(<<usage[m].read, usage[m].read + usage[m].write>>, 10)
        active == {m \in DOMAIN usage : usage[m].read + usage[m].write > 0}
    IN  \A selected \in 0..2 : \A v \in ToSet(ModelsView(usage, selected)) :
          LET saved == [i \in DOMAIN v.rows |-> IF v.rows[i].net_saved = <<>> THEN 0 ELSE v.rows[i].net_saved[1]]
              off == Total(saved) - v.net_saved[1]
          IN  /\ active = {} <=> page.cache = <<>>
              /\ active = {} <=> v.net_saved = <<>>
              /\ active # {} =>
                   /\ page.cache[1].saved_net = v.net_saved[1]
                   /\ 2 * off <= Len(saved) + 1 /\ -2 * off <= Len(saved) + 1
                   /\ Min({rate(m) : m \in active}) <= page.cache[1].honest
                   /\ page.cache[1].honest <= Max({rate(m) : m \in active})
              /\ Cardinality({i \in DOMAIN v.rows : v.rows[i].highlighted}) = 1

(* However a table of buckets is sorted, every bucket is one row of it, in *)
(* the order of the key; and in every format the cells about the cache are *)
(* blank exactly for buckets without cache traffic, also when models of a  *)
(* family have become one bucket.                                          *)
BucketsAreShown ==
  cmd.kind \in {"aggregate", "watch"} /\ Done /\ output # <<>> =>
    LET keys(rows) == [i \in DOMAIN rows |-> rows[i].key]
        tables == {MdAggregate(out).rows, CsvAggregate(out).rows, HtmlAggregate(out).rows}
        active(b) == b.cache_creation + b.cache_read > 0
    IN  /\ \A t \in tables : /\ keys(t) = keys(out.buckets)
                              /\ cmd.by \in {"day", "model"} => \A i \in DOMAIN t :
                                   /\ t[i].saved_net # <<>> <=> active(out.buckets[i])
                                   /\ t[i].hit_pct_honest # <<>> <=> active(out.buckets[i])
        /\ \A sort \in {"c", "t", "s", "p"} : \A selected \in 0..1 :
             LET v == CrossSession(out, sort, selected)
                 cells == [i \in DOMAIN v.rows |-> v.rows[i].cells]
                 field == CASE sort = "t" -> "total_duration" [] sort = "s" -> "session_count"
                            [] sort = "p" -> "p50_duration" [] sort = "c" -> "call_count"
             IN  /\ Len(cells) = Len(out.buckets) /\ ToSet(keys(cells)) = ToSet(keys(out.buckets))
                 /\ cmd.by # "day" => \A i, j \in DOMAIN cells :
                      i < j /\ field \in DOMAIN cells[i] => cells[i][field] >= cells[j][field]
                 /\ selected < Len(cells) =>
                      Cardinality({i \in DOMAIN v.rows : v.rows[i].highlighted}) = 1

(* The dashboard and the commands tell the same of the same sessions: its  *)
(* list and the page of a session have the row of `agentprof list`, its    *)
(* aggregate is the first rows of the command's page, and of a server it   *)
(* shows the calls that mcp-waste counts, with no more sessions and, while *)
(* all tokens are guesses, no more waste than are found with an mcp.json.  *)
(* Every server it lists has a page.                                       *)
Reports == [i \in DOMAIN pairs |-> pairs[i].report]
CalledOf(tools) == {[name |-> t.tool_name, calls |-> t.total_call_count] :
                      t \in {u \in tools : u.sessions_called > 0}}
DashboardAgrees ==
  /\ Written("list") /\ cmd.level = "none" =>
       LET table == ListTable(out)  page == SessionsPage(Reports)
           same(row, cells) == \A f \in DOMAIN row \ {"duration"} : row[f] = cells[f]
       IN  \A i \in DOMAIN page :
             LET one == SessionPage(Reports[i], <<>>) IN
             /\ same(page[i], table[i])
             /\ page[i].duration \in {<<>>, table[i].duration}
             /\ <<one.model, one.turn_count, one.duration>>
                  = <<page[i].model, page[i].turns, page[i].duration>>
             /\ one.body.total_output_tokens = page[i].output_tokens
             /\ page[i].cache_pct = [k \in DOMAIN one.body.cache |-> one.body.cache[k].honest]
  /\ Bucketed /\ cmd.level = "none" /\ cmd.limit = 0 /\ cmd.by # "mcp-server" =>
       LET page == AggregatePage(cmd.by, pairs, failures)
           rows == HtmlAggregate(out).rows IN
       /\ page.status = 200
       /\ page.page[1].body.rows = SubSeq(rows, 1, Min({BucketsLimit, Len(rows)}))
       /\ page.page[1].session_count + failures = Len(refs)
  /\ Written("mcp-waste") =>
       \A agg \in {StoreWaste(Reports)} : \A shown \in ToSet(WasteListPage(agg).page[1].per_server) :
         LET page == WasteDetailPage(agg, shown.server)
             known == SelectSeq(out.per_server, LAMBDA s : s.server = shown.server)
         IN  /\ page.status = 200 /\ page.page[1].head = shown
             /\ Len(known) = 1
             /\ shown.sessions_loaded <= known[1].sessions_loaded
             /\ shown.sessions_with_zero_calls <= known[1].sessions_with_zero_calls
             /\ cmd.descriptions.kind = "none" => shown.total_unused_tokens <= known[1].total_unused_tokens
             /\ CalledOf(page.page[1].tools) = CalledOf(known[1].tool_usage)

(* Whichever read or write of a command fails, and whatever changes under  *)
(* it, the exit code, the counts and the store tell what happened.         *)
OutcomeIsTold == ExitTellsTheTruth /\ CountsAddUp /\ CacheIsRaw

(* From the sessions to the cells of a table no call, token or session is  *)
(* lost or counted twice, with aliases and without.                        *)
AggregateIsSound == AggregateConserves /\ RedactionConserves /\ BucketMapInverts /\ BucketsAreShown

(* Redaction hides every name and leaves a report whose parts still fit    *)
(* together, and which the sidecar map leads back to the names.            *)
RedactionJoins == NothingRawIsLeft /\ AliasesJoin /\ MapInverts

(* What is called waste was loaded and not used, in every place that lists *)
(* it, and what the cache is said to have saved adds up.                   *)
WasteIsTrue == UnusedIsUnused /\ UnusedToolsAreListed /\ UnusedToolsAreWeighed /\ SavingsAddUp
=============================================================================
