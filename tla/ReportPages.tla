---------------------------- MODULE ReportPages -----------------------------
(***************************************************************************)
(* What a reader sees of one session's report: the markdown and HTML pages *)
(* and the JSON of analyze (agentprof-cli, cmd/format/), and the views     *)
(* Models and MCP Waste of the terminal interface (agentprof-tui, views/). *)
(* A page is the record of what it shows.  Wording and widths are left     *)
(* out; what may be missing or blank is a sequence of at most one.         *)
(***************************************************************************)
EXTENDS McpWaste

CONSTANT MaxUnusedShown   \* 20
ASSUME ReportPagesAssumption == MaxUnusedShown \in Nat \ {0}

(* Half away from zero.                                                    *)
Rounded(n, d) == IF n >= 0 THEN (2 * n + d) \div (2 * d) ELSE -((d - 2 * n) \div (2 * d))

(* CacheMetrics::from_raw: a read saves nine tenths of a token, a write    *)
(* costs a quarter more.  The rates are fractions.                         *)
CacheMetrics(creation, read, input) ==
  IF creation = 0 /\ read = 0 THEN <<>>
  ELSE <<[ creation |-> creation, read |-> read,
           hit_rate_naive |-> <<read, read + input>>,
           hit_rate_honest |-> <<read, read + creation>>,
           saved_gross |-> Rounded(9 * read, 10),
           saved_net |-> Rounded(18 * read - 5 * creation, 20) ]>>

(* A rate as printed, in parts of the digit shown last; 0/0 is 0.          *)
Percent(rate, parts) == IF rate[2] = 0 THEN 0 ELSE Rounded(100 * parts * rate[1], rate[2])

(* AnalysisReport::cache_metrics                                           *)
UsageTotal(usage, f(_)) == MapThenSumSet(LAMBDA m : f(usage[m]), DOMAIN usage)
SessionCache(usage) ==
  CacheMetrics(UsageTotal(usage, LAMBDA u : u.write), UsageTotal(usage, LAMBDA u : u.read),
               UsageTotal(usage, LAMBDA u : u.input))

CacheSection(usage) ==
  LET m == SessionCache(usage) IN
  IF m = <<>> THEN <<>>
  ELSE <<[ creation |-> m[1].creation, read |-> m[1].read,
           honest |-> Percent(m[1].hit_rate_honest, 10), naive |-> Percent(m[1].hit_rate_naive, 10),
           saved_net |-> m[1].saved_net, saved_gross |-> m[1].saved_gross ]>>

-----------------------------------------------------------------------------
(* The tools of a server in the order of their names.                      *)
ToolsByName(server) ==
  LET names == ByName({t.tool_name : t \in server.tools})
  IN  [i \in DOMAIN names |-> CHOOSE t \in server.tools : t.tool_name = names[i]]

ToolLines(waste) ==
  LET of(s) == LET tools == ToolsByName(s) IN [i \in DOMAIN tools |-> tools[i] @@ [server |-> s.server]]
  IN  StablySorted(FoldLeft(LAMBDA lines, s : lines \o of(s), <<>>, waste.server_waste),
                   LAMBDA a, b : Before(a.tool_name, b.tool_name))
FirstOf(lines) == SubSeq(lines, 1, Min({Len(lines), MaxUnusedShown}))
(* The first unused tools of all servers, by name.                         *)
UnusedLines(waste) == FirstOf(SelectSeq(ToolLines(waste), LAMBDA t : t.call_count = 0))

(* write_mcp_waste_banner; a sum with a guess in it is marked.             *)
Approximate(waste) == waste.token_provenance # "sidecar-exact"
WasteBanner(waste) ==
  LET loaded == waste.total_loaded_tool_count  unused == waste.total_unused_tool_count IN
  [ data_source |-> waste.data_source, loaded |-> loaded, servers |-> Len(waste.server_waste),
    loaded_tokens |-> waste.total_loaded_tokens, unused |-> unused,
    unused_pct |-> IF loaded = 0 THEN 0 ELSE (unused * 100) \div loaded,
    unused_tokens |-> waste.total_unused_tokens,
    fully_unused |-> Count(waste.server_waste, LAMBDA s : s.is_fully_unused),
    approximate |-> Approximate(waste) ]

(* write_mcp_waste *)
WasteSection(waste) ==
  [ banner |-> WasteBanner(waste),
    servers |-> [i \in DOMAIN waste.server_waste |->
                  [f \in {"server", "loaded_count", "called_count", "unused_count", "unused_tokens",
                          "is_fully_unused"} |-> waste.server_waste[i][f]]],
    tools |-> UnusedLines(waste),
    footer |-> waste.token_provenance ]

(* render_mcp_waste_section: nothing unless there is a report of the waste *)
(* and the section was asked for.                                          *)
WasteSections(sections, waste) ==
  IF "mcp-waste" \in sections THEN [i \in DOMAIN waste |-> WasteSection(waste[i])] ELSE <<>>

-----------------------------------------------------------------------------
Shown(name, sections, table) == IF name \in sections THEN <<table>> ELSE <<>>

(* write_tool_rank: tools that wait for the user have a table of their own.*)
RankTables(rank) ==
  [ work |-> SelectSeq(rank, LAMBDA r : ~r.is_user_blocking),
    user_blocking |-> SelectSeq(rank, LAMBDA r : r.is_user_blocking) ]

(* write_turn_summary, write_hook_rank                                     *)
TurnTable(turns) == [i \in DOMAIN turns |-> turns[i] @@ [number |-> i]]
HookTable(hooks) ==
  [i \in DOMAIN hooks |-> [f \in {"name", "call_count", "synthesized_start_count", "total_duration",
                                  "p50_duration", "p95_duration"} |-> hooks[i][f]]]

(* write_header *)
Header(report, hooks) ==
  [ id |-> report.id, started_at |-> report.started_at, turns |-> Len(report.turns),
    tools |-> Len(report.rank), hooks |-> Len(hooks), warnings |-> report.warnings ]

(* md::render; waste is a sequence of at most one report.                  *)
MarkdownPage(report, hooks, sections, waste) ==
  [ header |-> Header(report, hooks),
    turns |-> Shown("turn-summary", sections, TurnTable(report.turns)),
    tools |-> Shown("tool-rank", sections, RankTables(report.rank)),
    hooks |-> Shown("hook-rank", sections, HookTable(hooks)),
    waste |-> WasteSections(sections, waste),
    cache |-> CacheSection(report.usage) ]

(* html::render: the flame graph goes with any of the three tables, and    *)
(* the model is that of the first turn.                                    *)
HtmlPage(report, hooks, sections, waste) ==
  LET closed == SelectSeq(report.turns, LAMBDA t : t.duration # <<>>) IN
  [ model |-> IF report.turns = <<>> THEN <<>> ELSE <<report.turns[1].model>>,
    duration |-> Total([i \in DOMAIN closed |-> closed[i].duration[1]]),
    turn_count |-> Len(report.turns), tool_count |-> Len(report.rank), hook_count |-> Len(hooks),
    total_output_tokens |-> Total([i \in DOMAIN report.turns |-> report.turns[i].output_tokens]),
    flamegraph |-> sections \cap {"turn-summary", "tool-rank", "hook-rank"} # {},
    turns |-> Shown("turn-summary", sections, report.turns),
    tools |-> Shown("tool-rank", sections, report.rank),
    hooks |-> Shown("hook-rank", sections, hooks),
    waste |-> WasteSections(sections, waste),
    cache |-> CacheSection(report.usage) ]

(* json::render: all there is, whatever the sections.                      *)
JsonPage(report, waste) ==
  [report |-> report, mcp_waste |-> waste, cache_metrics |-> SessionCache(report.usage)]

-----------------------------------------------------------------------------
(* views/models.rs: netsaved_cell, render_with_data.  The selection is cut *)
(* to the rows there are; the last row is the total.                       *)
NetSaved(u) == LET m == CacheMetrics(u.write, u.read, u.input)
               IN  IF m = <<>> THEN <<>> ELSE <<m[1].saved_net>>
ModelsTotal(usage) ==
  [ input |-> UsageTotal(usage, LAMBDA u : u.input), output |-> UsageTotal(usage, LAMBDA u : u.output),
    read |-> UsageTotal(usage, LAMBDA u : u.read), write |-> UsageTotal(usage, LAMBDA u : u.write) ]
ModelsView(usage, selected) ==
  LET names == ByName(DOMAIN usage)
      rows == StablySorted([i \in DOMAIN names |-> [model |-> names[i], usage |-> usage[names[i]]]],
                           LAMBDA a, b : a.usage.input > b.usage.input)
      total == ModelsTotal(usage)
  IN  IF rows = <<>> THEN <<>>   \* render_empty_state
      ELSE <<[ rows |-> [i \in DOMAIN rows |->
                          [ model |-> rows[i].model, usage |-> rows[i].usage,
                            net_saved |-> NetSaved(rows[i].usage),
                            highlighted |-> i = 1 + Min({selected, Len(rows) - 1}) ]],
               total |-> total, net_saved |-> NetSaved(total) ]>>

(* views/mcp_waste.rs: render_tool_table, of the server under the cursor.  *)
WasteViewTools(waste, cursor, unused_only) ==
  IF cursor >= Len(waste.server_waste) THEN <<>>
  ELSE SelectSeq(ToolsByName(waste.server_waste[cursor + 1]),
                 LAMBDA t : unused_only => t.call_count = 0)
(* render_server_table; no row is highlighted when the cursor is past them.*)
WasteViewServers(waste, cursor) ==
  [i \in DOMAIN waste.server_waste |->
    LET s == waste.server_waste[i] IN
    [ server |-> s.server, loaded |-> s.loaded_count, unused |-> s.unused_count,
      tokens |-> s.unused_tokens, fully |-> s.is_fully_unused, highlighted |-> i = cursor + 1 ]]
WasteView(waste, cursor, unused_only) ==
  [ banner |-> [WasteBanner(waste) EXCEPT !.unused_pct = 0, !.servers = 0],
    servers |-> WasteViewServers(waste, cursor),
    tools |-> WasteViewTools(waste, cursor, unused_only) ]
=============================================================================
