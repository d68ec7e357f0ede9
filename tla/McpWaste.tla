------------------------------ MODULE McpWaste ------------------------------
(***************************************************************************)
(* Which MCP tools were loaded and never called, and what that cost        *)
(* (agentprof-core, analyzer/waste.rs and model/tool_source.rs).           *)
(*                                                                         *)
(* A tool's name is the sequence of the parts between its separators: a    *)
(* builtin has one part, mcp__server__tool is <<server, tool>>.  The first *)
(* separator ends the server; a server of the configuration is itself a    *)
(* sequence, since its name may contain the separator.  Parts are not      *)
(* empty.                                                                  *)
(***************************************************************************)
EXTENDS Analyzer

CONSTANT Heuristic   \* heuristic_tokens_per_tool
ASSUME McpWasteAssumption == Heuristic \in Nat

(* ToolSource::infer; split_full_name, short_name.                         *)
IsMcp(name) == Len(name) >= 2
ServerOf(name) == <<name[1]>>
Key(name) == <<ServerOf(name), Tail(name)>>
FullName(key) == key[1] \o key[2]

McpRows(rank) == {rank[i] : i \in {j \in DOMAIN rank : IsMcp(rank[j].name)}}

(* What is known to have been loaded: what the session announced, what the *)
(* configuration lists (server -> tools), and what was called.             *)
Announced(wire) == {Key(n) : n \in {m \in wire : IsMcp(m)}}
Configured(config) == UNION {{<<s, t>> : t \in config[s]} : s \in DOMAIN config}
Loaded(rank, wire, config) ==
  Announced(wire) \cup Configured(config) \cup {Key(r.name) : r \in McpRows(rank)}

LoadedSource(key, wire, config) ==
  IF key \in Announced(wire)
  THEN IF key \in Configured(config) THEN "both" ELSE "wire"
  ELSE IF key \in Configured(config) THEN "config" ELSE "inferred"

CallCount(rank, key) ==
  LET rows == {r \in McpRows(rank) : Key(r.name) = key}
  IN  IF rows = {} THEN 0 ELSE (CHOOSE r \in rows : TRUE).call_count

(* compute_token_cost_for_tool: the sidecar's description, or a guess.     *)
ToolWaste(key, rank, wire, config, sidecar) ==
  LET name == FullName(key)
      exact == name \in DOMAIN sidecar
  IN  [ tool_name |-> name,
        call_count |-> CallCount(rank, key),
        loaded_source |-> LoadedSource(key, wire, config),
        description_tokens |-> IF exact THEN sidecar[name] ELSE Heuristic,
        exact |-> exact ]

TokensOf(tools) == MapThenSumSet(LAMBDA t : t.description_tokens, tools)

ServerWaste(server, tools) ==
  LET unused == {t \in tools : t.call_count = 0} IN
  [ server |-> server,
    tools |-> tools,
    loaded_count |-> Cardinality(tools),
    called_count |-> Cardinality(tools \ unused),
    unused_count |-> Cardinality(unused),
    is_fully_unused |-> unused = tools,
    loaded_tokens |-> TokensOf(tools),
    unused_tokens |-> TokensOf(unused) ]

(* Whether the token counts are the sidecar's or guesses.                  *)
Provenance(tools) ==
  LET exact == {t.exact : t \in UNION tools} IN
  IF TRUE \notin exact THEN "heuristic" ELSE IF FALSE \notin exact THEN "sidecar-exact" ELSE "mixed"

(* compute_waste: the servers with most unused tools first.                *)
ComputeWaste(rank, wire, config, sidecar) ==
  LET loaded == Loaded(rank, wire, config)
      servers == ByName({k[1] : k \in loaded})
      of(s) == {ToolWaste(k, rank, wire, config, sidecar) : k \in {j \in loaded : j[1] = s}}
      each == [i \in DOMAIN servers |-> ServerWaste(servers[i], of(servers[i]))]
  IN  [ server_waste |-> LargestFirst(each, "unused_count"),
        data_source |-> IF wire = {} THEN IF DOMAIN config = {} THEN "none" ELSE "config"
                        ELSE IF DOMAIN config = {} THEN "wire" ELSE "both",
        token_provenance |-> Provenance({of(servers[i]) : i \in DOMAIN servers}),
        total_loaded_tool_count |-> Total([i \in DOMAIN each |-> each[i].loaded_count]),
        total_unused_tool_count |-> Total([i \in DOMAIN each |-> each[i].unused_count]),
        total_loaded_tokens |-> Total([i \in DOMAIN each |-> each[i].loaded_tokens]),
        total_unused_tokens |-> Total([i \in DOMAIN each |-> each[i].unused_tokens]) ]

-----------------------------------------------------------------------------
(* aggregate_waste: the sessions' waste by server and by tool.             *)
ServersAcross(wastes) ==
  UNION {{w.server_waste[i] : i \in DOMAIN w.server_waste} : w \in ToSet(wastes)}

(* Of each session's waste, the row of a server and of a tool, if any.     *)
RowsOf(wastes, server) ==
  LET rows(w) == SelectSeq(w.server_waste, LAMBDA row : row.server = server)
  IN  FoldLeft(LAMBDA s, w : s \o rows(w), <<>>, wastes)

ToolAcross(rows, name) ==
  LET uses == [i \in DOMAIN rows |-> {t \in rows[i].tools : t.tool_name = name}]
      calls == [i \in DOMAIN rows |-> MapThenSumSet(LAMBDA t : t.call_count, uses[i])]
  IN  [ tool_name |-> name,
        sessions_loaded |-> Count(uses, LAMBDA u : u # {}),
        sessions_called |-> Count(calls, LAMBDA n : n > 0),
        total_call_count |-> Total(calls) ]

ServerAcross(wastes, server) ==
  LET rows == RowsOf(wastes, server)
      names == UNION {{t.tool_name : t \in rows[i].tools} : i \in DOMAIN rows}
  IN  [ server |-> server,
        sessions_loaded |-> Len(rows),
        sessions_with_zero_calls |-> Count(rows, LAMBDA r : r.is_fully_unused),
        tool_usage |-> {ToolAcross(rows, n) : n \in names},
        total_unused_tokens |-> Total([i \in DOMAIN rows |-> rows[i].unused_tokens]) ]

WrongNeverCalled(rows) ==
  {t.tool_name : t \in {u \in UNION {r.tool_usage : r \in rows} :
                          u.sessions_called < u.sessions_loaded}}
NeverCalled(rows) ==
  {t.tool_name : t \in {u \in UNION {r.tool_usage : r \in rows} : u.sessions_called = 0}}

AggregateWaste(wastes) ==
  LET servers == ByName({row.server : row \in ServersAcross(wastes)})
      rows == [i \in DOMAIN servers |-> ServerAcross(wastes, servers[i])]
  IN  [ sessions |-> Len(wastes),
        per_server |-> LargestFirst(rows, "sessions_with_zero_calls"),
        never_called_tools |-> NeverCalled(ToSet(rows)),
        total_unused_tokens |-> Total([i \in DOMAIN rows |-> rows[i].total_unused_tokens]) ]
=============================================================================
