----------------------------- MODULE WastePages -----------------------------
(***************************************************************************)
(* What the waste of MCP tools is computed from besides the sessions, and  *)
(* the page it becomes: mcp.json and the tools' descriptions               *)
(* (agentprof-adapters, copilot/mcp_config.rs and tool_sidecar.rs), the    *)
(* encoding tokens are counted by (agentprof-cli, cmd/model_hint.rs) and   *)
(* the pages of mcp-waste (cmd/mcp_waste.rs).                              *)
(*                                                                         *)
(* A description is what counts of it: encoding -> tokens.  What may be    *)
(* missing is a sequence of at most one.                                   *)
(***************************************************************************)
EXTENDS McpWaste

CONSTANT O200kModel   \* the models of the families gpt-5, gpt-4o, o1 and o3

-----------------------------------------------------------------------------
(* load_mcp_config: the shape with mcpServers has names only, a file of    *)
(* neither shape has no servers, and one that cannot be read or parsed     *)
(* counts as absent.                                                       *)
LoadMcpConfig(file) ==
  CASE file.shape \in {"absent", "unreadable", "malformed"} -> <<>>
    [] file.shape = "mcpServers" -> <<[s \in DOMAIN file.servers |-> <<>>]>>
    [] file.shape = "servers" -> <<file.servers>>
    [] file.shape = "other" -> <<[s \in {} |-> <<>>]>>

(* cfg_map: the servers whose tools are listed.                            *)
ConfiguredTools(file) ==
  LET parsed == LoadMcpConfig(file)
      listed == IF parsed = <<>> THEN {}
                ELSE {s \in DOMAIN parsed[1] : parsed[1][s] # <<>>}
  IN  [s \in listed |-> parsed[1][s][1]]

(* load_global_file, load_per_server_dir: the entries one after the other, *)
(* so that of two with one full name the later stays.  A directory's       *)
(* files come in any order; its files that are not *.json, cannot be read  *)
(* or are neither a list nor {"tools": list} are passed over, while a      *)
(* single file has to parse.                                               *)
Entries(servers) ==
  FlattenSeq([i \in DOMAIN servers |->
    [j \in DOMAIN servers[i].tools |->
      [name |-> servers[i].server \o servers[i].tools[j].name,
       text |-> servers[i].tools[j].text]]])
ByFullName(entries) ==
  LET last(n) == Max({i \in DOMAIN entries : entries[i].name = n})
  IN  [n \in {entries[i].name : i \in DOMAIN entries} |-> entries[last(n)].text]

LoadSidecar(path) ==
  CASE path.kind = "none" -> <<[n \in {} |-> {}]>>   \* --tool-descriptions is not given
    [] path.kind \in {"missing", "unreadable", "special", "malformed"} -> <<>>
    [] path.kind = "file" -> <<ByFullName(Entries(path.servers))>>
    [] path.kind = "dir" ->
         <<ByFullName(Entries(SelectSeq(path.servers, LAMBDA f : f.state \in {"list", "wrapped"})))>>

(* dominant_model: of most tokens, and of equals the first by name.        *)
ModelTokens(u) == u.input + u.output + u.read + u.write
DominantModel(usage) ==
  {m \in DOMAIN usage : \A n \in DOMAIN usage \ {m} :
     \/ ModelTokens(usage[n]) < ModelTokens(usage[m])
     \/ ModelTokens(usage[n]) = ModelTokens(usage[m]) /\ Before(m, n)}

InferTokenizer(usage) ==
  IF DominantModel(usage) \cap O200kModel # {} THEN "o200k_base" ELSE "cl100k_base"

(* compute_token_cost_for_tool with the encoder of the session's model.    *)
Costs(described, usage) ==
  [n \in DOMAIN described |-> described[n][InferTokenizer(usage)]]

-----------------------------------------------------------------------------
(* What a session pays for a tool, at most: the sessions' encodings differ.*)
ToolTokens(wastes) ==
  LET tools == UNION {UNION {row.tools : row \in ToSet(wastes[i].server_waste)} : i \in DOMAIN wastes}
      costs(n) == {t.description_tokens : t \in {u \in tools : u.tool_name = n}}
  IN  [n \in {t.tool_name : t \in tools} |-> Max(costs(n))]

(* lookup: of the servers a name belongs to, the last in the table.        *)
ServerOfTool(agg, name) ==
  LET has(i) == {t \in agg.per_server[i].tool_usage : t.tool_name = name}
      at == Max({i \in DOMAIN agg.per_server : has(i) # {}})
  IN  [ server |-> agg.per_server[at].server,
        sessions_loaded |-> (CHOOSE t \in has(at) : TRUE).sessions_loaded ]

(* The first never-called tools by name.                                   *)
AlwaysUnused(agg, top, tokens) ==
  LET names == ByName(agg.never_called_tools)
      row(n) == ServerOfTool(agg, n) @@ [tool |-> n, tokens |-> tokens[n]]
  IN  [i \in 1..Min({top, Len(names)}) |-> row(names[i])]

(* max_by_key: of equals the last.                                         *)
LargestWaste(agg) ==
  LET wasteful == SelectSeq(agg.per_server, LAMBDA s : s.total_unused_tokens > 0)
      most == Max({wasteful[i].total_unused_tokens : i \in DOMAIN wasteful})
      at == Max({i \in DOMAIN wasteful : wasteful[i].total_unused_tokens = most})
  IN  IF wasteful = <<>> THEN <<>>
      ELSE <<[ server |-> wasteful[at].server, tokens |-> most,
               sessions_loaded |-> wasteful[at].sessions_loaded ]>>

PerServer(agg) ==
  [i \in DOMAIN agg.per_server |->
    LET s == agg.per_server[i] IN
    [ server |-> s.server, sessions_loaded |-> s.sessions_loaded,
      sessions_with_zero_calls |-> s.sessions_with_zero_calls,
      calls |-> MapThenSumSet(LAMBDA t : t.total_call_count, s.tool_usage),
      tokens |-> s.total_unused_tokens ]]

(* render_md; render_html has the table of unused tools also when it is    *)
(* empty, and heads it with the number that was asked for.                 *)
WasteMarkdown(agg, top, tokens) ==
  LET never == Cardinality(agg.never_called_tools) IN
  [ sessions |-> agg.sessions, servers |-> Len(agg.per_server), never_called |-> never,
    total_tokens |-> agg.total_unused_tokens, largest |-> LargestWaste(agg),
    top |-> Min({top, never}), unused |-> AlwaysUnused(agg, top, tokens),
    table |-> never > 0, per_server |-> PerServer(agg) ]
WasteHtml(agg, top, tokens) ==
  [WasteMarkdown(agg, top, tokens) EXCEPT !.top = top, !.table = TRUE]
=============================================================================
