----------------------------- MODULE Aggregate ------------------------------
(***************************************************************************)
(* aggregate_by_* (agentprof-core, analyzer/aggregate/): the buckets over  *)
(* many sessions.  A session comes as a pair: its report (id, started_at,  *)
(* turns, rank, usage, loaded) and its episodes (Analyzer's record, with   *)
(* the mode segments).  Token counts do not saturate here.                 *)
(***************************************************************************)
EXTENDS McpWaste

CONSTANTS
  DayLength,       \* instants in a day
  None             \* no end, no model
ASSUME AggregateAssumption == DayLength \in Nat \ {0}

(* compute_wall                                                            *)
Wall(e) ==
  Max({e.start} \cup Ends(e)
        \cup {e.segments[k].to : k \in {j \in DOMAIN e.segments : e.segments[j].to # None}})
    - e.start

Over(pairs, f(_)) == Total([i \in DOMAIN pairs |-> f(pairs[i])])
TotalWall(pairs) == Over(pairs, LAMBDA p : Wall(p.episodes))

(* The row of the ranking of a name; a session without it adds nothing.    *)
RankedAs(p, name) == SelectSeq(p.report.rank, LAMBDA r : r.name = name)
OfRows(pairs, name, f(_)) ==
  Over(pairs, LAMBDA p : Total([i \in DOMAIN RankedAs(p, name) |-> f(RankedAs(p, name)[i])]))
Ranked(pairs) == UNION {{p.report.rank[i].name : i \in DOMAIN p.report.rank} : p \in ToSet(pairs)}

(* aggregate_by_tool: percentiles are over the calls of all sessions whose *)
(* ranking has the tool.                                                   *)
ToolBucket(pairs, name) ==
  LET pool(p) == IF RankedAs(p, name) # <<>> /\ name \in DOMAIN p.episodes.tools
                 THEN [i \in DOMAIN p.episodes.tools[name] |-> Duration(p.episodes.tools[name][i])]
                 ELSE <<>>
      durations == StablySorted(FoldLeft(LAMBDA s, p : s \o pool(p), <<>>, pairs),
                                LAMBDA a, b : a < b)
  IN  [ key |-> name,
        call_count |-> OfRows(pairs, name, LAMBDA r : r.call_count),
        success_count |-> OfRows(pairs, name, LAMBDA r : r.success_count),
        failure_count |-> OfRows(pairs, name, LAMBDA r : r.failure_count),
        total_duration |-> OfRows(pairs, name, LAMBDA r : r.total_duration),
        p50_duration |-> Percentile(durations, 50),
        p95_duration |-> Percentile(durations, 95),
        session_count |-> Count(pairs, LAMBDA p : RankedAs(p, name) # <<>>) ]

ByTool(pairs) ==
  LET names == ByName(Ranked(pairs))
  IN  LargestFirst([k \in DOMAIN names |-> ToolBucket(pairs, names[k])], "total_duration")

(* aggregate_by_mcp_server: servers that were called, and those that were  *)
(* only loaded.                                                            *)
ServerBucket(pairs, wastes, server) ==
  LET names == {n \in Ranked(pairs) : IsMcp(n) /\ ServerOf(n) = server}
      ofNames(f(_)) == MapThenSumSet(LAMBDA n : OfRows(pairs, n, f), names)
      rows == RowsOf(wastes, server)
  IN  [ key |-> server,
        tool_count |-> Cardinality(names),
        call_count |-> ofNames(LAMBDA r : r.call_count),
        failure_count |-> ofNames(LAMBDA r : r.failure_count),
        total_duration |-> ofNames(LAMBDA r : r.total_duration),
        session_count |-> Count(pairs, LAMBDA p : \E n \in names : RankedAs(p, n) # <<>>),
        unused_tool_count |-> Total([i \in DOMAIN rows |-> rows[i].unused_count]),
        fully_unused_session_count |-> Count(rows, LAMBDA r : r.is_fully_unused),
        wasted_tokens |-> Total([i \in DOMAIN rows |-> rows[i].unused_tokens]) ]

ByServer(pairs, wastes) ==
  LET called == {ServerOf(n) : n \in {m \in Ranked(pairs) : IsMcp(m)}}
      servers == ByName(called \cup {row.server : row \in ServersAcross(wastes)})
  IN  LargestFirst([k \in DOMAIN servers |-> ServerBucket(pairs, wastes, servers[k])],
                   "total_duration")

(* What a set of sessions adds up to, for days and models alike.           *)
OutputTokens(p) == Over(p.report.turns, LAMBDA t : t.output_tokens)
UsageOf(p, f(_)) == MapThenSumSet(LAMBDA m : f(p.report.usage[m]), DOMAIN p.report.usage)
Sums(pairs) ==
  [ session_count |-> Len(pairs),
    output_tokens |-> Over(pairs, OutputTokens),
    input_tokens |-> Over(pairs, LAMBDA p : UsageOf(p, LAMBDA u : u.input)),
    cache_read |-> Over(pairs, LAMBDA p : UsageOf(p, LAMBDA u : u.read)),
    cache_creation |-> Over(pairs, LAMBDA p : UsageOf(p, LAMBDA u : u.write)),
    wall |-> TotalWall(pairs) ]

(* aggregate_by_model: a session counts for the model of its first turn,   *)
(* one without for none.                                                   *)
HasModel(p) == p.report.turns # <<>> /\ p.report.turns[1].model # None
Turns(pairs) == Over(pairs, LAMBDA p : Len(p.report.turns))
ModelBucket(pairs, model) ==
  LET those == SelectSeq(pairs, LAMBDA p : HasModel(p) /\ p.report.turns[1].model = model)
  IN  [key |-> model, turn_count |-> Turns(those)] @@ Sums(those)
ByModel(pairs) ==
  LET models == ByName({p.report.turns[1].model : p \in {q \in ToSet(pairs) : HasModel(q)}})
  IN  LargestFirst([k \in DOMAIN models |-> ModelBucket(pairs, models[k])], "session_count")

(* aggregate_by_day: in the order of the days.                             *)
Day(p) == p.report.started_at \div DayLength
ToolTime(e) == MapThenSumSet(LAMBDA n : Total([i \in DOMAIN e.tools[n] |-> Duration(e.tools[n][i])]),
                             DOMAIN e.tools)
DayBucket(pairs, day) ==
  LET those == SelectSeq(pairs, LAMBDA p : Day(p) = day)
      tools == Over(those, LAMBDA p : ToolTime(p.episodes))
      wall == TotalWall(those)
  IN  [key |-> day, tool_time |-> tools,
       utilization |-> IF wall > 0 THEN Min({100, (tools * 100) \div wall}) ELSE 0] @@ Sums(those)
ByDay(pairs) ==
  LET days == SetToSortSeq({Day(p) : p \in ToSet(pairs)}, LAMBDA a, b : a < b)
  IN  [k \in DOMAIN days |-> DayBucket(pairs, days[k])]
=============================================================================
