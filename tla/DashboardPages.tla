--------------------------- MODULE DashboardPages ---------------------------
(***************************************************************************)
(* The same sessions as a table of `agentprof list` (agentprof-cli,        *)
(* cmd/list.rs) and as the pages of the dashboard (cmd/serve/handlers.rs). *)
(* The dashboard reads reports and episodes from the store, knows neither  *)
(* mcp.json nor descriptions of tools, and shows a limited number of rows. *)
(***************************************************************************)
EXTENDS AggregatePages, WastePages

CONSTANTS
  SessionsLimit,   \* SESSIONS_RENDER_LIMIT
  BucketsLimit     \* the limit its aggregates are computed with
ASSUME DashboardPagesAssumption == SessionsLimit \in Nat /\ BucketsLimit \in Nat \ {0}

FirstModel(turns) ==
  LET named == SelectSeq(turns, LAMBDA t : t.model # None)
  IN  IF named = <<>> THEN None ELSE named[1].model
Span(turns) == IF turns = <<>> THEN <<>> ELSE <<Last(turns).started_at - turns[1].started_at>>
HitRate(usage) ==
  LET m == SessionCache(usage) IN [i \in DOMAIN m |-> Percent(m[i].hit_rate_honest, 10)]

(* analyze_one                                                             *)
ListRow(report) ==
  [ id |-> report.id, started_at |-> report.started_at, turns |-> Len(report.turns),
    model |-> FirstModel(report.turns),
    output_tokens |-> Total([k \in DOMAIN report.turns |-> report.turns[k].output_tokens]),
    cache_pct |-> HitRate(report.usage),
    duration |-> Span(report.turns) ]

(* format_table: a duration is printed without its sign.                   *)
HumanDuration(d) == IF d < 0 THEN -d ELSE d
ListTable(rows) ==
  [i \in DOMAIN rows |-> [rows[i] EXCEPT !.duration = [k \in DOMAIN @ |-> HumanDuration(@[k])]]]

-----------------------------------------------------------------------------
(* format_chrono_duration: of a negative one there is nothing to see.      *)
ChronoDuration(span) == SelectSeq(span, LAMBDA d : d >= 0)

WrongSessionRow(report) ==
  [ id |-> report.id, started_at |-> report.started_at, turns |-> Len(report.turns),
    model |-> IF report.turns = <<>> THEN None ELSE report.turns[1].model,
    output_tokens |-> Total([k \in DOMAIN report.turns |-> report.turns[k].output_tokens]),
    cache_pct |-> HitRate(report.usage),
    duration |-> ChronoDuration(Span(report.turns)) ]
(* session_row_from_report                                                 *)
SessionRow(report) ==
  [ id |-> report.id, started_at |-> report.started_at, turns |-> Len(report.turns),
    model |-> FirstModel(report.turns),
    output_tokens |-> Total([k \in DOMAIN report.turns |-> report.turns[k].output_tokens]),
    cache_pct |-> HitRate(report.usage),
    duration |-> ChronoDuration(Span(report.turns)) ]

(* load_sessions                                                           *)
SessionsPage(reports) ==
  [i \in 1..Min({SessionsLimit, Len(reports)}) |-> SessionRow(reports[i])]

(* load_session_for_dashboard: the waste is left to pages of its own.      *)
SessionPage(report, hooks) ==
  [ model |-> FirstModel(report.turns), started_at |-> report.started_at,
    duration |-> ChronoDuration(Span(report.turns)), turn_count |-> Len(report.turns),
    body |-> HtmlPage(report, hooks, {"turn-summary", "tool-rank", "hook-rank"}, <<>>) ]

-----------------------------------------------------------------------------
Ok(page) == [status |-> 200, page |-> <<page>>]
Refused(status) == [status |-> status, page |-> <<>>]

(* compute_aggregate_from_store, for a key that parse_by lets through.     *)
StoreAggregate(by, pairs, failures) ==
  LET buckets == CASE by = "tool" -> ByTool(pairs)
                   [] by = "day" -> ByDay(pairs)
                   [] by = "model" -> ByModel(pairs)
  IN  [ by |-> by, session_count |-> Len(pairs), failure_count |-> failures,
        total_wall |-> TotalWall(pairs),
        buckets |-> SubSeq(buckets, 1, Min({BucketsLimit, Len(buckets)})) ]

(* load_aggregate_for_dashboard                                            *)
AggregatePage(by, pairs, failures) ==
  IF by \notin {"tool", "model", "day"} THEN Refused(400)
  ELSE IF pairs = <<>> /\ failures > 0 THEN Refused(500)
  ELSE LET report == StoreAggregate(by, pairs, failures)
       IN  Ok([ session_count |-> report.session_count, failures |-> Failures(report),
                body |-> HtmlAggregate(report) ])

(* compute_aggregate_waste_from_store                                      *)
NoDescriptions == LoadSidecar([kind |-> "none"])[1]
StoreWaste(reports) ==
  LET of(report) == ComputeWaste(report.rank, report.loaded, ConfiguredTools([shape |-> "absent"]),
                                 Costs(NoDescriptions, report.usage))
  IN  AggregateWaste(FoldLeft(LAMBDA wastes, r : Append(wastes, of(r)), <<>>, reports))

(* server_rows, tool_rows                                                  *)
ServerRow(s) ==
  [ server |-> s.server, sessions_loaded |-> s.sessions_loaded,
    sessions_with_zero_calls |-> s.sessions_with_zero_calls,
    tools |-> Cardinality(s.tool_usage), total_unused_tokens |-> s.total_unused_tokens ]
ToolRows(s) ==
  {[f \in {"tool_name", "sessions_loaded", "sessions_called", "total_call_count"} |-> t[f]] :
     t \in s.tool_usage}

(* mcp_waste_list_page, mcp_waste_detail_page                              *)
WasteListPage(agg) ==
  Ok([ session_count |-> agg.sessions,
       per_server |-> [i \in DOMAIN agg.per_server |-> ServerRow(agg.per_server[i])] ])
WasteDetailPage(agg, server) ==
  LET found == SelectSeq(agg.per_server, LAMBDA s : s.server = server)
  IN  IF found = <<>> THEN Refused(404)
      ELSE Ok([session_count |-> agg.sessions, head |-> ServerRow(found[1]), tools |-> ToolRows(found[1])])
=============================================================================
