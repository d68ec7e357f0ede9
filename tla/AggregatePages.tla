--------------------------- MODULE AggregatePages ---------------------------
(***************************************************************************)
(* What a reader sees of an aggregate: the markdown, CSV and HTML of       *)
(* aggregate (agentprof-cli, cmd/format/aggregate_*.rs) and the table of   *)
(* aggregate --export tui (agentprof-tui, views/aggregate.rs).  A format   *)
(* is the columns that it has for each dimension.                          *)
(***************************************************************************)
EXTENDS Aggregate, ReportPages

CONSTANT LowUtilization   \* --low-utilization-threshold, percent
ASSUME AggregatePagesAssumption == LowUtilization \in Nat

(* AggregateReport::cache_metrics_per_bucket, by the bucket's key.         *)
SupportsCacheAttribution(by) == by \in {"model", "day"}
CacheMetricsPerBucket(r) ==
  LET of(b) == CacheMetrics(b.cache_creation, b.cache_read, b.input_tokens)
      buckets == IF SupportsCacheAttribution(r.by) THEN r.buckets ELSE <<>>
  IN  [k \in {buckets[i].key : i \in {j \in DOMAIN buckets : of(buckets[j]) # <<>>}} |->
        of(buckets[Max({i \in DOMAIN buckets : buckets[i].key = k /\ of(buckets[i]) # <<>>})])[1]]

-----------------------------------------------------------------------------
ToolColumns == {"key", "call_count", "success_count", "failure_count", "total_duration",
                "p50_duration", "p95_duration", "session_count"}
ServerColumns == {"key", "tool_count", "call_count", "failure_count", "total_duration",
                  "session_count", "unused_tool_count", "fully_unused_session_count", "wasted_tokens"}
CacheColumns == {"cache_creation", "cache_read", "hit_pct_honest", "saved_net"}

MdColumns(by) ==
  CASE by = "tool"       -> ToolColumns
    [] by = "mcp-server" -> ServerColumns
    [] by = "day"        -> {"key", "session_count", "wall", "tool_time", "output_tokens",
                             "is_low_utilization", "utilization"} \cup CacheColumns
    [] by = "model"      -> {"key", "session_count", "turn_count", "output_tokens", "wall"} \cup CacheColumns

CsvColumns(by) ==
  CASE by = "tool"       -> ToolColumns
    [] by = "mcp-server" -> ServerColumns
    [] by = "day"        -> {"key", "session_count", "wall", "tool_time", "output_tokens", "utilization",
                             "is_low_utilization"} \cup CacheColumns
    [] by = "model"      -> {"key", "session_count", "turn_count", "output_tokens", "wall"} \cup CacheColumns

HtmlColumns(by) ==
  CASE by = "tool"       -> ToolColumns
    [] by = "mcp-server" -> ServerColumns
    [] by = "day"        -> {"is_low_utilization", "key", "session_count", "wall", "tool_time",
                             "output_tokens", "utilization"} \cup CacheColumns
    [] by = "model"      -> {"key", "session_count", "turn_count", "output_tokens", "wall"} \cup CacheColumns

TuiColumns(by) ==
  CASE by = "tool"       -> ToolColumns \ {"success_count", "failure_count"}
    [] by = "mcp-server" -> ServerColumns \ {"tool_count", "failure_count"}
    [] by = "day"        -> {"key", "session_count", "wall", "tool_time", "utilization", "is_low_utilization"}
    [] by = "model"      -> {"key", "session_count", "wall"}

(* A cell: a bucket's field, or what is computed for it; a bucket without  *)
(* cache traffic has blank ones.                                           *)
Cell(b, column, metrics, parts) ==
  LET of(f(_)) == IF b.key \in DOMAIN metrics THEN <<f(metrics[b.key])>> ELSE <<>>
  IN  CASE column = "hit_pct_honest"     -> of(LAMBDA m : Percent(m.hit_rate_honest, parts))
        [] column = "saved_net"          -> of(LAMBDA m : m.saved_net)
        [] column = "is_low_utilization" -> b.utilization < LowUtilization
        [] OTHER                         -> b[column]
Table(buckets, columns, metrics, parts) ==
  [i \in DOMAIN buckets |-> [c \in columns |-> Cell(buckets[i], c, metrics, parts)]]

(* Failures are named if there are any; the CSV has nothing but the table, *)
(* and rates with one digit more.                                          *)
Meta(r) == [by |-> r.by, session_count |-> r.session_count, wall |-> r.total_wall]
Failures(r) == IF r.failure_count > 0 THEN <<r.failure_count>> ELSE <<>>
MdAggregate(r) ==
  [ meta |-> Meta(r), failures |-> Failures(r),
    rows |-> Table(r.buckets, MdColumns(r.by), CacheMetricsPerBucket(r), 10) ]
CsvAggregate(r) == [rows |-> Table(r.buckets, CsvColumns(r.by), CacheMetricsPerBucket(r), 100)]
HtmlAggregate(r) ==
  [ meta |-> Meta(r), failures |-> Failures(r), threshold_visible |-> r.by = "day",
    rows |-> Table(r.buckets, HtmlColumns(r.by), CacheMetricsPerBucket(r), 10) ]

-----------------------------------------------------------------------------
(* render_tool_buckets and its siblings: what a sort key (AggSortKey) is   *)
(* for a dimension; days stay as they are.                                 *)
SortField(by, sort) ==
  CASE by = "tool"       -> [c |-> "call_count", t |-> "total_duration", s |-> "session_count",
                             p |-> "p50_duration"][sort]
    [] by = "mcp-server" -> [c |-> "call_count", t |-> "total_duration", s |-> "session_count",
                             p |-> "total_duration"][sort]
    [] by = "model"      -> IF sort = "s" THEN "session_count" ELSE "wall"
SortedFor(r, sort) ==
  IF r.by = "day" THEN r.buckets
  ELSE LET f == SortField(r.by, sort) IN StablySorted(r.buckets, LAMBDA a, b : a[f] > b[f])

(* render_cross_session; a selection past the rows highlights none.        *)
CrossSession(r, sort, selected) ==
  LET rows == Table(SortedFor(r, sort), TuiColumns(r.by), <<>>, 10) IN
  [ by |-> r.by, sessions |-> r.session_count,
    rows |-> [i \in DOMAIN rows |-> [cells |-> rows[i], highlighted |-> i = selected + 1]] ]
=============================================================================
