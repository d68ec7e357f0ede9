----------------------------- MODULE OtlpMapper -----------------------------
(***************************************************************************)
(* The OTLP mapper (otlp/mapper.rs): what typed events a log record, a     *)
(* metric or a span becomes.  An attribute is a field of a record and      *)
(* Absent when the signal does not carry it; "long" stands for a session   *)
(* id of more than 256 bytes, Overflow for nanoseconds beyond an i64 and   *)
(* NotANumber for a negative, infinite or missing token count.             *)
(***************************************************************************)
EXTENDS Integers, Sequences

CONSTANTS Absent, Overflow, NotANumber

Refused == [type |-> "error"]
Unrecognized == [type |-> "unrecognized"]

(* Attribute values: of two keys, the first that is there. *)
Or(a, b) == IF a = Absent THEN b ELSE a
Later(a, b) == IF Overflow \in {a, b} THEN Overflow ELSE IF a > b THEN a ELSE b

(* extract_session_id: an empty id is skipped, a long one is refused even  *)
(* if a later key has a good one.                                          *)
SessionIds(res, rec) ==
  SelectSeq(<<res.session_id, res.claude_session_id, rec.session_id>>,
            LAMBDA id : id \notin {Absent, ""})
HasSession(res, rec) == /\ SessionIds(res, rec) # <<>>
                        /\ Head(SessionIds(res, rec)) # "long"
SessionIdOf(res, rec) == Head(SessionIds(res, rec))

(* resolve_agent_kind: Copilot is what nothing else claims. *)
AgentKind(res) == IF res.service = "claude-code" \/ res.agent = "claude" THEN "Claude"
                  ELSE IF res.service = "codex-cli" \/ res.agent = "codex" THEN "Codex"
                  ELSE "Copilot"

-----------------------------------------------------------------------------
(* Logs: the name without its claude_code. prefix decides. *)
LogNames == [start |-> {"session.start"}, end |-> {"session.end"},
             prompt |-> {"user.prompt", "user_prompt"},
             decision |-> {"tool.decision_start", "tool_decision", "tool.decision"},
             result |-> {"tool.result", "tool_result"}]

LogEvent(log, s, ts) ==
  CASE log.event \in LogNames.start ->
         [type |-> "start", session |-> s, ts |-> ts, agent |-> AgentKind(log.res), model |-> log.model]
    [] log.event \in LogNames.end -> [type |-> "end", session |-> s, ts |-> ts]
    [] log.event \in LogNames.prompt -> [type |-> "prompt", session |-> s, ts |-> ts]
    [] log.event \in LogNames.decision ->
         [type |-> "decision", session |-> s, ts |-> ts, key |-> log.key, approved |-> log.approved = "yes"]
    [] log.event \in LogNames.result ->
         [type |-> "result", session |-> s, ts |-> ts, key |-> log.key,
          status |-> IF log.success = "no" THEN "failure" ELSE "success"]

(* The timestamp is refused before the name is looked at. *)
MapLog(log) ==
  LET ts == Later(log.time, log.observed)
      known == log.event \in UNION {LogNames[k] : k \in DOMAIN LogNames}
  IN
  IF ts = Overflow THEN <<Refused>>
  ELSE IF ~known THEN <<Unrecognized>>
  ELSE IF ~HasSession(log.res, log.rec) THEN <<Refused>>
  ELSE <<LogEvent(log, SessionIdOf(log.res, log.rec), ts)>>

-----------------------------------------------------------------------------
(* Metrics: the data points of a token usage counter or gauge. *)
TokenMetrics == {"gen_ai.client.token.usage", "agent.token.usage", "claude_code.token.usage"}
Direction(name) == CASE name \in {"input", "prompt"} -> "input"
                     [] name \in {"output", "completion"} -> "output"
                     [] name \in {"cache_read", "cache.read"} -> "cache_read"
                     [] name \in {"cache_create", "cache_creation", "cache.create"} -> "cache_write"
                     [] OTHER -> "unknown"

MapPoint(point, res) ==
  IF \/ ~HasSession(res, point.rec)
     \/ point.time = Overflow
     \/ Direction(Or(point.token_type, point.direction)) = "unknown"
     \/ point.value = NotANumber
  THEN Refused
  ELSE [type |-> "tokens", session |-> SessionIdOf(res, point.rec), ts |-> point.time,
        model |-> Or(point.model, Or(res.model, "")),
        direction |-> Direction(Or(point.token_type, point.direction)), value |-> point.value]

MapMetric(metric) ==
  IF metric.name \notin TokenMetrics \/ metric.data \notin {"sum", "gauge"}
  THEN <<Unrecognized>>
  ELSE [i \in DOMAIN metric.points |-> MapPoint(metric.points[i], metric.res)]

-----------------------------------------------------------------------------
(* Spans: session markers first, then tool executions, which become a pair *)
(* whose result is never before its decision.                              *)
MapSessionStart(span) ==
  IF ~HasSession(span.res, span.rec) \/ span.start = Overflow THEN Refused
  ELSE [type |-> "start", session |-> SessionIdOf(span.res, span.rec), ts |-> span.start,
        agent |-> AgentKind(span.res), model |-> span.model]

MapSessionEnd(span) ==
  IF ~HasSession(span.res, span.rec) \/ Later(span.start, span.end) = Overflow THEN Refused
  ELSE [type |-> "end", session |-> SessionIdOf(span.res, span.rec), ts |-> Later(span.start, span.end)]

WrongToolPair(span) ==
  LET s == SessionIdOf(span.res, span.rec) IN
  IF ~HasSession(span.res, span.rec) \/ Overflow \in {span.start, span.end} THEN <<Refused, Refused>>
  ELSE <<[type |-> "decision", session |-> s, ts |-> span.start, key |-> span.key,
          approved |-> span.approved = "yes"],
         [type |-> "result", session |-> s, ts |-> span.end, key |-> span.key,
          status |-> IF span.error THEN "failure" ELSE "success"]>>

ToolPair(span) ==
  LET s == SessionIdOf(span.res, span.rec) IN
  IF ~HasSession(span.res, span.rec) \/ Overflow \in {span.start, span.end} THEN <<Refused, Refused>>
  ELSE <<[type |-> "decision", session |-> s, ts |-> span.start, key |-> span.key,
          approved |-> span.approved = "yes"],
         [type |-> "result", session |-> s, ts |-> Later(span.start, span.end), key |-> span.key,
          status |-> IF span.error THEN "failure" ELSE "success"]>>

MapSpan(span) ==
  CASE span.session_event \in {"session.start", "start"} -> <<MapSessionStart(span)>>
    [] span.session_event \in {"session.end", "end"} -> <<MapSessionEnd(span)>>
    [] span.session_event \notin {"session.start", "start", "session.end", "end"}
         /\ "tool.execute" \in {span.operation, span.name} -> ToolPair(span)
    [] OTHER -> <<Unrecognized>>

(* map_logs, map_metrics and map_traces, for one record of a request. *)
Mapped(signal) == CASE signal.of = "log" -> MapLog(signal)
                    [] signal.of = "metric" -> MapMetric(signal)
                    [] signal.of = "span" -> MapSpan(signal)
=============================================================================
