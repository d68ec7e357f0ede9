---------------------------- MODULE MCOtlpReport ----------------------------
(* Signals of one session (tools are numbers): calls of two tools as logs,  *)
(* one as a span, token usage that is sent twice, a start, an end and a     *)
(* record with a session id that is too long.                               *)
EXTENDS OtlpReport

Resource == [session_id |-> "s", claude_session_id |-> "absent", service |-> "claude-code",
             agent |-> "absent", model |-> "absent"]
NoRec == [session_id |-> "absent"]
Log(e, t, tool) == [of |-> "log", event |-> e, time |-> t, observed |-> 0, res |-> Resource,
                    rec |-> NoRec, model |-> "m", key |-> <<tool, "1">>, approved |-> "yes", success |-> "no"]
Point(d, n) == [time |-> 1, token_type |-> d, direction |-> "absent", model |-> "m",
                value |-> n, rec |-> NoRec]

Usages == [of |-> "metric", name |-> "agent.token.usage", data |-> "sum", res |-> Resource,
           points |-> <<Point("input", 2), Point("output", NotANumber), Point("prompt", 2)>>]

Span(session_event, key, start, end) ==
  [of |-> "span", name |-> "tool.execute", operation |-> "absent", session_event |-> session_event,
   start |-> start, end |-> end, error |-> FALSE, res |-> [Resource EXCEPT !.session_id = ""],
   rec |-> [session_id |-> "s"], model |-> "m", key |-> key, approved |-> "absent"]

MCSignal == {
  Log("tool_decision", 1, 1), [Log("tool.result", 3, 1) EXCEPT !.success = "absent"],
  [Log("tool.decision", 2, 2) EXCEPT !.res.claude_session_id = "long"],
  Span("absent", <<3, "">>, 2, 1), Usages,
  [Log("session.start", 0, 0) EXCEPT !.observed = 1],
  Span("end", <<0, "">>, 1, 3), [Log("session.end", 2, 0) EXCEPT !.res.session_id = "long"] }
MCSends == [x \in MCSignal |-> IF x = Usages THEN 2 ELSE 1]
=============================================================================
