--------------------------- MODULE DeriveEpisodes ---------------------------
(***************************************************************************)
(* derive_episodes (agentprof-core, episode/derive.rs): the state machine  *)
(* that folds a session's events into turns, tool calls, hook calls, skill *)
(* invocations and mode segments.  Telemetry is dirty, so the next event   *)
(* may be of any kind: ends without starts, starts without ends, aborts,   *)
(* clocks that go back.  An action is one event and its whole handler,     *)
(* with observe_timestamp before it and bump_skill_windows after it; the   *)
(* iterations of finalize are actions once the events have ended.          *)
(*                                                                         *)
(* An event is identified by its position in the stream, a turn by its     *)
(* position in `turns` (turn ids are event ids, hence distinct).           *)
(***************************************************************************)
EXTENDS Naturals, Sequences, FiniteSets, SequencesExt

CONSTANTS
  ToolName, HookName, SkillName,
  OrphanName,     \* ORPHAN_TOOL_SENTINEL
  CallId,         \* tool_call_id values
  None,           \* an absent value
  Mode, Interactive,
  Model, Tokens,  \* what an assistant message says of its model and output
  Usage,          \* the per-model usage a shutdown reports
  McpTool,        \* the MCP tools an event may announce
  Stamp,          \* the timestamps events carry
  Outcomes,       \* what payload_success may say
  Window,         \* SKILL_TRIGGER_WINDOW
  Kinds,          \* the kinds of events the stream contains
  MaxEvents       \* bound on the length of the stream

ASSUME ConstantsAssumption ==
  /\ OrphanName \notin ToolName
  /\ None \notin CallId \cup Stamp
  /\ Interactive \in Mode
  /\ Stamp \subseteq Nat /\ Tokens \subseteq Nat
  /\ Outcomes \subseteq {"success", "failure"}
  /\ Window \in Nat \ {0}
  /\ MaxEvents \in Nat

VARIABLES
  seen,         \* the kinds of the events handled so far (history)
  clock,        \* last_event_ts, prev_ts
  turns, openTurn,
  openTools, openHooks, openSkills,
  tools, hooks, skills,
  segments, mode,
  aborts,       \* aborts that hit nothing open
  reported,     \* model_metrics and loaded_mcp_tools
  warnings,     \* how many warnings of each kind
  requested,    \* pending_user_requested_tool_call_ids
  declared,     \* the call ids whose arguments PASS 0 collected
  phase         \* reading the events, finalizing, or done

calls == <<openTools, openHooks, tools, hooks, requested>>
vars == <<seen, clock, turns, openTurn, calls, openSkills, skills, segments, mode, aborts,
          reported, warnings, declared, phase>>

Now == Len(seen) + 1
NoTurn == 0

Init ==
  /\ seen = <<>>
  /\ clock = None
  /\ turns = <<>> /\ openTurn = NoTurn
  /\ openTools = <<>> /\ openHooks = <<>> /\ openSkills = {}
  /\ tools = [n \in ToolName \cup {OrphanName} |-> <<>>]
  /\ hooks = [n \in HookName |-> <<>>]
  /\ skills = [n \in SkillName |-> <<>>]
  /\ \E t \in Stamp : segments = <<[mode |-> Interactive, from |-> t, to |-> None]>>
  /\ mode = Interactive
  /\ aborts = 0
  /\ reported = [usage |-> None, loaded |-> {}]
  /\ warnings = [k \in {"synthesized", "open", "abort", "order"} |-> 0]
  /\ requested = {}
  /\ declared \in SUBSET CallId
  /\ phase = "reading"

-----------------------------------------------------------------------------
(* Definitions named Wrong... are plausible mistakes in the definition they *)
(* precede; nothing but a mutation run uses them.                          *)

(* Span::new clamps an end that precedes the start. *)
SpanEnd(from, to) == IF to < from THEN from ELSE to

(* Arguments are looked up by call id in what PASS 0 found. *)
Arguments(id) == IF id \in declared THEN id ELSE None

WrongBumped(open) == {[w EXCEPT !.left = @ - 1] : w \in {v \in open : v.left > 0}}
(* bump_skill_windows: every event closes the windows that have run out.   *)
Bumped(open) == {[w EXCEPT !.left = @ - 1] : w \in {v \in open : v.left > 1}}

(* A new call's back-reference: its name and its index under that name. *)
NextRef(episodes, name) == [name |-> name, index |-> Len(episodes[name]) + 1]

(* The turn that was open when the call started gets the back-reference. *)
Referenced(turn, list, ref) == IF turn = NoTurn THEN turns
                               ELSE [turns EXCEPT ![turn][list] = Append(@, ref)]

(* Every skill invocation whose window is open gets it too. *)
Triggered(ref) ==
  [n \in SkillName |->
    [i \in DOMAIN skills[n] |->
      IF \E w \in openSkills : w.name = n /\ w.index = i
      THEN [skills[n][i] EXCEPT !.triggered = Append(@, ref)]
      ELSE skills[n][i]]]

(* commit_tool_call, commit_hook_call *)
CommitTool(name, call) ==
  /\ tools' = [tools EXCEPT ![name] = Append(@, call)]
  /\ skills' = Triggered(NextRef(tools, name))
  /\ turns' = Referenced(call.turn, "tool_calls", NextRef(tools, name))

CommitHook(name, call) ==
  /\ hooks' = [hooks EXCEPT ![name] = Append(@, call)]
  /\ turns' = Referenced(call.turn, "hook_calls", NextRef(hooks, name))

(* The call a popped or drained entry becomes.  `opened` and `closed` are  *)
(* the positions of its two events; the code does not keep them.           *)
ToolCall(o, ts, status, id) ==
  [from |-> o.at, to |-> SpanEnd(o.at, ts), turn |-> o.turn, status |-> status,
   requested |-> o.requested, args |-> Arguments(id),
   opened |-> o.opened, closed |-> Now]

HookCall(o, ts, synthesized) ==
  [from |-> o.at, to |-> SpanEnd(o.at, ts), turn |-> o.turn, synthesized |-> synthesized,
   opened |-> o.opened, closed |-> Now]

(* What every event does: observe_timestamp and its warning, the warning   *)
(* of its own kind, and its place in the stream.                           *)
ObserveAll(kind, ts, warning) ==
  /\ phase = "reading" /\ Len(seen) < MaxEvents /\ kind \in Kinds
  /\ seen' = Append(seen, kind)
  /\ clock' = ts
  /\ warnings' = [k \in DOMAIN warnings |->
                    warnings[k] + (IF k = warning THEN 1 ELSE 0)
                      + (IF k = "order" /\ clock # None /\ ts < clock THEN 1 ELSE 0)]
  /\ UNCHANGED <<declared, phase>>

Observe(kind, ts, warning) == ObserveAll(kind, ts, warning) /\ UNCHANGED reported

-----------------------------------------------------------------------------
(* Turns *)
NewTurn(status, ts) ==
  [status |-> status, mode |-> IF status = "open" THEN mode ELSE None,
   from |-> ts, to |-> IF status = "open" THEN None ELSE ts, model |-> None, tokens |-> 0,
   tool_calls |-> <<>>, hook_calls |-> <<>>, skill_calls |-> <<>>]

(* A turn that is still open is not closed: it is left behind. *)
TurnStart(ts) ==
  /\ Observe("TurnStart", ts, "none")
  /\ turns' = Append(turns, NewTurn("open", ts))
  /\ openTurn' = Len(turns) + 1
  /\ openSkills' = Bumped(openSkills)
  /\ UNCHANGED <<calls, skills, segments, mode, aborts>>

TurnEnd(ts) ==
  /\ \/ /\ openTurn # NoTurn
        /\ turns' = [turns EXCEPT ![openTurn].status = "completed", ![openTurn].to = ts]
        /\ Observe("TurnEnd", ts, "none")
     \/ /\ openTurn = NoTurn
        /\ turns' = Append(turns, NewTurn("completed", ts))
        /\ Observe("TurnEnd", ts, "synthesized")
  /\ openTurn' = NoTurn
  /\ openSkills' = Bumped(openSkills)
  /\ UNCHANGED <<calls, skills, segments, mode, aborts>>

-----------------------------------------------------------------------------
(* Tools *)
ToolStart(ts, name, id) ==
  /\ Observe("ToolStart", ts, "none")
  /\ openTools' = Append(openTools, [name |-> name, at |-> ts, turn |-> openTurn, id |-> id,
                                     requested |-> id \in requested, opened |-> Now])
  /\ requested' = requested \ {id}
  /\ openSkills' = Bumped(openSkills)
  /\ UNCHANGED <<turns, openTurn, openHooks, tools, hooks, skills, segments, mode, aborts>>

WrongToolCompleteKeepsOpen(ts, id, outcome) ==
  /\ Observe("ToolComplete", ts, "none")
  /\ openTools # <<>>
  /\ CommitTool(Last(openTools).name, ToolCall(Last(openTools), ts, outcome, id))
  /\ openSkills' = Bumped(openSkills)
  /\ UNCHANGED <<openTools, openTurn, openHooks, hooks, requested, segments, mode, aborts>>

(* The call opened last is closed, whatever its id; with none open an      *)
(* orphan is committed under the sentinel name.                            *)
ToolComplete(ts, id, outcome) ==
  /\ \/ /\ openTools # <<>>
        /\ LET o == Last(openTools) IN
             CommitTool(o.name, ToolCall(o, ts, outcome, IF id # None THEN id ELSE o.id))
        /\ openTools' = Front(openTools)
        /\ Observe("ToolComplete", ts, "none")
     \/ /\ openTools = <<>>
        /\ LET orphan == [at |-> ts, turn |-> openTurn, id |-> None, requested |-> FALSE, opened |-> Now]
           IN  CommitTool(OrphanName, ToolCall(orphan, ts, "orphan", id))
        /\ Observe("ToolComplete", ts, "synthesized")
        /\ UNCHANGED openTools
  /\ openSkills' = Bumped(openSkills)
  /\ UNCHANGED <<openTurn, openHooks, hooks, requested, segments, mode, aborts>>

(* The marker goes to the newest open call with its id, or waits for its   *)
(* start; without an id it goes to the newest open call.                   *)
UserRequested(ts, id) ==
  LET matching == {k \in DOMAIN openTools : id = None \/ openTools[k].id = id}
      newest == CHOOSE k \in matching : \A j \in matching : j <= k
  IN
  /\ Observe("UserRequested", ts, "none")
  /\ \/ /\ matching # {}
        /\ openTools' = [openTools EXCEPT ![newest].requested = TRUE]
        /\ UNCHANGED requested
     \/ /\ matching = {}
        /\ requested' = requested \cup ({id} \ {None})
        /\ UNCHANGED openTools
  /\ openSkills' = Bumped(openSkills)
  /\ UNCHANGED <<turns, openTurn, openHooks, tools, hooks, skills, segments, mode, aborts>>

-----------------------------------------------------------------------------
(* Hooks *)
HookStart(ts, name) ==
  /\ Observe("HookStart", ts, "none")
  /\ openHooks' = Append(openHooks, [name |-> name, at |-> ts, turn |-> openTurn, opened |-> Now])
  /\ openSkills' = Bumped(openSkills)
  /\ UNCHANGED <<turns, openTurn, openTools, tools, hooks, requested, skills, segments, mode, aborts>>

HookEnd(ts, name) ==
  /\ \/ /\ openHooks # <<>>
        /\ CommitHook(Last(openHooks).name, HookCall(Last(openHooks), ts, FALSE))
        /\ openHooks' = Front(openHooks)
        /\ Observe("HookEnd", ts, "none")
     \/ /\ openHooks = <<>>
        /\ CommitHook(name, HookCall([at |-> ts, turn |-> openTurn, opened |-> Now], ts, TRUE))
        /\ Observe("HookEnd", ts, "synthesized")
        /\ UNCHANGED openHooks
  /\ openSkills' = Bumped(openSkills)
  /\ UNCHANGED <<openTurn, openTools, tools, requested, skills, segments, mode, aborts>>

-----------------------------------------------------------------------------
(* Skills and modes *)
SkillInvoked(ts, name) ==
  /\ Observe("SkillInvoked", ts, "none")
  /\ skills' = [skills EXCEPT ![name] = Append(@, [at |-> ts, triggered |-> <<>>, opened |-> Now])]
  /\ turns' = Referenced(openTurn, "skill_calls", NextRef(skills, name))
  /\ openSkills' = Bumped(openSkills \cup {[name |-> name, index |-> Len(skills[name]) + 1,
                                            left |-> Window]})
  /\ UNCHANGED <<openTurn, calls, segments, mode, aborts>>

(* The segment that is last gets this event as its end, also when it had   *)
(* one; only an event that carries a mode starts a new segment.            *)
Ended(ts) == [segments EXCEPT ![Len(segments)].to = ts]

WrongModeChanged(ts, new) ==
  /\ Observe("ModeChanged", ts, "none")
  /\ segments' = Append(IF Last(segments).to = None THEN Ended(ts) ELSE segments,
                        [mode |-> new, from |-> ts, to |-> None])
  /\ mode' = new
  /\ openSkills' = Bumped(openSkills)
  /\ UNCHANGED <<turns, openTurn, calls, skills, aborts>>

ModeChanged(ts, new) ==
  /\ Observe("ModeChanged", ts, "none")
  /\ segments' = Append(Ended(ts), [mode |-> new, from |-> ts, to |-> None])
  /\ mode' = new
  /\ openSkills' = Bumped(openSkills)
  /\ UNCHANGED <<turns, openTurn, calls, skills, aborts>>

ModelChange(ts) ==
  /\ Observe("ModelChange", ts, "none")
  /\ segments' = Ended(ts)
  /\ openSkills' = Bumped(openSkills)
  /\ UNCHANGED <<turns, openTurn, calls, skills, mode, aborts>>

-----------------------------------------------------------------------------
(* An abort closes the innermost open thing: tool, else hook, else turn.   *)
AbortTool(ts) ==
  /\ openTools # <<>>
  /\ Observe("Abort", ts, "none")
  /\ LET o == Last(openTools) IN CommitTool(o.name, ToolCall(o, ts, "aborted", o.id))
  /\ openTools' = Front(openTools)
  /\ openSkills' = Bumped(openSkills)
  /\ UNCHANGED <<openTurn, openHooks, hooks, requested, segments, mode, aborts>>

AbortHook(ts) ==
  /\ openTools = <<>> /\ openHooks # <<>>
  /\ Observe("Abort", ts, "none")
  /\ CommitHook(Last(openHooks).name, HookCall(Last(openHooks), ts, FALSE))
  /\ openHooks' = Front(openHooks)
  /\ openSkills' = Bumped(openSkills)
  /\ UNCHANGED <<openTurn, openTools, tools, requested, skills, segments, mode, aborts>>

WrongAbortTurn(ts) ==
  /\ openTools = <<>> /\ openHooks = <<>> /\ openTurn # NoTurn
  /\ Observe("Abort", ts, "none")
  /\ turns' = [turns EXCEPT ![openTurn].status = "aborted", ![openTurn].to = ts]
  /\ openSkills' = Bumped(openSkills)
  /\ UNCHANGED <<openTurn, calls, skills, segments, mode, aborts>>

AbortTurn(ts) ==
  /\ openTools = <<>> /\ openHooks = <<>> /\ openTurn # NoTurn
  /\ Observe("Abort", ts, "none")
  /\ turns' = [turns EXCEPT ![openTurn].status = "aborted", ![openTurn].to = ts]
  /\ openTurn' = NoTurn
  /\ openSkills' = Bumped(openSkills)
  /\ UNCHANGED <<calls, skills, segments, mode, aborts>>

AbortNothing(ts) ==
  /\ openTools = <<>> /\ openHooks = <<>> /\ openTurn = NoTurn
  /\ Observe("Abort", ts, "abort")
  /\ aborts' = aborts + 1
  /\ openSkills' = Bumped(openSkills)
  /\ UNCHANGED <<turns, openTurn, calls, skills, segments, mode>>

(* on_assistant_message: the last model wins and tokens add up; without an *)
(* open turn the message is ignored.                                       *)
AssistantMessage(ts, model, tokens) ==
  /\ Observe("AssistantMessage", ts, "none")
  /\ turns' = IF openTurn = NoTurn THEN turns
              ELSE [turns EXCEPT ![openTurn].model = model, ![openTurn].tokens = @ + tokens]
  /\ openSkills' = Bumped(openSkills)
  /\ UNCHANGED <<openTurn, calls, skills, segments, mode, aborts>>

(* on_session_shutdown: the last report of usage replaces earlier ones.    *)
Shutdown(ts, usage) ==
  /\ ObserveAll("Shutdown", ts, "none")
  /\ reported' = [reported EXCEPT !.usage = usage]
  /\ openSkills' = Bumped(openSkills)
  /\ UNCHANGED <<turns, openTurn, calls, skills, segments, mode, aborts>>

(* Any other kind only passes time, closes skill windows and may announce  *)
(* tools (accumulate_loaded_mcp_tools).                                    *)
OtherEvent(ts, announced) ==
  /\ ObserveAll("Other", ts, "none")
  /\ reported' = [reported EXCEPT !.loaded = @ \cup announced]
  /\ openSkills' = Bumped(openSkills)
  /\ UNCHANGED <<turns, openTurn, calls, skills, segments, mode, aborts>>

-----------------------------------------------------------------------------
(* finalize *)
EndOfEvents ==
  /\ phase = "reading"
  /\ phase' = "finalizing"
  /\ openTurn' = NoTurn
  /\ UNCHANGED <<seen, clock, turns, calls, openSkills, skills, segments, mode, aborts, reported, warnings, declared>>

OneMoreOpen == warnings' = [warnings EXCEPT !["open"] = @ + 1]

CloseOpenTool ==
  /\ phase = "finalizing" /\ openTools # <<>>
  /\ LET o == Head(openTools) IN CommitTool(o.name, ToolCall(o, clock, "open", o.id))
  /\ openTools' = Tail(openTools)
  /\ OneMoreOpen
  /\ UNCHANGED <<seen, clock, openTurn, openHooks, hooks, requested, openSkills, segments, mode,
                 aborts, reported, declared, phase>>

CloseOpenHook ==
  /\ phase = "finalizing" /\ openTools = <<>> /\ openHooks # <<>>
  /\ CommitHook(Head(openHooks).name, HookCall(Head(openHooks), clock, FALSE))
  /\ openHooks' = Tail(openHooks)
  /\ OneMoreOpen
  /\ UNCHANGED <<seen, clock, openTurn, openTools, tools, requested, openSkills, skills, segments, mode,
                 aborts, reported, declared, phase>>

Finish ==
  /\ phase = "finalizing" /\ openTools = <<>> /\ openHooks = <<>>
  /\ phase' = "done"
  /\ segments' = IF Last(segments).to = None THEN Ended(clock) ELSE segments
  /\ UNCHANGED <<seen, clock, turns, openTurn, calls, openSkills, skills, mode, aborts, reported, warnings, declared>>

Done == phase = "done" /\ UNCHANGED vars

HandleEvent(ts) ==
  \/ TurnStart(ts) \/ TurnEnd(ts)
  \/ \E n \in ToolName, id \in CallId \cup {None} : ToolStart(ts, n, id)
  \/ \E id \in CallId \cup {None}, outcome \in Outcomes : ToolComplete(ts, id, outcome)
  \/ \E id \in CallId \cup {None} : UserRequested(ts, id)
  \/ \E n \in HookName : HookStart(ts, n) \/ HookEnd(ts, n)
  \/ \E n \in SkillName : SkillInvoked(ts, n)
  \/ \E m \in Mode : ModeChanged(ts, m)
  \/ ModelChange(ts)
  \/ AbortTool(ts) \/ AbortHook(ts) \/ AbortTurn(ts) \/ AbortNothing(ts)
  \/ \E m \in Model, n \in Tokens : AssistantMessage(ts, m, n)
  \/ \E u \in Usage : Shutdown(ts, u)
  \/ \E announced \in SUBSET McpTool : OtherEvent(ts, announced)

Finalize == EndOfEvents \/ CloseOpenTool \/ CloseOpenHook \/ Finish

Next == (\E ts \in Stamp : HandleEvent(ts)) \/ Finalize \/ Done

Spec == Init /\ [][Next]_vars

-----------------------------------------------------------------------------
ToolRefs == UNION {{[name |-> n, index |-> i] : i \in DOMAIN tools[n]} : n \in DOMAIN tools}
HookRefs == UNION {{[name |-> n, index |-> i] : i \in DOMAIN hooks[n]} : n \in DOMAIN hooks}
ToolAt(r) == tools[r.name][r.index]
HookAt(r) == hooks[r.name][r.index]
Positions(kind) == {i \in DOMAIN seen : seen[i] = kind}

(* The variables range over what the types of episode/ allow.              *)
TypeOK ==
  /\ seen \in Seq(Kinds) /\ Len(seen) <= MaxEvents
  /\ clock \in Stamp \cup {None}
  /\ openTurn \in 0..Len(turns)
  /\ \A k \in DOMAIN turns : /\ turns[k].status \in {"open", "completed", "aborted"}
                             /\ turns[k].mode \in Mode \cup {None}
  /\ \A k \in DOMAIN openTools :
       /\ openTools[k].name \in ToolName /\ openTools[k].id \in CallId \cup {None}
       /\ openTools[k].at \in Stamp /\ openTools[k].turn \in 0..Len(turns)
  /\ \A k \in DOMAIN openHooks : openHooks[k].name \in HookName
  /\ \A w \in openSkills : w.index \in DOMAIN skills[w.name] /\ w.left \in 1..Window
  /\ segments # <<>> /\ mode \in Mode
  /\ requested \subseteq CallId /\ declared \subseteq CallId
  /\ phase \in {"reading", "finalizing", "done"}

(* Every tool start is open or became exactly one call, every call that is *)
(* no orphan comes from a start, and every completion, orphan or not,      *)
(* closed exactly one call; the same for hooks.                            *)
NoEventUncounted ==
  LET open == {openTools[k].opened : k \in DOMAIN openTools}
      started == {ToolAt(r).opened : r \in {q \in ToolRefs : ToolAt(q).status # "orphan"}}
      openH == {openHooks[k].opened : k \in DOMAIN openHooks}
      startedH == {HookAt(r).opened : r \in {q \in HookRefs : ~HookAt(q).synthesized}}
  IN
  /\ Positions("ToolStart") = open \cup started /\ open \cap started = {}
  /\ \A r, q \in ToolRefs : ToolAt(r).opened = ToolAt(q).opened => r = q
  /\ \A i \in Positions("ToolComplete") : \E r \in ToolRefs : ToolAt(r).closed = i
  /\ Positions("HookStart") = openH \cup startedH /\ openH \cap startedH = {}
  /\ \A r, q \in HookRefs : HookAt(r).opened = HookAt(q).opened => r = q
  /\ \A i \in Positions("HookEnd") : \E r \in HookRefs : HookAt(r).closed = i

(* A call is listed once, by the turn that was open when it started, also  *)
(* when it ends in a later turn; nothing else is listed.                   *)
ListedByItsTurn ==
  \A t \in DOMAIN turns :
    /\ ToSet(turns[t].tool_calls) = {r \in ToolRefs : ToolAt(r).turn = t}
    /\ ToSet(turns[t].hook_calls) = {r \in HookRefs : HookAt(r).turn = t}
    /\ Len(turns[t].tool_calls) = Cardinality(ToSet(turns[t].tool_calls))
    /\ Len(turns[t].hook_calls) = Cardinality(ToSet(turns[t].hook_calls))

(* A user-requested marker that still waits for its call never waits for  *)
(* one that is open: it would miss it and mark a later call with the id.   *)
NoMarkerMissesItsCall ==
  \A k \in DOMAIN openTools : openTools[k].id \notin requested

(* A skill invocation triggered exactly the calls committed within its     *)
(* window, whose first event is the invocation itself.                     *)
WindowIsExact ==
  \A n \in SkillName : \A i \in DOMAIN skills[n] :
    ToSet(skills[n][i].triggered) =
      {r \in ToolRefs : ToolAt(r).closed - skills[n][i].opened \in 1..(Window - 1)}

(* No span runs backwards, although clocks do.                             *)
SpansRunForward ==
  /\ \A r \in ToolRefs : ToolAt(r).from <= ToolAt(r).to
  /\ \A r \in HookRefs : HookAt(r).from <= HookAt(r).to

(* Whatever was made up or left open is reported: a warning for every      *)
(* synthesized start, for every call open at the end, for every lost abort.*)
AnomaliesAreWarned ==
  /\ warnings["synthesized"] =
       Cardinality({r \in ToolRefs : ToolAt(r).status = "orphan"})
       + Cardinality({r \in HookRefs : HookAt(r).synthesized})
       + (Len(turns) - Cardinality(Positions("TurnStart")))
  /\ warnings["abort"] = aborts
  /\ phase = "done" =>
       /\ openTools = <<>> /\ openHooks = <<>>
       /\ warnings["open"] = Cardinality({r \in ToolRefs : ToolAt(r).status = "open"})
                             + Cardinality({r \in HookRefs : HookAt(r).closed > Len(seen)})

(* Nothing the session did is lost, counted twice or given to another turn *)
(* or call, however starts, ends and markers interleave, and nothing is    *)
(* made up without a warning.                                              *)
EventsAreCounted ==
  TypeOK /\ NoEventUncounted /\ ListedByItsTurn /\ NoMarkerMissesItsCall /\ AnomaliesAreWarned

(* The mode segments follow each other without gap or overlap, the last    *)
(* one has the current mode, and an open turn has the mode it began in.    *)
SegmentsAreContiguous ==
  /\ Last(segments).mode = mode
  /\ \A k \in 1..(Len(segments) - 1) : segments[k].to = segments[k + 1].from
  /\ phase = "done" /\ seen # <<>> => Last(segments).to # None

(* However clocks go back, spans run forward and modes tile the session.   *)
TimesAreSound == SpansRunForward /\ SegmentsAreContiguous

(* What was committed stays: calls are only appended; a turn keeps the     *)
(* mode the session was in when it began, and, once it is completed or     *)
(* aborted, its status and tokens.                                         *)
Kept(t) == /\ turns'[t].mode = turns[t].mode
           /\ turns[t].status # "open" => /\ turns'[t].status = turns[t].status
                                          /\ turns'[t].tokens = turns[t].tokens
CommittedIsFinal ==
  [][/\ \A n \in DOMAIN tools : IsPrefix(tools[n], tools'[n])
     /\ \A n \in DOMAIN hooks : IsPrefix(hooks[n], hooks'[n])
     /\ \A t \in DOMAIN turns : Kept(t)
     /\ Len(turns') > Len(turns) => Last(turns').mode \in {mode, None}]_vars
=============================================================================
