------------------------------ MODULE Analyzer ------------------------------
(***************************************************************************)
(* analyze (agentprof-core, analyzer/): the pure functions from a          *)
(* session's episodes to the rows of its report.  Episodes are a record    *)
(*   start   when the session started (SessionMeta::started_at)            *)
(*   turns   a sequence, each with from, to (None while open) and the      *)
(*           references tool_calls, hook_calls, skill_calls                *)
(*   tools   name -> calls, each with from, to, turn (0 for none), status  *)
(*   hooks   name -> calls; skills  name -> invocations                    *)
(* as DeriveEpisodes leaves them.                                          *)
(***************************************************************************)
EXTENDS Integers, Sequences, FiniteSets, FiniteSetsExt, SequencesExt

CONSTANTS
  Before(_, _),    \* the order of names
  UserBlocking,    \* USER_BLOCKING_TOOLS
  AskUserThreshold, DefaultThreshold

ASSUME AnalyzerAssumption ==
  /\ AskUserThreshold \in Nat /\ DefaultThreshold \in Nat

(* A stable sort: equal elements keep their order.                         *)
StablySorted(s, Less(_, _)) ==
  LET place(i) == 1 + Cardinality({j \in DOMAIN s : Less(s[j], s[i]) \/ (~Less(s[i], s[j]) /\ j < i)})
  IN  [k \in DOMAIN s |-> s[CHOOSE i \in DOMAIN s : place(i) = k]]

(* The iteration order of a BTreeMap: the members of S by name.            *)
ByName(S) == [k \in 1..Cardinality(S) |->
                CHOOSE n \in S : Cardinality({m \in S : Before(m, n)}) = k - 1]

(* Names are strings: of two different ones, one comes first.              *)
NamesOrdered(S) ==
  /\ \A x \in S : ~Before(x, x)
  /\ \A x, y, z \in S : Before(x, y) /\ Before(y, z) => Before(x, z)
  /\ \A x, y \in S : x # y => Before(x, y) \/ Before(y, x)

(* A set of numbers, in order.                                             *)
Ascending(S) == [k \in 1..Cardinality(S) |->
                   CHOOSE n \in S : Cardinality({m \in S : m < n}) = k - 1]

(* What s has at the places S, in their order.                             *)
PickedAt(s, S) == [k \in DOMAIN Ascending(S) |-> s[Ascending(S)[k]]]

Duration(call) == call.to - call.from
Total(s) ==
  LET sum[k \in 0..Len(s)] == IF k = 0 THEN 0 ELSE sum[k - 1] + s[k]
  IN  sum[Len(s)]
Count(s, Test(_)) == Cardinality({i \in DOMAIN s : Test(s[i])})

(* collect_sorted_durations; rows with the largest of a field first.       *)
SortedDurations(s) == StablySorted([i \in DOMAIN s |-> Duration(s[i])], LAMBDA a, b : a < b)
LargestFirst(rows, field) == StablySorted(rows, LAMBDA a, b : a[field] > b[field])

(* percentile_nearest_rank: the rank is rounded, half away from zero.      *)
Percentile(sorted, pct) ==
  IF sorted = <<>> THEN 0
  ELSE sorted[1 + ((2 * pct * (Len(sorted) - 1) + 100) \div 200)]

(* tool_rank: a row for each tool that was called, largest total first,    *)
(* equal totals by name.                                                   *)
ToolRankRow(e, n) ==
  LET durations == SortedDurations(e.tools[n]) IN
  [ name |-> n,
    call_count |-> Len(e.tools[n]),
    success_count |-> Count(e.tools[n], LAMBDA c : c.status = "success"),
    failure_count |-> Count(e.tools[n], LAMBDA c : c.status \in {"failure", "aborted"}),
    orphan_count |-> Count(e.tools[n], LAMBDA c : c.status \in {"orphan", "open"}),
    user_requested_count |-> Count(e.tools[n], LAMBDA c : c.requested),
    total_duration |-> Total(durations),
    p50_duration |-> Percentile(durations, 50),
    p95_duration |-> Percentile(durations, 95),
    max_duration |-> IF durations = <<>> THEN 0 ELSE Last(durations),
    is_user_blocking |-> n \in UserBlocking ]

ToolRank(e) ==
  LET names == ByName({n \in DOMAIN e.tools : e.tools[n] # <<>>})
  IN  LargestFirst([k \in DOMAIN names |-> ToolRankRow(e, names[k])], "total_duration")

(* hook_rank *)
HookRankRow(e, n) ==
  LET durations == SortedDurations(e.hooks[n]) IN
  [ name |-> n,
    call_count |-> Len(e.hooks[n]),
    synthesized_start_count |-> Count(e.hooks[n], LAMBDA c : c.synthesized),
    total_duration |-> Total(durations),
    p50_duration |-> Percentile(durations, 50),
    p95_duration |-> Percentile(durations, 95) ]

HookRank(e) ==
  LET names == ByName({n \in DOMAIN e.hooks : e.hooks[n] # <<>>})
  IN  LargestFirst([k \in DOMAIN names |-> HookRankRow(e, names[k])], "total_duration")

(* turn_summary: one row for each turn, in order; a turn's id is its place;*)
(* an open turn has no duration.                                           *)
TurnSummary(e) ==
  [k \in DOMAIN e.turns |->
    [ turn_id |-> k,
      started_at |-> e.turns[k].from,
      duration |-> IF e.turns[k].status = "open" THEN <<>> ELSE <<Duration(e.turns[k])>>,
      status |-> e.turns[k].status,
      model |-> e.turns[k].model,
      mode |-> e.turns[k].mode,
      output_tokens |-> e.turns[k].tokens,
      tool_call_count |-> Len(e.turns[k].tool_calls),
      hook_call_count |-> Len(e.turns[k].hook_calls),
      skill_call_count |-> Len(e.turns[k].skill_calls) ]]

(* is_pending, pending_calls: what is open for too long.                   *)
Threshold(n) == IF n \in UserBlocking THEN AskUserThreshold ELSE DefaultThreshold

WrongIsPending(call, n, now) == now - call.to >= Threshold(n)
IsPending(call, n, now) == call.status = "open" /\ now - call.from >= Threshold(n)

PendingUnder(e, n, now) ==
  LET at == Ascending({i \in DOMAIN e.tools[n] : IsPending(e.tools[n][i], n, now)})
  IN  [k \in DOMAIN at |-> [name |-> n, call |-> e.tools[n][at[k]]]]

(* Calls that wait for the user first, then by name, then by age.          *)
PendingFirst(p, q) ==
  LET blocking(r) == r.name \in UserBlocking IN
  \/ blocking(p) /\ ~blocking(q)
  \/ blocking(p) = blocking(q) /\ Before(p.name, q.name)
  \/ p.name = q.name /\ p.call.from < q.call.from

PendingCalls(e, now) ==
  LET names == ByName({n \in DOMAIN e.tools : e.tools[n] # <<>>})
      upTo[k \in 0..Len(names)] ==
        IF k = 0 THEN <<>> ELSE upTo[k - 1] \o PendingUnder(e, names[k], now)
  IN  StablySorted(upTo[Len(names)], PendingFirst)

(* compute_wall and the exporters' compute_session_end: the latest instant *)
(* that something ended.                                                   *)
Ends(e) ==
  {e.turns[k].to : k \in {j \in DOMAIN e.turns : e.turns[j].status # "open"}}
    \cup UNION {{e.tools[n][i].to : i \in DOMAIN e.tools[n]} : n \in DOMAIN e.tools}
    \cup UNION {{e.hooks[n][i].to : i \in DOMAIN e.hooks[n]} : n \in DOMAIN e.hooks}
    \cup UNION {{e.skills[n][i].at : i \in DOMAIN e.skills[n]} : n \in DOMAIN e.skills}
SessionEnd(e) == Max({e.start} \cup Ends(e))
=============================================================================
