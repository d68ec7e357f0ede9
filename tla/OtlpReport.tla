----------------------------- MODULE OtlpReport -----------------------------
(***************************************************************************)
(* What the receiver makes of the signals of one session: they arrive in   *)
(* any order, some twice, some never, are mapped (OtlpMapper), collected   *)
(* in a SessionBuffer (otlp/router.rs), closed into a time-sorted stream   *)
(* with synthetic results for open calls, and folded into the report that  *)
(* is stored (persistable_to_report in otlp/sink_storage.rs).              *)
(***************************************************************************)
EXTENDS OtlpMapper, SequencesExt

CONSTANTS Signal,     \* the signals an agent sends for one session
          TheSession, \* its session id
          Sends,      \* how often its exporter sends each
          TokenMax    \* the largest token count (u64::MAX)

ASSUME ReportAssumption == /\ Sends \in [Signal -> Nat]
                           /\ TokenMax \in Nat
                           /\ Overflow \in Int /\ NotANumber \in Int

VARIABLES sent,    \* how often each signal has arrived
          buffer,  \* the SessionBuffer
          report   \* the stored report, or NoReport

vars == <<sent, buffer, report>>

NoTime == -1
NoReport == [stored |-> FALSE]
NewBuffer == [started |-> NoTime, ended |-> NoTime, lastTs |-> NoTime, events |-> <<>>, open |-> {}]

(* SessionBuffer::push *)
Push(b, e) ==
  [started |-> IF e.type = "start" THEN e.ts ELSE b.started,
   ended   |-> IF e.type = "end" THEN e.ts ELSE b.ended,
   lastTs  |-> e.ts,
   events  |-> Append(b.events, e),
   open    |-> CASE e.type = "decision" -> b.open \cup {e.key}
                 [] e.type = "result" -> b.open \ {e.key}
                 [] OTHER -> b.open]

(* ingest_inner drops errors and events without a session; those of other  *)
(* sessions go to other buffers.                                           *)
Kept(mapped) == SelectSeq(mapped, LAMBDA e : /\ e.type \notin {"error", "unrecognized"}
                                             /\ e.session = TheSession)
PushAll(b, events) == FoldLeft(Push, b, events)

-----------------------------------------------------------------------------
(* SessionBuffer::into_persistable *)

SynthesisTs(b) == IF b.ended # NoTime THEN b.ended ELSE b.lastTs
OpenResults(b) ==
  [i \in 1 .. Cardinality(b.open) |->
     [type |-> "result", session |-> TheSession, ts |-> SynthesisTs(b),
      key |-> SetToSeq(b.open)[i], status |-> "open"]]

Sorted(events, Before(_, _)) ==
  LET place(i) == 1 + Cardinality({j \in DOMAIN events : Before(j, i)})
  IN [k \in DOMAIN events |-> events[CHOOSE i \in DOMAIN events : place(i) = k]]

(* sort_by_key is stable. *)
ByTime(events) ==
  Sorted(events, LAMBDA i, j : \/ events[i].ts < events[j].ts
                               \/ events[i].ts = events[j].ts /\ i < j)

IntoPersistable(b) == [started |-> b.started, events |-> ByTime(b.events \o OpenResults(b))]

-----------------------------------------------------------------------------
(* persistable_to_report: a fold over the events, then the rows. *)

Usage == [input |-> 0, output |-> 0, cache_read |-> 0, cache_write |-> 0]
SaturatingAdd(a, b) == IF a + b > TokenMax THEN TokenMax ELSE a + b

(* A function changed or extended at one point. *)
With(f, k, v) == [x \in DOMAIN f \cup {k} |-> IF x = k THEN v ELSE f[x]]
Without(f, k) == [x \in DOMAIN f \ {k} |-> f[x]]
Entry(f, k, default) == IF k \in DOMAIN f THEN f[k] ELSE default

Call(key, status, dur, asked) == [tool |-> key[1], status |-> status, dur |-> dur, asked |-> asked]

Start(acc, e) == [acc EXCEPT !.agent = e.agent, !.model = e.model,
                             !.started = IF @ = NoTime THEN e.ts ELSE @]

(* A second start of the same tool in the same turn replaces the first. *)
Decision(acc, e) == [acc EXCEPT !.open = With(@, e.key, [ts |-> e.ts, asked |-> e.approved])]

(* A result closes the open start of its key, or is an orphan. *)
Result(acc, e) ==
  IF e.key \in DOMAIN acc.open
  THEN LET s == acc.open[e.key] IN
       [acc EXCEPT !.open = Without(@, e.key),
                   !.calls = Append(@, Call(e.key, e.status, IF e.ts < s.ts THEN 0 ELSE e.ts - s.ts, s.asked))]
  ELSE [acc EXCEPT !.calls = Append(@, Call(e.key, e.status, 0, FALSE))]

WrongTokens(acc, e) == [acc EXCEPT !.metrics = With(@, e.model, [Usage EXCEPT ![e.direction] = e.value])]

Tokens(acc, e) ==
  LET usage == Entry(acc.metrics, e.model, Usage) IN
  [acc EXCEPT !.metrics = With(@, e.model, [usage EXCEPT ![e.direction] = SaturatingAdd(@, e.value)])]

Fold(acc, e) == CASE e.type = "start" -> Start(acc, e)
                  [] e.type = "decision" -> Decision(acc, e)
                  [] e.type = "result" -> Result(acc, e)
                  [] e.type = "tokens" -> Tokens(acc, e)
                  [] OTHER -> acc

Empty == [x \in {} |-> 0]
Scan(p) == FoldLeft(Fold, [agent |-> "Claude", model |-> Absent, started |-> p.started,
                           open |-> Empty, calls |-> <<>>, metrics |-> Empty], p.events)

(* Starts that are still open are counted as calls without an end. *)
Leftovers(acc) ==
  [i \in 1 .. Cardinality(DOMAIN acc.open) |->
     LET key == SetToSeq(DOMAIN acc.open)[i] IN Call(key, "open", 0, acc.open[key].asked)]

-----------------------------------------------------------------------------
(* ToolAggregator: one row per tool. *)

NearestRank(sorted, pct) ==
  IF sorted = <<>> THEN 0 ELSE sorted[Max({1, (pct * Len(sorted) + 99) \div 100})]

Durations(calls) == SortSeq([i \in DOMAIN calls |-> calls[i].dur], LAMBDA a, b : a < b)
CountIf(calls, Test(_)) == Len(SelectSeq(calls, Test))

Row(tool, calls) ==
  LET mine == SelectSeq(calls, LAMBDA c : c.tool = tool)
      durations == Durations(mine)
  IN [name |-> tool, calls |-> Len(mine),
      success |-> CountIf(mine, LAMBDA c : c.status = "success"),
      failure |-> CountIf(mine, LAMBDA c : c.status = "failure"),
      orphan |-> CountIf(mine, LAMBDA c : c.status = "open"),
      asked |-> CountIf(mine, LAMBDA c : c.asked),
      total |-> FoldLeft(+, 0, durations), p50 |-> NearestRank(durations, 50),
      p95 |-> NearestRank(durations, 95), max |-> FoldLeft(LAMBDA a, b : Max({a, b}), 0, durations)]

ToolRank(calls) ==
  SetToSortSeq({Row(t, calls) : t \in {calls[i].tool : i \in DOMAIN calls}},
               LAMBDA r, q : r.total > q.total \/ (r.total = q.total /\ r.name < q.name))

(* Without token usage, the model of the session start is kept as a hint. *)
ModelMetrics(acc) == IF acc.metrics = Empty /\ acc.model # Absent
                     THEN With(Empty, acc.model, Usage) ELSE acc.metrics

ToReport(p) ==
  LET acc == Scan(p) IN
  [stored |-> TRUE, agent |-> acc.agent, started |-> acc.started,
   metrics |-> ModelMetrics(acc), rank |-> ToolRank(acc.calls \o Leftovers(acc))]

-----------------------------------------------------------------------------
Init == /\ sent = [x \in Signal |-> 0]
        /\ buffer = NewBuffer
        /\ report = NoReport

(* A request with the signal arrives: its events are pushed, and a session *)
(* end closes the buffer.                                                  *)
Deliver(x) ==
  LET b == PushAll(buffer, Kept(Mapped(x))) IN
  /\ report = NoReport
  /\ sent[x] < Sends[x]
  /\ sent' = [sent EXCEPT ![x] = @ + 1]
  /\ buffer' = b
  /\ report' = IF b.ended # NoTime THEN ToReport(IntoPersistable(b)) ELSE report

(* Idle, eviction, a cap or the shutdown close the buffer. *)
Close ==
  /\ report = NoReport
  /\ buffer.events # <<>>
  /\ report' = ToReport(IntoPersistable(buffer))
  /\ UNCHANGED <<sent, buffer>>

Next == Close \/ \E x \in Signal : Deliver(x)

Spec == Init /\ [][Next]_vars

-----------------------------------------------------------------------------
Rows == IF report.stored THEN ToSet(report.rank) ELSE {}
Arrived(Test(_)) == SelectSeq(buffer.events, Test)
ArrivedNumber(Test(_)) == Len(SelectSeq(buffer.events, Test))

(* Types, and the counters of a row add up. *)
TypeOK ==
  /\ \A x \in Signal : sent[x] \in 0 .. Sends[x]
  /\ \A e \in ToSet(buffer.events) : e.session = TheSession /\ e.ts \in Nat \ {Overflow}
  /\ \A r \in Rows : r.calls = r.success + r.failure + r.orphan

(* In whatever order the signals come, every result that arrived is        *)
(* counted once, as what it was, and every tool that was seen has a row.   *)
ResultsAreCounted ==
  report.stored =>
    /\ \A r \in Rows :
         /\ r.success = ArrivedNumber(LAMBDA e : e.type = "result" /\ e.key[1] = r.name /\ e.status = "success")
         /\ r.failure = ArrivedNumber(LAMBDA e : e.type = "result" /\ e.key[1] = r.name /\ e.status = "failure")
    /\ {r.name : r \in Rows} =
         {e.key[1] : e \in {x \in ToSet(buffer.events) : x.type \in {"decision", "result"}}}

(* The token counts of a model are the saturated sums of what arrived,     *)
(* in whatever order and however often it came.                            *)
ArrivedTokens(model, direction) ==
  FoldLeft(LAMBDA n, e : n + e.value, 0,
           Arrived(LAMBDA e : e.type = "tokens" /\ e.model = model /\ e.direction = direction))
TokensAreSummed ==
  report.stored =>
    /\ \A model \in DOMAIN report.metrics : \A d \in DOMAIN Usage :
         report.metrics[model][d] = Min({TokenMax, ArrivedTokens(model, d)})
    /\ \A e \in ToSet(buffer.events) : e.type = "tokens" => e.model \in DOMAIN report.metrics

(* When events arrive in time order and no call starts while one with its  *)
(* key is open, the rows are exact: a call per start, open where no result *)
(* came, with the time to its result or else to the last event.           *)
InOrder ==
  \A i, j \in DOMAIN buffer.events : i < j =>
    /\ buffer.events[i].ts <= buffer.events[j].ts
    /\ LET d == buffer.events[i]  e == buffer.events[j] IN
       d.type = "decision" /\ e.type = "decision" /\ d.key = e.key =>
         \E k \in i .. j : buffer.events[k].type = "result" /\ buffer.events[k].key = d.key
Answers(i) == {j \in DOMAIN buffer.events : /\ j > i
                                            /\ buffer.events[j].type = "result"
                                            /\ buffer.events[j].key = buffer.events[i].key}
Starts(tool) == {i \in DOMAIN buffer.events : /\ buffer.events[i].type = "decision"
                                              /\ buffer.events[i].key[1] = tool}
Until(i) == IF Answers(i) = {} THEN SynthesisTs(buffer) ELSE buffer.events[Min(Answers(i))].ts
Time(i) == Until(i) - buffer.events[i].ts
InOrderIsExact ==
  report.stored /\ InOrder =>
    \A r \in Rows :
      /\ r.orphan = Cardinality({i \in Starts(r.name) : Answers(i) = {}})
      /\ r.total = MapThenSumSet(Time, Starts(r.name))

(* A tool span whose tool nothing else mentions is one call with its own   *)
(* duration, whatever arrives before, between or after.                    *)
Lone(x) == \A y \in Signal \ {x} : y.of # "metric" /\ sent[y] > 0 => y.key[1] # x.key[1]
SpanIsOneCall ==
  \A x \in Signal : \A r \in Rows :
    /\ x.of = "span" /\ sent[x] = 1 /\ Lone(x)
    /\ r.name = x.key[1]
    => r.calls = 1 /\ r.total = Later(x.start, x.end) - x.start

(* The rows are in rank order and their percentiles in order. *)
RankIsOrdered ==
  report.stored =>
    /\ \A r \in Rows : 0 <= r.p50 /\ r.p50 <= r.p95 /\ r.p95 <= r.max /\ r.max <= r.total
    /\ IsSorted(report.rank, LAMBDA a, b : a.total >= b.total)

(* The report loses and invents nothing of what arrived, in whatever       *)
(* order and however often it came.                                        *)
ReportIsExact == TypeOK /\ ResultsAreCounted /\ TokensAreSummed /\ RankIsOrdered

(* Where the order of arrival leaves no doubt, every call has its status   *)
(* and its duration.                                                       *)
CallsAreExact == InOrderIsExact /\ SpanIsOneCall
=============================================================================
