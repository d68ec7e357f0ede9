------------------------------ MODULE TuiViews ------------------------------
(***************************************************************************)
(* What the terminal interface draws of one session (tui/views/): the      *)
(* flame graph with its footer and meta line, the tool table with its      *)
(* detail strip, and the tables of modes and hooks.  A row is the values   *)
(* its cells show and what its style tells; the width of a column and the  *)
(* wording are left out.  TuiApp says which row is selected and which rows *)
(* are inside the window.                                                  *)
(***************************************************************************)
EXTENDS Exports

-----------------------------------------------------------------------------
(* The tool table (views/roi.rs).                                          *)

(* sort_rows; every row has a call, so the ratio of successes is compared  *)
(* by cross products.                                                      *)
Higher(key, a, b) ==
  LET ratio(r, s) == r.success_count * s.call_count IN
  CASE key = "t" -> a.total_duration > b.total_duration
    [] key = "c" -> a.call_count > b.call_count
    [] key = "s" -> \/ ratio(a, b) > ratio(b, a)
                    \/ ratio(a, b) = ratio(b, a) /\ a.call_count > b.call_count
    [] key = "p" -> a.p50_duration > b.p50_duration
SortRows(rows, key) == StablySorted(rows, LAMBDA a, b : Higher(key, a, b))

(* partition_and_sort: user-blocking tools apart, always by total.         *)
PartitionAndSort(rows, key) ==
  [ work |-> SortRows(SelectSeq(rows, LAMBDA r : ~r.is_user_blocking), key),
    blocking |-> SortRows(SelectSeq(rows, LAMBDA r : r.is_user_blocking), "t") ]

(* roi_selected_row: none, or one.                                         *)
RoiSelectedRow(parts, selected) ==
  LET all == parts.work \o parts.blocking
  IN  IF selected < Len(all) THEN <<all[selected + 1]>> ELSE <<>>
IsSelectionUserBlocking(parts, selected) ==
  selected >= Len(parts.work) /\ selected < Len(parts.work) + Len(parts.blocking)

(* failure_severity_color                                                  *)
FailureSeverity(calls, failures) ==
  IF calls = 0 \/ failures = 0 THEN "none"
  ELSE IF failures * 2 > calls THEN "red"
  ELSE IF calls >= 3 THEN "yellow" ELSE "none"
(* compose_tool_cell_style: a failing tool shows that, not its waiting.    *)
ToolCellStyle(row, pending) ==
  LET severity == FailureSeverity(row.call_count, row.failure_count)
  IN  IF severity = "none" /\ row.name \in pending THEN "yellow" ELSE severity

(* format_ok_pct, format_total_pct: truncated, and none of nothing.        *)
OkPct(success, calls) == IF calls = 0 THEN <<>> ELSE <<(success * 100) \div calls>>
TotalPct(total, all) == IF all <= 0 THEN <<>> ELSE <<(AtLeast(total, 0) * 100) \div all>>

(* tool_row                                                                *)
ToolRow(row, mark, all, pending, highlighted) ==
  [ mark |-> mark, name |-> row.name, calls |-> row.call_count, ok |-> row.success_count,
    fail |-> row.failure_count, ok_pct |-> OkPct(row.success_count, row.call_count),
    total |-> row.total_duration, total_pct |-> TotalPct(row.total_duration, all),
    p50 |-> row.p50_duration, style |-> ToolCellStyle(row, pending), highlighted |-> highlighted ]
Blank == [mark |-> "blank"]
Separator == [mark |-> "separator"]

(* render_unified_table: the body, which `visible` rows can show.  Blank   *)
(* rows push the user-blocking tools to the bottom when there is room; the *)
(* highlighted row is found by its index in the body.                      *)
UnifiedTable(parts, selected, visible, pending) ==
  LET work == Len(parts.work)
      blocking == Len(parts.blocking)
      separators == IF work > 0 /\ blocking > 0 THEN 1 ELSE 0
      padding == IF blocking = 0 THEN 0 ELSE AtLeast(visible - (work + separators + blocking), 0)
      index == IF selected < work THEN selected ELSE padding + separators + selected
      all == Total([i \in 1..(work + blocking) |->
                      AtLeast((parts.work \o parts.blocking)[i].total_duration, 0)])
  IN  [i \in 1..work |-> ToolRow(parts.work[i], i, all, pending, i - 1 = index)]
        \o [i \in 1..padding |-> Blank] \o [i \in 1..separators |-> Separator]
        \o [i \in 1..blocking |-> ToolRow(parts.blocking[i], 0, all, pending,
                                          work + padding + separators + i - 1 = index)]

(* recent_calls: the last five calls of a tool.                            *)
RecentCalls(e, name) ==
  LET calls == e.tools[name]
      first == AtLeast(Len(calls) - 4, 1)
  IN  [i \in 1..(Len(calls) - first + 1) |->
        [ turn |-> calls[first + i - 1].turn, duration |-> Duration(calls[first + i - 1]),
          status |-> calls[first + i - 1].status ]]

(* render_detail_strip: the selected tool, how many of its calls wait and  *)
(* how long the longest has, and its recent calls or what the user waited. *)
DetailStrip(e, parts, selected, pending, now) ==
  LET row == RoiSelectedRow(parts, selected)
      waiting == SelectSeq(pending, LAMBDA p : row # <<>> /\ p.name = row[1].name)
  IN  IF row = <<>> THEN [name |-> <<>>]
      ELSE [ name |-> <<row[1].name>>, pending |-> Len(waiting),
             longest |-> Max({0} \cup {now - waiting[i].call.from : i \in DOMAIN waiting}),
             waited |-> IF IsSelectionUserBlocking(parts, selected)
                        THEN <<row[1].call_count, row[1].total_duration>> ELSE <<>>,
             calls |-> IF IsSelectionUserBlocking(parts, selected)
                       THEN <<>> ELSE RecentCalls(e, row[1].name) ]

(* render: the table and, below it, the strip.                             *)
RoiView(e, key, selected, visible, now) ==
  LET parts == PartitionAndSort(ToolRank(e), key)
      pending == PendingCalls(e, now)
      names == {pending[i].name : i \in DOMAIN pending}
  IN  [ table |-> UnifiedTable(parts, selected, visible, names),
        strip |-> DetailStrip(e, parts, selected, pending, now) ]

-----------------------------------------------------------------------------
(* The single-session tables of views/aggregate.rs.                        *)

(* group_by_mode: most turns first; a turn without a mode has a bucket too.*)
ModeBucket(rows, mode) ==
  LET those == SelectSeq(rows, LAMBDA r : r.mode = mode)
      durations == SelectSeq(those, LAMBDA r : r.duration # <<>>)
  IN  [ label |-> mode, turns |-> Len(those),
        total_duration |-> Total([i \in DOMAIN durations |-> durations[i].duration[1]]),
        total_output_tokens |-> Total([i \in DOMAIN those |-> those[i].output_tokens]),
        total_tool_calls |-> Total([i \in DOMAIN those |-> those[i].tool_call_count]) ]
GroupByMode(rows) ==
  LET labels == ByName({rows[i].mode : i \in DOMAIN rows})
  IN  StablySorted([k \in DOMAIN labels |-> ModeBucket(rows, labels[k])],
                   LAMBDA a, b : a.turns > b.turns)

(* render_by_mode: the buckets with their shares.                          *)
ByModeTable(rows) ==
  LET buckets == GroupByMode(rows)
      turns == Total([i \in DOMAIN buckets |-> buckets[i].turns])
      time == Total([i \in DOMAIN buckets |-> AtLeast(buckets[i].total_duration, 0)])
  IN  [i \in DOMAIN buckets |->
        [ bucket |-> buckets[i], turns_pct |-> OkPct(buckets[i].turns, turns),
          time_pct |-> TotalPct(buckets[i].total_duration, time) ]]

-----------------------------------------------------------------------------
(* The flame graph (views/flamegraph.rs).                                  *)
Finished(turn) == turn.status # "open"
IsUserBlockingTurn(turn) == \E i \in DOMAIN turn.tool_calls : turn.tool_calls[i].name \in UserBlocking

(* render: the duration that fills the width, the 95th percentile of the   *)
(* turns that did not wait for the user.                                   *)
FlameScale(e) ==
  LET finished == SelectSeq(e.turns, Finished)
      working == SelectSeq(finished, LAMBDA t : ~IsUserBlockingTurn(t))
      durations == SortedDurations(working)
  IN  IF working = <<>> THEN Max({1} \cup {Duration(finished[i]) : i \in DOMAIN finished})
      ELSE AtLeast(durations[(95 * Len(working) + 99) \div 100], 1)

WrongSegmentLayout(turn, calls, width) ==
  LET total == turn.to - turn.from
      first(c) == AtMost((AtLeast(c.from - turn.from, 0) * width) \div total, width)
      last(c) == AtMost(((AtLeast(c.from - turn.from, 0) + AtLeast(c.to - c.from, 0)) * width
                           + total - 1) \div total, width)
      each == [i \in DOMAIN calls |-> [start |-> first(calls[i]), call |-> i,
                                       len |-> last(calls[i]) - first(calls[i])]]
  IN  IF total <= 0 \/ width = 0 THEN <<>> ELSE SelectSeq(each, LAMBDA s : s.len > 0 /\ s.start < width)
(* segment_layout: from the cell a call starts in to the cell it ends in,  *)
(* one at least, cut at the turn's last cell.                              *)
SegmentLayout(turn, calls, width) ==
  LET total == turn.to - turn.from
      first(c) == AtMost((AtLeast(c.from - turn.from, 0) * width) \div total, width)
      last(c) == AtMost(((AtLeast(c.from - turn.from, 0) + AtLeast(c.to - c.from, 0)) * width
                           + total - 1) \div total, width)
      each == [i \in DOMAIN calls |-> [start |-> first(calls[i]), call |-> i,
                 len |-> AtMost(AtLeast(last(calls[i]) - first(calls[i]), 1), width - first(calls[i]))]]
  IN  IF total <= 0 \/ width = 0 THEN <<>> ELSE SelectSeq(each, LAMBDA s : s.len > 0 /\ s.start < width)

CallsOfTurn(e, turn) == [i \in DOMAIN turn.tool_calls |-> e.tools[turn.tool_calls[i].name][turn.tool_calls[i].index]]

(* How many cells a turn takes; turns longer than the scale fill the row.  *)
Scaled(turn, scale, width) == AtMost((AtLeast(Duration(turn), 0) * width) \div scale, width)

(* build_gantt_cells and the sources of build_row: which call a cell shows,*)
(* the last of those that reach it; 0 for thinking.                        *)
GanttCells(e, turn, scale, width) ==
  LET scaled == Scaled(turn, scale, width)
      segments == SegmentLayout(turn, CallsOfTurn(e, turn), scaled)
      at(c) == {segments[i].call : i \in {j \in DOMAIN segments :
                  segments[j].start <= c /\ c < segments[j].start + segments[j].len}}
  IN  [c \in 1..width |-> IF c > scaled THEN "padding" ELSE Max({0} \cup at(c - 1))]

(* is_turn_pending, t_id_status_color                                      *)
IsTurnPending(e, turn, now) ==
  \E i \in DOMAIN turn.tool_calls :
    IsPending(CallsOfTurn(e, turn)[i], turn.tool_calls[i].name, now)
StatusColor(e, turn, now) ==
  IF turn.status = "aborted" THEN "red"
  ELSE IF IsTurnPending(e, turn, now) THEN "yellow"
  ELSE IF ~Finished(turn) THEN "gray"
  ELSE IF turn.tool_calls = <<>> THEN "blue" ELSE "none"

(* build_row; a turn that is open has no bar.                              *)
FlameRow(e, k, selected, scale, width, now) ==
  LET turn == e.turns[k] IN
  [ number |-> k, selected |-> k = selected + 1,
    duration |-> IF Finished(turn) THEN <<Duration(turn)>> ELSE <<>>, tokens |-> turn.tokens,
    color |-> StatusColor(e, turn, now), underlined |-> turn.status = "aborted",
    cells |-> IF Finished(turn) THEN GanttCells(e, turn, scale, width)
              ELSE [c \in 1..width |-> "blank"] ]

(* A line of entries: how many of them it shows, how many it counts as     *)
(* "+K more" and the marks after them.  A name is two wide, an elapsed time*)
(* one or two, and so is each mark; `more` is what "+K more" takes.        *)
EntryWidth(entry) == IF entry.duration < 2 THEN 3 ELSE 4
MoreWidth == 2
MarkWidth == 2
LineWidth(entries, line) ==
  Total([i \in 1..line.kept |-> EntryWidth(entries[i])]) + AtLeast(line.kept - 1, 0)
    + (IF line.more = 0 THEN 0 ELSE MoreWidth) + MarkWidth * Cardinality(line.marks)

(* fit_entries, and the packing of format_pending_banner: as many of the   *)
(* first entries as fit, with the number of those that do not; a line with *)
(* none is cut.                                                            *)
WrongFitEntries(entries, budget) ==
  LET line(k) == [kept |-> k, more |-> 0, marks |-> {}]
      fitting == {k \in 1..Len(entries) : LineWidth(entries, line(k)) <= budget}
  IN  [line(Max({0} \cup fitting)) EXCEPT !.more = Len(entries) - Max({0} \cup fitting)]
FitEntries(entries, budget) ==
  LET line(k) == [kept |-> k, more |-> Len(entries) - k, marks |-> {}]
      fitting == {k \in 1..Len(entries) : LineWidth(entries, line(k)) <= budget}
  IN  line(Max({0} \cup fitting))

(* append_detail_hint, append_thinking_marker: all of the mark, or nothing *)
WithMark(entries, line, mark, budget) ==
  LET marked == [line EXCEPT !.marks = @ \cup {mark}]
  IN  IF LineWidth(entries, marked) > budget THEN line ELSE marked

(* selected_turn_footer_line: the calls of the selected turn, in order.    *)
FooterEntries(e, selected) ==
  IF selected >= Len(e.turns) THEN <<>>
  ELSE LET turn == e.turns[selected + 1] IN
       [i \in DOMAIN turn.tool_calls |->
         [name |-> turn.tool_calls[i].name, duration |-> Duration(CallsOfTurn(e, turn)[i])]]
FooterLine(e, selected, budget) ==
  LET entries == FooterEntries(e, selected)
      fitted == FitEntries(entries, budget)
      thinking == IF entries = <<>> THEN WithMark(entries, fitted, "thinking only", budget) ELSE fitted
  IN  IF selected >= Len(e.turns) THEN fitted ELSE WithMark(entries, thinking, "Enter for detail", budget)

(* format_pending_banner: who has to act on the one pending call, or the   *)
(* pending calls in the order of the list.                                 *)
PendingBanner(e, now, budget) ==
  LET pending == PendingCalls(e, now)
      entries == [i \in DOMAIN pending |-> [name |-> pending[i].name, duration |-> now - pending[i].call.from]]
      hint == IF pending[1].name \in UserBlocking THEN "your input needed" ELSE "check this tool"
  IN  IF Len(pending) = 1 THEN [kept |-> 1, more |-> 0, marks |-> {hint}] ELSE FitEntries(entries, budget)

(* fit_priority_segments: a narrow line keeps its first segments, and the  *)
(* very first one, cut, when not even that fits.                           *)
SegmentWidth == 2
FitPrioritySegments(segments, budget) ==
  LET fitting == {k \in 1..Len(segments) : k * SegmentWidth + k - 1 <= budget}
  IN  SubSeq(segments, 1, IF budget = 0 THEN 0 ELSE Max({1} \cup fitting))

(* format_meta_line                                                        *)
MetaLine(e, selected, budget) ==
  IF selected >= Len(e.turns) THEN <<>>
  ELSE LET row == TurnSummary(e)[selected + 1] IN
       FitPrioritySegments(
         << <<"turn", selected + 1>>, <<"after", row.started_at - e.start>>, <<"duration", row.duration>>,
            <<"calls", row.tool_call_count>>, <<"model", row.model>>, <<"mode", row.mode>> >>, budget)

(* render: the rows top..bottom are inside the window.                     *)
FlameView(e, selected, top, bottom, width, now) ==
  [ rows |-> [i \in 1..(bottom - top + 1) |->
                FlameRow(e, top + i - 1, selected, FlameScale(e), width, now)],
    footer |-> FooterLine(e, selected, width),
    meta |-> MetaLine(e, selected, width) ]
=============================================================================
