--------------------------- MODULE DerivedReport ----------------------------
(***************************************************************************)
(* What the analyzer and the two timeline exports make of the episodes     *)
(* that were derived from a stream of events: DeriveEpisodes' machine,     *)
(* and the report's functions applied to where it ends.                    *)
(***************************************************************************)
EXTENDS DeriveEpisodes, TuiViews

CONSTANT MaxReported  \* bound: reports are computed of streams no longer

(* Names are strings.                                                      *)
ASSUME NamesAssumption == NamesOrdered(ToolName \cup {OrphanName}) /\ NamesOrdered(HookName)

(* Episodes, as derive_episodes returns it.                                *)
Episodes == [start |-> segments[1].from, turns |-> turns, tools |-> tools, hooks |-> hooks,
             skills |-> skills]

(* SessionMeta::ended_at and the reader's clock come after every event.    *)
Reported(P(_)) == phase = "done" /\ Len(seen) <= MaxReported => P(Episodes)

-----------------------------------------------------------------------------
(* Every tool call the session made is counted by exactly one row of the   *)
(* ranking, under exactly one outcome, and it is either listed by one turn *)
(* of the summary or belongs to none.                                      *)
CountsAgree(e, rank) ==
  LET sum(s, f(_)) == Total([i \in DOMAIN s |-> f(s[i])])
      loose == Cardinality({r \in ToolRefs : ToolAt(r).turn = NoTurn})
      counted == sum(rank, LAMBDA r : r.call_count)
  IN  /\ counted = Cardinality(ToolRefs)
      /\ counted = loose + sum(TurnSummary(e), LAMBDA t : t.tool_call_count)
      /\ \A i \in DOMAIN rank : rank[i].call_count =
           rank[i].success_count + rank[i].failure_count + rank[i].orphan_count
      /\ sum(HookRank(e), LAMBDA r : r.call_count) = Cardinality(HookRefs)

(* A row's percentiles are durations that occurred, in order, and the rows *)
(* are in the order of their totals.                                       *)
PercentilesAreOrdered(e, rank) ==
  /\ \A i \in DOMAIN rank :
       LET occurred == {Duration(e.tools[rank[i].name][k]) : k \in DOMAIN e.tools[rank[i].name]}
       IN  /\ {rank[i].p50_duration, rank[i].p95_duration, rank[i].max_duration} \subseteq occurred
           /\ rank[i].p50_duration <= rank[i].p95_duration
           /\ rank[i].p95_duration <= rank[i].max_duration
           /\ rank[i].max_duration <= rank[i].total_duration
  /\ \A i \in 1..(Len(rank) - 1) : rank[i].total_duration >= rank[i + 1].total_duration

(* However the calls of a session were interleaved, its rankings, its turn *)
(* summary and its calls count the same, and its percentiles are sound.    *)
RankingsAgree ==
  LET agree(e) == \A rank \in {ToolRank(e)} : CountsAgree(e, rank) /\ PercentilesAreOrdered(e, rank)
  IN  Reported(agree)

(* What the report calls pending was never closed, and nothing is pending  *)
(* that had been open for less than its threshold when the report was made.*)
PendingIsOpen ==
  LET open(e) ==
        \A now \in Stamp : \A pending \in {PendingCalls(e, now)} : \A p \in ToSet(pending) :
          p.call.closed > Len(seen) /\ now >= p.call.from + Threshold(p.name)
  IN  Reported(open)

(* What is computed of a session's calls counts all of them and nothing    *)
(* else.                                                                   *)
ReportIsSound == RankingsAgree /\ PendingIsOpen

-----------------------------------------------------------------------------
(* In the flame graph a cell of a turn's bar shows a call exactly if the   *)
(* call runs or starts in the cell's part of the turn, the last of several *)
(* such calls; a turn is marked as pending exactly if a call of it is in   *)
(* the list of pending calls; and while there are less than 20 turns, none *)
(* that the user did not delay is cut at the right edge.                   *)
FlameIsFaithful ==
  LET cell(e, turn, c, w) ==
        LET total == Duration(turn)
            spans == CallsOfTurn(e, turn)
            offset(i) == AtLeast(spans[i].from - turn.from, 0) * w
            until(i) == offset(i) + Duration(spans[i]) * w
        IN  Max({0} \cup {i \in DOMAIN spans :
                  /\ offset(i) < (c + 1) * total
                  /\ until(i) > c * total \/ offset(i) >= c * total})
      faithful(e) ==
        LET scale == FlameScale(e)
            pending(now) == {p.call.turn : p \in ToSet(PendingCalls(e, now))}
        IN  \A now \in Stamp : LET late == pending(now) IN
              \A k \in DOMAIN e.turns :
                LET turn == e.turns[k]
                    row == FlameRow(e, k, 0, scale, ViewboxWidth, now)
                    w == Scaled(turn, scale, ViewboxWidth)
                IN  /\ Finished(turn) =>
                         /\ \A c \in 1..w : row.cells[c] = cell(e, turn, c - 1, w)
                         /\ ~IsUserBlockingTurn(turn) => Duration(turn) <= scale
                    /\ row.color = "yellow" <=> turn.status # "aborted" /\ k \in late
  IN  Reported(faithful)

(* However the tool table is sorted and however much of it fits, it has    *)
(* one row for every tool, one of them is highlighted, and that is the     *)
(* tool whose calls the strip below shows; the table of modes loses no     *)
(* turn, call or token of the summary.  A line too narrow for its entries  *)
(* shows as many as fit in its width and counts the others, and the banner *)
(* of pending calls never leaves out one that waits for the user while it  *)
(* shows one that does not.                                                *)
TablesAreFaithful ==
  LET honest(entries, line, budget) ==
        /\ line.kept + line.more = Len(entries)
        /\ line.kept > 0 => LineWidth(entries, line) <= budget
        /\ line.more > 0 => LineWidth(entries, [line EXCEPT !.kept = @ + 1, !.more = @ - 1]) > budget
      lines(e, budget) ==
        /\ \A selected \in 0..(Len(e.turns) - 1) :
             honest(FooterEntries(e, selected), FooterLine(e, selected, budget), budget)
        /\ LET now == Max(Stamp)
               pending == PendingCalls(e, now)
               blocking(p) == p.name \in UserBlocking
               shown == SubSeq(pending, 1, PendingBanner(e, now, budget).kept)
           IN  pending # <<>> => \/ SelectSeq(shown, blocking) = SelectSeq(pending, blocking)
                                 \/ SelectSeq(shown, LAMBDA p : ~blocking(p)) = <<>>
      faithful(e) ==
        /\ \A budget \in {4, 7} : lines(e, budget)
        /\ LET rank == ToolRank(e)
               now == Max(Stamp)
               pending == PendingCalls(e, now)
               names == {pending[i].name : i \in DOMAIN pending}
           IN  \A key \in {"t", "c", "s", "p"} : LET parts == PartitionAndSort(rank, key) IN
                 \A selected \in 0..(Len(rank) - 1), visible \in {0, 6} :
                   LET table == UnifiedTable(parts, selected, visible, names)
                       strip == DetailStrip(e, parts, selected, pending, now)
                       rows == SelectSeq(table, LAMBDA r : r \notin {Blank, Separator})
                       shown == {i \in DOMAIN rows : rows[i].highlighted}
                   IN  /\ Cardinality(shown) = 1 /\ \A i \in shown : strip.name = <<rows[i].name>>
                       /\ \A n \in DOMAIN e.tools : e.tools[n] # <<>> =>
                            Cardinality({i \in DOMAIN rows : rows[i].name = n}) = 1
        /\ LET rows == TurnSummary(e)  buckets == GroupByMode(rows)
               sum(s, f(_)) == Total([i \in DOMAIN s |-> f(s[i])])
           IN  /\ sum(buckets, LAMBDA b : b.turns) = Len(rows)
               /\ sum(buckets, LAMBDA b : b.total_tool_calls) = sum(rows, LAMBDA r : r.tool_call_count)
               /\ sum(buckets, LAMBDA b : b.total_output_tokens) = sum(rows, LAMBDA r : r.output_tokens)
  IN  Reported(faithful)

-----------------------------------------------------------------------------
(* What the profile opens and closes, walked with a stack.                 *)
Walked(events) ==
  FoldLeft(LAMBDA stack, ev :
             IF stack = <<"broken">> THEN stack
             ELSE IF ev.type = "open" THEN Append(stack, ev.frame)
             ELSE IF stack # <<>> /\ Last(stack) = ev.frame THEN Front(stack)
             ELSE <<"broken">>,
           <<>>, events)

(* Every close matches the frame opened last and nothing stays open; an    *)
(* event names a frame of the table, whose frames are all drawn, but for   *)
(* those of spans that are in no turn.                                     *)
Nests(e, profile) ==
  LET named == {profile.events[i].frame : i \in DOMAIN profile.events}
  IN  /\ Walked(profile.events) = <<>>
      /\ named \subseteq FrameTable(e)
      /\ \A f \in FrameTable(e) \ named : f[1] \in {"hook", "skill"}

Opened(profile, n) ==
  {i \in DOMAIN profile.events : profile.events[i].type = "open" /\ profile.events[i].frame = <<"tool", n>>}

(* The speedscope profile of a session nests; it draws every tool call     *)
(* once, in its turn or in the orphan section; and if it has no warnings   *)
(* it draws every call where it happened.                                  *)
ProfileIsSound ==
  LET sound(e) ==
        \A profile \in {Speedscope(e)} :
          /\ Nests(e, profile)
          /\ \A n \in DOMAIN e.tools :
               LET opened == Opened(profile, n) IN
               /\ Len(e.tools[n]) = Cardinality(opened)
               /\ profile.warnings = <<>> =>
                    \A i \in DOMAIN e.tools[n] :
                      \E k \in opened : profile.events[k].at = Ms(e.start, e.tools[n][i].from)
  IN  Reported(sound)

(* Every reference of a turn has its rectangle, and all are on the canvas, *)
(* but for the last unit's width; only a turn that started after           *)
(* everything ended, open or with a clock that went back, is off it.       *)
RectsOnCanvas ==
  LET on(e) ==
        \A all \in {Rects(e)} : \A k \in DOMAIN e.turns :
          LET rects == all[k] IN
          /\ Len(rects) = 1 + Len(e.turns[k].tool_calls) + Len(e.turns[k].hook_calls)
                            + Len(e.turns[k].skill_calls)
          /\ \A i \in DOMAIN rects :
               /\ rects[i].x >= 0 /\ rects[i].w >= 1
               /\ rects[i].x + rects[i].w > ViewboxWidth + 1 =>
                    i = 1 /\ e.turns[k].from > SessionEnd(e)
  IN  Reported(on)

(* Both charts show every call where it ran, whatever the clocks did.      *)
ChartsAreSound == RectsOnCanvas /\ FlameIsFaithful
=============================================================================
