------------------------------ MODULE Exports -------------------------------
(***************************************************************************)
(* The two timelines drawn from a session's episodes (agentprof-core,      *)
(* export/): to_speedscope writes a sequence of "open" and "close" events  *)
(* of frames, which must nest and whose times must not go back;            *)
(* SvgFlamegraph::from_episodes writes rectangles on a canvas.  Frames are *)
(* values such as <<"tool", name>>; display names are left out.            *)
(***************************************************************************)
EXTENDS Analyzer

CONSTANT ViewboxWidth   \* MIN_VIEWBOX_W .. MAX_VIEWBOX_W
ASSUME ExportsAssumption == ViewboxWidth \in Nat \ {0}

AtLeast(a, b) == IF a < b THEN b ELSE a
AtMost(a, b) == IF a < b THEN a ELSE b
(* duration_ms clamps negative durations.                                  *)
Ms(from, to) == AtLeast(to - from, 0)

(* compute_session_end of the speedscope export, where an open turn counts *)
(* with its start.                                                         *)
SpeedscopeEnd(e) ==
  Max({SessionEnd(e)} \cup {e.turns[k].from : k \in {j \in DOMAIN e.turns : e.turns[j].status = "open"}})

(* collect_turn_children: tools, hooks, skills; then by start.             *)
Children(e, turn) ==
  LET tool(r) == [from |-> e.tools[r.name][r.index].from, to |-> e.tools[r.name][r.index].to,
                  frame |-> <<"tool", r.name>>]
      hook(r) == [from |-> e.hooks[r.name][r.index].from, to |-> e.hooks[r.name][r.index].to,
                  frame |-> <<"hook", r.name>>]
      skill(r) == [from |-> e.skills[r.name][r.index].at, to |-> e.skills[r.name][r.index].at,
                   frame |-> <<"skill", r.name>>]
      each(f(_), refs) == [i \in DOMAIN refs |-> f(refs[i])]
  IN  StablySorted(each(tool, turn.tool_calls) \o each(hook, turn.hook_calls)
                     \o each(skill, turn.skill_calls),
                   LAMBDA a, b : a.from < b.from)

(* adjust_for_overlap: a span that starts before its predecessor's end     *)
(* starts one tick after it, and lasts one tick if that passes its end.    *)
Adjusted(c, last) ==
  IF c.from >= last THEN c
  ELSE [c EXCEPT !.from = last + 1, !.to = IF c.to <= last + 1 THEN last + 2 ELSE c.to]

(* What has been written: the events, the warnings, and EmitCtx's          *)
(* last_emitted_at.                                                        *)
Pushed(out, type, at, frame) ==
  [out EXCEPT !.events = Append(@, [type |-> type, at |-> at, frame |-> frame]),
              !.last = AtLeast(@, at)]
Warned(out, condition, kind) == IF condition THEN [out EXCEPT !.warnings = Append(@, kind)] ELSE out

(* One span of a turn or of the orphan section, after the one that ended   *)
(* at out.after; `bound` clips its end.                                    *)
WrongSpanDrawn(e, out, c, bound) ==
  LET moved == Adjusted(c, out.after)
      ending == AtLeast(AtMost(moved.to, bound), moved.from)
      opened == Pushed(out, "open", Ms(e.start, moved.from), c.frame)
  IN  [Pushed(opened, "close", Ms(e.start, ending), c.frame) EXCEPT !.after = ending]

SpanDrawn(e, out, c, bound) ==
  LET moved == Adjusted(c, out.after)
      ending == AtLeast(AtMost(moved.to, bound), moved.from)
      warned == Warned(out, c.from < out.after, "span_adjusted")
      opened == Pushed(warned, "open", Ms(e.start, moved.from), c.frame)
  IN  [Pushed(opened, "close", Ms(e.start, ending), c.frame) EXCEPT !.after = ending]

(* emit_turn: an open turn is closed at the end of the session, or where   *)
(* the next turn starts if that is earlier.                                *)
TurnDrawn(e, out, k) ==
  LET turn == e.turns[k]
      end == SpeedscopeEnd(e)
      open == turn.status = "open"
      total == Ms(e.start, end)
      clamped == IF k < Len(e.turns) THEN AtMost(total, Ms(e.start, e.turns[k + 1].from)) ELSE total
      closeAt == IF open THEN clamped ELSE Ms(e.start, turn.to)
      early == Warned(out, turn.from < e.start, "negative_clamped")
      ended == IF open THEN Warned(early, clamped < total, "open_truncated")
               ELSE Warned(early, turn.to < e.start, "negative_clamped")
      opened == [Pushed(ended, "open", Ms(e.start, turn.from), <<"turn", k>>) EXCEPT !.after = turn.from]
      drawn == FoldLeft(LAMBDA o, c : SpanDrawn(e, o, c, IF open THEN end ELSE turn.to),
                        opened, Children(e, turn))
  IN  Pushed(drawn, "close", closeAt, <<"turn", k>>)

(* The tool calls that belong to no turn.                                  *)
OrphanCalls(e) ==
  LET of(n) == [i \in DOMAIN e.tools[n] |-> [from |-> e.tools[n][i].from, to |-> e.tools[n][i].to,
                                             turn |-> e.tools[n][i].turn, status |-> e.tools[n][i].status,
                                             frame |-> <<"tool", n>>]]
      all == FoldLeft(LAMBDA s, n : s \o of(n), <<>>, ByName(DOMAIN e.tools))
  IN  StablySorted(SelectSeq(all, LAMBDA c : c.turn = 0), LAMBDA a, b : a.from < b.from)

(* emit_orphans: a section of their own after the last turn.               *)
OrphansDrawn(e, out) ==
  LET orphans == OrphanCalls(e)
      startAt == AtLeast(Ms(e.start, orphans[1].from), out.last)
      warned == Warned(out, startAt > Ms(e.start, orphans[1].from), "orphan_shifted")
      opened == [Pushed(warned, "open", startAt, <<"turn-orphan">>)
                   EXCEPT !.after = AtLeast(orphans[1].from, e.start + startAt)]
      drawn == FoldLeft(LAMBDA o, c : SpanDrawn(e, o, c, Adjusted(c, o.after).to), opened, orphans)
      closeAt == AtLeast(AtLeast(Ms(e.start, Last(orphans).to), Ms(e.start, drawn.after)), startAt)
  IN  IF orphans = <<>> THEN out ELSE Pushed(drawn, "close", closeAt, <<"turn-orphan">>)

(* build_frame_table: the frames an event may name; the orphans' frame is  *)
(* there only if a call has no turn.                                       *)
FrameTable(e) ==
  LET leaves(kind, named) == {<<kind, n>> : n \in {k \in DOMAIN named : named[k] # <<>>}} IN
  {<<"session">>} \cup {<<"turn", k>> : k \in DOMAIN e.turns}
    \cup {<<"turn-orphan">> : c \in {n \in DOMAIN e.tools : \E i \in DOMAIN e.tools[n] : e.tools[n][i].turn = 0}}
    \cup leaves("tool", e.tools) \cup leaves("hook", e.hooks) \cup leaves("skill", e.skills)

(* to_speedscope: the session's frame around the turns and the orphans.    *)
Speedscope(e) ==
  LET begun == Pushed([events |-> <<>>, warnings |-> <<>>, last |-> 0, after |-> 0],
                      "open", 0, <<"session">>)
      turned == FoldLeft(LAMBDA o, k : TurnDrawn(e, o, k), begun, [k \in DOMAIN e.turns |-> k])
      drawn == OrphansDrawn(e, turned)
  IN  Pushed(drawn, "close", AtLeast(Ms(e.start, SpeedscopeEnd(e)), drawn.last), <<"session">>)

-----------------------------------------------------------------------------

(* position: where a span is on the canvas; it is at least one wide.       *)
Placed(e, from, to) ==
  LET total == AtLeast(SessionEnd(e) - e.start, 1)
      s == Ms(e.start, from)
      until == AtLeast(to - e.start, s)
  IN  [x |-> (s * ViewboxWidth) \div total,
       w |-> AtLeast(((until - s) * ViewboxWidth) \div total, 1)]

(* push_turn_rects: a turn and each of its children; an open turn reaches  *)
(* the end of the session.                                                 *)
TurnRects(e, turn) ==
  <<Placed(e, turn.from, IF turn.status = "open" THEN SessionEnd(e) ELSE turn.to)>>
    \o [i \in DOMAIN Children(e, turn) |->
         Placed(e, Children(e, turn)[i].from, Children(e, turn)[i].to)]

(* from_episodes *)
Rects(e) == [k \in DOMAIN e.turns |-> TurnRects(e, e.turns[k])]
=============================================================================
